---------------------------- MODULE EdgesProofs -----------------------------
(***************************************************************************)
(* Theorems about the edges of Viby, one component after the other: engines *)
(* and tools that run elsewhere, the sinks and clients that read what      *)
(* happened, and the product API.                                          *)
(***************************************************************************)
EXTENDS RemoteEngine, OutboundEvents, AgentTools, EventStreams, HostApi, Listings,
        FiniteSetTheorems, WellFoundedInduction, TLAPS

(* A remote engine: deltas and the checkpoint *)

RemotePlace == [pc: {"away", "load", "start", "save-run", "stream", "save",
                     "append", "clear", "commit", "throw", "cancel", "forget"},
                cursor: Nat, event: Nat]
RemoteTypes ==
    /\ remote \in [status: {"absent", "going", "completed", "failed", "cancelled"}, sent: Nat]
    /\ attempt \in [status: {"running", "succeeded", "failed", "cancelled"},
                    holder: RemoteWorker \cup {NobodyRemote}]
    /\ checkpoint \in [cursor: Int] /\ (checkpoint = NoCheckpoint \/ checkpoint.cursor \in Nat)
    /\ deltas \in Seq(Nat)
    /\ worker \in [RemoteWorker -> RemotePlace]
    /\ torn \in SUBSET Nat /\ remoteFaults \in Nat /\ failedCalls \in Nat

\* The run has sent the event, or it is the one that says how it ended.
RunIsOver  == remote.status \in {"completed", "failed"}
Reached(n) == n <= remote.sent \/ (n = remote.sent + 1 /\ RunIsOver)

\* A worker's place in the stream, and how it fits the checkpoint while the lease is its own.
Fits(w) ==
    LET x == worker[w] IN
    /\ x.pc \in {"start", "save-run"} => x.cursor = 0
    /\ x.pc \in {"save", "append"} => x.event = x.cursor
    /\ x.pc = "save" => Reached(x.event)
    /\ x.pc = "append" => x.event <= remote.sent
    /\ x.pc = "clear" => x.event = remote.sent + 1 /\ RunIsOver
    /\ LeaseIs(w) => /\ x.pc = "stream" => x.cursor = checkpoint.cursor
                     /\ x.pc = "save" => x.event = checkpoint.cursor + 1
                     /\ x.pc \in {"append", "clear"} => x.event = checkpoint.cursor

\* A delta that is in the log, or about to be, or torn from its worker.
Covered(n) ==
    \/ n \in Range(deltas) \cup torn
    \/ \E w \in RemoteWorker : OnRemote(w, "append") /\ worker[w].event = n

CheckpointIsCovered ==
    /\ Reached(checkpoint.cursor)
    /\ \A n \in 1..remote.sent : n <= checkpoint.cursor => Covered(n)

\* A result, or the worker that is going to commit it, has the whole stream behind it.
HasResult == attempt.status = "succeeded" \/ \E w \in RemoteWorker : LeaseIs(w) /\ OnRemote(w, "commit")
ResultIsCovered == HasResult => RunIsOver /\ \A n \in 1..remote.sent : Covered(n)

RemoteInv == /\ RemoteTypes /\ (\A w \in RemoteWorker : Fits(w)) /\ CheckpointIsCovered
             /\ ResultIsCovered

LEMMA NobodyIsNoWorker == NobodyRemote \notin RemoteWorker
BY RemoteAssumption DEF RemoteAssumption

LEMMA RemoteInitInv == RemoteInit => RemoteInv
<1> SUFFICES ASSUME RemoteInit PROVE RemoteInv
  OBVIOUS
<1>1. RemoteTypes
  <2>1. Away \in RemotePlace
    BY DEF Away, RemotePlace
  <2>2. worker \in [RemoteWorker -> RemotePlace]
    BY <2>1 DEF RemoteInit
  <2>3. checkpoint \in [cursor: Int] /\ checkpoint = NoCheckpoint
    BY DEF RemoteInit, NoCheckpoint
  <2>4. <<>> \in Seq(Nat)
    OBVIOUS
  <2>5. QED
    BY <2>2, <2>3, <2>4 DEF RemoteInit, RemoteTypes
<1>2. \A w \in RemoteWorker : worker[w].pc = "away" /\ ~LeaseIs(w)
  BY NobodyIsNoWorker DEF RemoteInit, Away, LeaseIs
<1>3. /\ remote.sent = 0 /\ checkpoint.cursor = -1 /\ attempt.status = "running"
  BY DEF RemoteInit, NoCheckpoint
<1>4. (\A w \in RemoteWorker : Fits(w)) /\ ~HasResult
  BY <1>2, <1>3 DEF Fits, HasResult, OnRemote
<1>5. CheckpointIsCovered
  BY <1>3 DEF CheckpointIsCovered, Reached
<1>6. QED
  BY <1>1, <1>4, <1>5 DEF RemoteInv, ResultIsCovered

LEMMA RangeOfAppend ==
    ASSUME NEW s \in Seq(Nat), NEW e \in Nat
    PROVE  Range(Append(s, e)) = Range(s) \cup {e}
<1>1. /\ DOMAIN Append(s, e) = 1..(Len(s) + 1) /\ DOMAIN s = 1..Len(s) /\ Len(s) \in Nat
      /\ \A i \in 1..Len(s) : Append(s, e)[i] = s[i]
      /\ Append(s, e)[Len(s) + 1] = e
  OBVIOUS
<1>2. \A i : i \in 1..(Len(s) + 1) <=> i \in 1..Len(s) \/ i = Len(s) + 1
  BY <1>1
<1>3. QED
  BY <1>1, <1>2 DEF Range

\* What the provider's run may do: go on while it goes, end once, and stay as it ended.
RemoteMoves ==
    /\ remote' \in [status: {"absent", "going", "completed", "failed", "cancelled"}, sent: Nat]
    /\ remote.sent <= remote'.sent
    /\ RunIsOver => remote' = remote
    /\ remote'.sent # remote.sent => ~RunIsOver

LEMMA MovesKeepReached ==
    ASSUME RemoteTypes, RemoteMoves, NEW n \in Int
    PROVE  Reached(n) => Reached(n)'
BY DEF RemoteTypes, RemoteMoves, Reached, RunIsOver

\* A step that neither logs a delta nor touches the checkpoint.
LEMMA RemoteStepInv ==
    ASSUME RemoteInv, RemoteTypes', RemoteMoves, UNCHANGED <<checkpoint, deltas>>, torn \subseteq torn',
           \A v \in RemoteWorker :
               \/ worker'[v] = worker[v] /\ (LeaseIs(v)' => LeaseIs(v))
               \/ Fits(v)' /\ (OnRemote(v, "append") => worker[v].event \in torn'),
           HasResult' => HasResult
    PROVE  RemoteInv'
<1>1. \A v \in RemoteWorker : Fits(v)'
  <2> SUFFICES ASSUME NEW v \in RemoteWorker, worker'[v] = worker[v], LeaseIs(v)' => LeaseIs(v)
               PROVE  Fits(v)'
    OBVIOUS
  <2>1. Fits(v) /\ worker[v].event \in Int /\ worker[v].event \in Nat
    BY DEF RemoteInv, RemoteTypes, RemotePlace
  <2>2. /\ Reached(worker[v].event) => Reached(worker[v].event)'
        /\ worker[v].event <= remote.sent => worker[v].event <= remote'.sent
        /\ worker[v].event = remote.sent + 1 /\ RunIsOver => worker[v].event = remote'.sent + 1 /\ RunIsOver'
    BY <2>1, MovesKeepReached DEF RemoteInv, RemoteTypes, RemoteMoves, RunIsOver
  <2>3. QED
    BY <2>1, <2>2 DEF Fits, Reached, RunIsOver
<1>2. \A n : Covered(n) => Covered(n)'
  BY DEF Covered, OnRemote
<1>3. CheckpointIsCovered'
  <2>1. checkpoint.cursor \in Int /\ remote.sent \in Nat /\ remote'.sent \in Nat
    BY DEF RemoteInv, RemoteTypes, RemoteMoves
  <2>2. Reached(checkpoint.cursor)'
    BY <2>1, MovesKeepReached DEF RemoteInv, CheckpointIsCovered
  <2>3. \A n \in 1..remote'.sent : n <= checkpoint.cursor => n \in 1..remote.sent
    BY <2>1 DEF RemoteInv, CheckpointIsCovered, Reached, RemoteMoves
  <2>4. QED
    BY <1>2, <2>2, <2>3 DEF RemoteInv, CheckpointIsCovered, Reached, RunIsOver, Covered, OnRemote
<1>4. ResultIsCovered'
  <2> SUFFICES ASSUME HasResult'
               PROVE  RunIsOver' /\ \A n \in 1..remote'.sent : Covered(n)'
    BY DEF ResultIsCovered
  <2>1. RunIsOver /\ \A n \in 1..remote.sent : Covered(n)
    BY DEF RemoteInv, ResultIsCovered
  <2>2. QED
    BY <1>2, <2>1 DEF RemoteMoves, RunIsOver
<1>5. QED
  BY <1>1, <1>3, <1>4 DEF RemoteInv

LEMMA Turns ==
    ASSUME RemoteTypes, NEW w \in RemoteWorker,
           NEW pc \in {"away", "load", "start", "save-run", "stream", "save", "append", "clear",
                       "commit", "throw", "cancel", "forget"},
           Turn(w, pc)
    PROVE  /\ worker' \in [RemoteWorker -> RemotePlace]
           /\ worker'[w].pc = pc /\ worker'[w].cursor = worker[w].cursor
           /\ worker'[w].event = worker[w].event
           /\ \A v \in RemoteWorker \ {w} : worker'[v] = worker[v]
BY DEF RemoteTypes, Turn, RemotePlace

LEMMA Leaves ==
    ASSUME RemoteTypes, NEW w \in RemoteWorker, Leave(w)
    PROVE  /\ worker' \in [RemoteWorker -> RemotePlace] /\ worker'[w].pc = "away"
           /\ \A v \in RemoteWorker \ {w} : worker'[v] = worker[v]
BY DEF RemoteTypes, Leave, RemotePlace, Away

\* The steps of the provider, and of the cancellation of the attempt.
LEMMA ProviderInv ==
    ASSUME RemoteInv, SendDelta \/ EndRemote \/ CancelAttempt
    PROVE  RemoteInv'
<1>1. UNCHANGED <<checkpoint, deltas, worker, torn, remoteFaults, failedCalls>> /\ RemoteTypes
  BY DEF SendDelta, EndRemote, CancelAttempt, RemoteInv
<1>2. RemoteMoves
  BY <1>1 DEF SendDelta, EndRemote, CancelAttempt, RemoteMoves, RemoteTypes, RunIsOver
<1>3. \/ UNCHANGED attempt
      \/ attempt' = [status |-> "cancelled", holder |-> NobodyRemote]
  BY DEF SendDelta, EndRemote, CancelAttempt
<1>4. RemoteTypes'
  BY <1>1, <1>2, <1>3 DEF RemoteTypes, RemoteMoves
<1>5. /\ \A v \in RemoteWorker : LeaseIs(v)' => LeaseIs(v)
      /\ HasResult' => HasResult
  BY <1>1, <1>3 DEF LeaseIs, HasResult, OnRemote
<1>6. QED
  BY <1>1, <1>2, <1>4, <1>5, RemoteStepInv

LEMMA ReclaimInv ==
    ASSUME RemoteInv, NEW w \in RemoteWorker, Reclaim(w)
    PROVE  RemoteInv'
<1>1. /\ UNCHANGED <<remote, checkpoint, deltas, torn, remoteFaults, failedCalls>> /\ RemoteTypes
      /\ worker[w].pc = "away" /\ attempt.status = "running" /\ attempt.holder = NobodyRemote
      /\ attempt' = [attempt EXCEPT !.holder = w] /\ Turn(w, "load")
  BY DEF Reclaim, OnRemote, RemoteInv
<1>2. /\ worker' \in [RemoteWorker -> RemotePlace] /\ worker'[w].pc = "load"
      /\ \A v \in RemoteWorker \ {w} : worker'[v] = worker[v]
  BY <1>1, Turns
<1>3. /\ attempt' \in [status: {"running", "succeeded", "failed", "cancelled"},
                       holder: RemoteWorker \cup {NobodyRemote}]
      /\ attempt'.status = "running" /\ attempt'.holder = w
  BY <1>1 DEF RemoteTypes
<1>4. RemoteTypes' /\ RemoteMoves
  BY <1>1, <1>2, <1>3 DEF RemoteTypes, RemoteMoves
<1>5. /\ \A v \in RemoteWorker \ {w} : ~LeaseIs(v)'
      /\ Fits(w)' /\ ~OnRemote(w, "append") /\ ~HasResult'
  BY <1>1, <1>2, <1>3 DEF LeaseIs, Fits, OnRemote, HasResult
<1>6. QED
  BY <1>1, <1>2, <1>4, <1>5, RemoteStepInv

\* A worker goes on, the attempt and its checkpoint as they are.
LEMMA WorkerMoves ==
    ASSUME RemoteInv, NEW w \in RemoteWorker, RemoteMoves,
           UNCHANGED <<attempt, checkpoint, deltas>>, torn \subseteq torn', torn' \in SUBSET Nat,
           remoteFaults' \in Nat /\ failedCalls' \in Nat,
           worker' \in [RemoteWorker -> RemotePlace],
           \A v \in RemoteWorker \ {w} : worker'[v] = worker[v],
           Fits(w)', worker'[w].pc # "commit", OnRemote(w, "append") => worker[w].event \in torn'
    PROVE  RemoteInv'
<1>1. RemoteTypes'
  BY DEF RemoteInv, RemoteTypes, RemoteMoves
<1>2. /\ \A v \in RemoteWorker : LeaseIs(v)' = LeaseIs(v)
      /\ HasResult' => HasResult
  BY DEF LeaseIs, HasResult, OnRemote
<1>3. QED
  BY <1>1, <1>2, RemoteStepInv

LEMMA GenerateInv ==
    ASSUME RemoteInv, NEW w \in RemoteWorker,
           LoadCheckpoint(w) \/ StartRemote(w) \/ NextEvent(w) \/ StreamEnds(w) \/ CancelRemote(w)
    PROVE  RemoteInv'
<1>1. UNCHANGED <<attempt, checkpoint, deltas, torn, remoteFaults, failedCalls>> /\ RemoteTypes /\ Fits(w)
  BY DEF LoadCheckpoint, StartRemote, NextEvent, StreamEnds, CancelRemote, RemoteInv
<1>2. torn' \in SUBSET Nat /\ remoteFaults' \in Nat /\ failedCalls' \in Nat /\ worker[w] \in RemotePlace
  BY <1>1 DEF RemoteTypes
<1>3. RemoteMoves
  BY <1>1 DEF LoadCheckpoint, StartRemote, NextEvent, StreamEnds, CancelRemote, RemoteMoves,
              RemoteTypes, RunIsOver
<1>4. ~OnRemote(w, "append")
  BY DEF LoadCheckpoint, StartRemote, NextEvent, StreamEnds, CancelRemote, OnRemote
<1>5. LeaseIs(w)' = LeaseIs(w)
  BY <1>1 DEF LeaseIs
<1>6. CASE LoadCheckpoint(w)
  <2>1. \/ worker' = [worker EXCEPT ![w] = [pc |-> "start", cursor |-> 0, event |-> 0]]
        \/ /\ worker' = [worker EXCEPT ![w] = [pc |-> "stream", cursor |-> checkpoint.cursor, event |-> 0]]
           /\ checkpoint.cursor \in Nat
    BY <1>1, <1>6 DEF LoadCheckpoint, RemoteTypes
  <2>2. /\ worker' \in [RemoteWorker -> RemotePlace]
        /\ \A v \in RemoteWorker \ {w} : worker'[v] = worker[v]
        /\ \/ worker'[w].pc = "start" /\ worker'[w].cursor = 0
           \/ worker'[w].pc = "stream" /\ worker'[w].cursor = checkpoint.cursor
    <3>1. CASE worker' = [worker EXCEPT ![w] = [pc |-> "start", cursor |-> 0, event |-> 0]]
      BY <1>1, <3>1 DEF RemoteTypes, RemotePlace
    <3>2. CASE /\ worker' = [worker EXCEPT ![w] = [pc |-> "stream", cursor |-> checkpoint.cursor, event |-> 0]]
               /\ checkpoint.cursor \in Nat
      BY <1>1, <3>2 DEF RemoteTypes, RemotePlace
    <3>3. QED
      BY <2>1, <3>1, <3>2
  <2>3. Fits(w)' /\ worker'[w].pc # "commit"
    BY <1>1, <2>2 DEF Fits
  <2>4. QED
    BY <1>1, <1>2, <1>3, <1>4, <2>2, <2>3, WorkerMoves
<1>7. CASE StartRemote(w)
  <2>1. worker[w].pc = "start" /\ Turn(w, "save-run")
    BY <1>7 DEF StartRemote, OnRemote
  <2>2. /\ worker' \in [RemoteWorker -> RemotePlace]
        /\ \A v \in RemoteWorker \ {w} : worker'[v] = worker[v]
        /\ worker'[w].pc = "save-run" /\ worker'[w].cursor = worker[w].cursor
    BY <1>1, <2>1, Turns
  <2>3. Fits(w)' /\ worker'[w].pc # "commit"
    BY <1>1, <2>1, <2>2 DEF Fits
  <2>4. QED
    BY <1>1, <1>2, <1>3, <1>4, <2>2, <2>3, WorkerMoves
<1>8. CASE NextEvent(w)
  <2>1. /\ worker[w].pc = "stream" /\ UNCHANGED remote
        /\ worker' = [worker EXCEPT ![w] = [pc |-> "save", cursor |-> Following(w), event |-> Following(w)]]
        /\ Reached(Following(w))
    BY <1>8 DEF NextEvent, OnRemote, Reached, RunIsOver
  <2>2. Following(w) \in Nat /\ Following(w) = worker[w].cursor + 1
    BY <1>2 DEF Following, RemotePlace
  <2>3. /\ worker' \in [RemoteWorker -> RemotePlace]
        /\ \A v \in RemoteWorker \ {w} : worker'[v] = worker[v]
        /\ worker'[w].pc = "save" /\ worker'[w].event = Following(w)
        /\ worker'[w].cursor = Following(w)
    BY <1>1, <2>1, <2>2 DEF RemoteTypes, RemotePlace
  <2>4. Reached(worker[w].event)'
    BY <2>1, <2>3 DEF Reached, RunIsOver
  <2>5. LeaseIs(w)' => worker'[w].event = checkpoint'.cursor + 1
    BY <1>1, <1>5, <2>1, <2>2, <2>3 DEF Fits
  <2>6. Fits(w)' /\ worker'[w].pc # "commit"
    BY <2>3, <2>4, <2>5 DEF Fits, Reached, RunIsOver
  <2>7. QED
    BY <1>1, <1>2, <1>3, <1>4, <2>3, <2>6, WorkerMoves
<1>9. CASE StreamEnds(w) \/ CancelRemote(w)
  <2>1. PICK pc \in {"throw", "forget"} : Turn(w, pc)
    BY <1>9 DEF StreamEnds, CancelRemote
  <2>2. /\ worker' \in [RemoteWorker -> RemotePlace]
        /\ \A v \in RemoteWorker \ {w} : worker'[v] = worker[v]
        /\ worker'[w].pc \in {"throw", "forget"}
    BY <1>1, <2>1, Turns
  <2>3. Fits(w)' /\ worker'[w].pc # "commit"
    BY <2>2 DEF Fits
  <2>4. QED
    BY <1>1, <1>2, <1>3, <1>4, <2>2, <2>3, WorkerMoves
<1>10. QED
  BY <1>6, <1>7, <1>8, <1>9

\* A worker that goes takes what it was about to log with it, and that is noted.
LEMMA TornIs ==
    ASSUME RemoteInv, NEW w \in RemoteWorker, Torn(w)
    PROVE  (torn \subseteq torn') /\ torn' \in SUBSET Nat /\ (OnRemote(w, "append") => worker[w].event \in torn')
<1>1. worker[w].event \in Nat /\ torn \in SUBSET Nat
  BY DEF RemoteInv, RemoteTypes, RemotePlace
<1>2. QED
  BY <1>1 DEF Torn, Tear

LEMMA RefusedInv ==
    ASSUME RemoteInv, NEW w \in RemoteWorker, Refused(w) \/ StopWorker(w)
    PROVE  RemoteInv'
<1>1. /\ UNCHANGED <<remote, attempt, checkpoint, deltas>> /\ RemoteTypes /\ Torn(w)
      /\ Leave(w) \/ Turn(w, "cancel")
  BY DEF Refused, StopWorker, RemoteInv
<1>2. RemoteMoves /\ remoteFaults' \in Nat /\ failedCalls' \in Nat
  BY <1>1 DEF RemoteMoves, RemoteTypes, Refused, StopWorker
<1>3. /\ worker' \in [RemoteWorker -> RemotePlace]
      /\ \A v \in RemoteWorker \ {w} : worker'[v] = worker[v]
      /\ worker'[w].pc \in {"away", "cancel"}
  BY <1>1, Turns, Leaves
<1>4. Fits(w)' /\ worker'[w].pc # "commit"
  BY <1>3 DEF Fits
<1>5. QED
  BY <1>1, <1>2, <1>3, <1>4, TornIs, WorkerMoves

\* Steps that end the attempt, or the lease, of a worker.
LEMMA LeaseEndsInv ==
    ASSUME RemoteInv, NEW w \in RemoteWorker, SettleRemote(w) \/ LoseRemoteLease(w)
    PROVE  RemoteInv'
<1>1. UNCHANGED <<remote, checkpoint, deltas>> /\ RemoteTypes /\ RemoteMoves
  BY DEF SettleRemote, LoseRemoteLease, RemoteInv, RemoteMoves, RemoteTypes
<1>2. CASE LoseRemoteLease(w)
  <2>1. /\ LeaseIs(w) /\ attempt' = [attempt EXCEPT !.holder = NobodyRemote]
        /\ \/ UNCHANGED <<worker, torn>>
           \/ Leave(w) /\ Torn(w)
        /\ remoteFaults' \in Nat /\ failedCalls' \in Nat
    BY <1>1, <1>2 DEF LoseRemoteLease, RemoteTypes
  <2>2. /\ attempt' \in [status: {"running", "succeeded", "failed", "cancelled"},
                         holder: RemoteWorker \cup {NobodyRemote}]
        /\ attempt'.status = "running" /\ \A v \in RemoteWorker : ~LeaseIs(v)'
    BY <1>1, <2>1, NobodyIsNoWorker DEF RemoteTypes, LeaseIs
  <2>3. /\ worker' \in [RemoteWorker -> RemotePlace]
        /\ \A v \in RemoteWorker \ {w} : worker'[v] = worker[v]
        /\ worker'[w] = worker[w] \/ (worker'[w].pc = "away" /\ (OnRemote(w, "append") => worker[w].event \in torn'))
        /\ (torn \subseteq torn') /\ torn' \in SUBSET Nat
    BY <1>1, <2>1, Leaves, TornIs DEF RemoteTypes
  <2>4. RemoteTypes'
    BY <1>1, <2>1, <2>2, <2>3 DEF RemoteTypes
  <2>5. worker'[w].pc = "away" => Fits(w)'
    BY DEF Fits
  <2>6. ~HasResult'
    BY <2>2 DEF HasResult
  <2>7. QED
    BY <1>1, <2>2, <2>3, <2>4, <2>5, <2>6, RemoteStepInv
<1>3. CASE SettleRemote(w)
  <2>1. PICK s \in {"succeeded", "failed"} :
          /\ OnRemote(w, IF s = "succeeded" THEN "commit" ELSE "throw")
          /\ attempt' = IF LeaseIs(w) THEN [status |-> s, holder |-> NobodyRemote] ELSE attempt
          /\ Leave(w) /\ UNCHANGED <<torn, remoteFaults, failedCalls>>
    BY <1>3 DEF SettleRemote
  <2>2. /\ worker' \in [RemoteWorker -> RemotePlace] /\ worker'[w].pc = "away"
        /\ \A v \in RemoteWorker \ {w} : worker'[v] = worker[v]
    BY <1>1, <2>1, Leaves
  <2>3. RemoteTypes'
    BY <1>1, <2>1, <2>2 DEF RemoteTypes
  <2>4. Fits(w)' /\ ~OnRemote(w, "append") /\ ~OnRemote(w, "commit")'
    BY <2>1, <2>2 DEF Fits, OnRemote
  <2>5. \A v \in RemoteWorker : LeaseIs(v)' => LeaseIs(v)
    BY <2>1, NobodyIsNoWorker DEF LeaseIs
  <2>6. HasResult' => HasResult
    <3>1. CASE attempt'.status = "succeeded"
      BY <2>1, <3>1 DEF HasResult
    <3>2. CASE \E v \in RemoteWorker : LeaseIs(v)' /\ OnRemote(v, "commit")'
      BY <2>2, <2>5, <3>2 DEF HasResult, OnRemote
    <3>3. QED
      BY <3>1, <3>2 DEF HasResult, LeaseIs, OnRemote
  <2>7. QED
    BY <1>1, <2>1, <2>2, <2>3, <2>4, <2>5, <2>6, RemoteStepInv
<1>4. QED
  BY <1>2, <1>3

\* The writes of the holder of the lease: what the others know of the lease and the stream stays.
LEMMA HolderWrites ==
    ASSUME RemoteInv, NEW w \in RemoteWorker, LeaseIs(w), UNCHANGED <<remote, attempt>>,
           \A v \in RemoteWorker \ {w} : worker'[v] = worker[v]
    PROVE  /\ \A v \in RemoteWorker \ {w} : ~LeaseIs(v) /\ Fits(v)'
           /\ LeaseIs(w)' /\ attempt.status = "running"
<1>1. \A v \in RemoteWorker \ {w} : ~LeaseIs(v) /\ ~LeaseIs(v)' /\ Fits(v)
  BY DEF RemoteInv, LeaseIs
<1>2. \A v \in RemoteWorker \ {w} : Fits(v)'
  BY <1>1 DEF Fits, Reached, RunIsOver
<1>3. QED
  BY <1>1, <1>2 DEF LeaseIs

LEMMA SaveRunInv ==
    ASSUME RemoteInv, NEW w \in RemoteWorker, SaveRun(w)
    PROVE  RemoteInv'
<1>1. /\ UNCHANGED <<remote, attempt, deltas, torn, remoteFaults, failedCalls>> /\ RemoteTypes /\ LeaseIs(w)
      /\ worker[w].pc = "save-run" /\ Turn(w, "stream") /\ checkpoint' = [cursor |-> 0]
  BY DEF SaveRun, OnRemote, RemoteInv
<1>2. /\ worker' \in [RemoteWorker -> RemotePlace] /\ worker'[w].pc = "stream"
      /\ worker'[w].cursor = worker[w].cursor
      /\ \A v \in RemoteWorker \ {w} : worker'[v] = worker[v]
  BY <1>1, Turns
<1>3. /\ \A v \in RemoteWorker \ {w} : ~LeaseIs(v) /\ Fits(v)'
      /\ LeaseIs(w)' /\ attempt.status = "running"
  BY <1>1, <1>2, HolderWrites
<1>4. checkpoint'.cursor = 0 /\ remote.sent \in Nat /\ checkpoint' \in [cursor: Int]
  BY <1>1 DEF RemoteTypes
<1>5. RemoteTypes'
  BY <1>1, <1>2, <1>4 DEF RemoteTypes
<1>6. Fits(w)'
  BY <1>1, <1>2, <1>4 DEF Fits, RemoteInv
<1>7. CheckpointIsCovered'
  BY <1>1, <1>4 DEF CheckpointIsCovered, Reached
<1>8. ~HasResult'
  BY <1>1, <1>2, <1>3 DEF HasResult, OnRemote, LeaseIs
<1>9. QED
  BY <1>3, <1>5, <1>6, <1>7, <1>8 DEF RemoteInv, ResultIsCovered

\* The checkpoint moves over one event, which its worker has in hand.
LEMMA SaveCursorInv ==
    ASSUME RemoteInv, NEW w \in RemoteWorker, SaveCursor(w)
    PROVE  RemoteInv'
<1> DEFINE e == worker[w].event
           pc == IF e <= remote.sent THEN "append" ELSE "clear"
<1>1. /\ UNCHANGED <<remote, attempt, deltas, torn, remoteFaults, failedCalls>> /\ RemoteTypes /\ LeaseIs(w)
      /\ worker[w].pc = "save" /\ Turn(w, pc) /\ checkpoint' = [cursor |-> e]
  BY DEF SaveCursor, OnRemote, RemoteInv
<1>2. e \in Nat /\ remote.sent \in Nat /\ checkpoint.cursor \in Int
  BY <1>1 DEF RemoteTypes, RemotePlace
<1>3. /\ worker' \in [RemoteWorker -> RemotePlace] /\ worker'[w].pc = pc
      /\ worker'[w].event = e /\ worker'[w].cursor = worker[w].cursor
      /\ \A v \in RemoteWorker \ {w} : worker'[v] = worker[v]
  BY <1>1, Turns
<1>4. /\ \A v \in RemoteWorker \ {w} : ~LeaseIs(v) /\ Fits(v)'
      /\ LeaseIs(w)' /\ attempt.status = "running"
  BY <1>1, <1>3, HolderWrites
<1>5. Reached(e) /\ e = checkpoint.cursor + 1 /\ e = worker[w].cursor
  BY <1>1 DEF RemoteInv, Fits
<1>6. checkpoint'.cursor = e /\ checkpoint' \in [cursor: Int]
  BY <1>1, <1>2
<1>7. RemoteTypes'
  BY <1>1, <1>2, <1>3, <1>6 DEF RemoteTypes
<1>8. Fits(w)'
  BY <1>1, <1>2, <1>3, <1>5, <1>6 DEF Fits, Reached, RunIsOver
<1>9. \A n : Covered(n) => Covered(n)'
  <2>1. ~OnRemote(w, "append")
    BY <1>1 DEF OnRemote
  <2>2. QED
    BY <1>1, <1>3, <2>1 DEF Covered, OnRemote
<1>10. \A n : n = e /\ n <= remote.sent => Covered(n)'
  BY <1>3 DEF Covered, OnRemote
<1>11. CheckpointIsCovered'
  <2>1. \A n \in 1..remote.sent : n <= e => n <= checkpoint.cursor \/ n = e
    BY <1>2, <1>5
  <2>2. \A n \in 1..remote.sent : n <= e => Covered(n)'
    <3> SUFFICES ASSUME NEW n \in 1..remote.sent, n <= e PROVE Covered(n)'
      OBVIOUS
    <3>1. CASE n = e
      BY <1>10, <3>1
    <3>2. CASE n <= checkpoint.cursor
      <4>1. Covered(n)
        BY <3>2 DEF RemoteInv, CheckpointIsCovered
      <4>2. QED
        BY <1>9, <4>1
    <3>3. QED
      BY <2>1, <3>1, <3>2
  <2>3. QED
    BY <1>1, <1>5, <1>6, <2>2 DEF CheckpointIsCovered, Reached, RunIsOver, Covered, OnRemote
<1>12. ~HasResult'
  BY <1>1, <1>3, <1>4 DEF HasResult, OnRemote, LeaseIs
<1>13. QED
  BY <1>4, <1>7, <1>8, <1>11, <1>12 DEF RemoteInv, ResultIsCovered

LEMMA AppendDeltaInv ==
    ASSUME RemoteInv, NEW w \in RemoteWorker, AppendDelta(w)
    PROVE  RemoteInv'
<1> DEFINE e == worker[w].event
<1>1. /\ UNCHANGED <<remote, attempt, checkpoint, torn, remoteFaults, failedCalls>> /\ RemoteTypes /\ LeaseIs(w)
      /\ worker[w].pc = "append" /\ Turn(w, "stream") /\ deltas' = Append(deltas, e)
  BY DEF AppendDelta, OnRemote, RemoteInv
<1>2. e \in Nat /\ deltas \in Seq(Nat)
  BY <1>1 DEF RemoteTypes, RemotePlace
<1>3. /\ worker' \in [RemoteWorker -> RemotePlace] /\ worker'[w].pc = "stream"
      /\ worker'[w].cursor = worker[w].cursor
      /\ \A v \in RemoteWorker \ {w} : worker'[v] = worker[v]
  BY <1>1, Turns
<1>4. /\ \A v \in RemoteWorker \ {w} : ~LeaseIs(v) /\ Fits(v)'
      /\ LeaseIs(w)' /\ attempt.status = "running"
  BY <1>1, <1>3, HolderWrites
<1>5. deltas' \in Seq(Nat) /\ Range(deltas') = Range(deltas) \cup {e}
  BY <1>1, <1>2, RangeOfAppend
<1>6. RemoteTypes'
  BY <1>1, <1>3, <1>5 DEF RemoteTypes
<1>7. Fits(w)'
  BY <1>1, <1>3 DEF Fits, RemoteInv
<1>8. \A n : Covered(n) => Covered(n)'
  BY <1>1, <1>3, <1>5 DEF Covered, OnRemote
<1>9. CheckpointIsCovered'
  BY <1>1, <1>8 DEF RemoteInv, CheckpointIsCovered, Reached, RunIsOver, Covered
<1>10. ~HasResult'
  BY <1>1, <1>3, <1>4 DEF HasResult, OnRemote, LeaseIs
<1>11. QED
  BY <1>4, <1>6, <1>7, <1>9, <1>10 DEF RemoteInv, ResultIsCovered

\* The last event has been read: what follows is the result, with the whole stream behind it.
LEMMA ClearCheckpointInv ==
    ASSUME RemoteInv, NEW w \in RemoteWorker, ClearCheckpoint(w)
    PROVE  RemoteInv'
<1>1. /\ UNCHANGED <<remote, attempt, deltas, torn, remoteFaults, failedCalls>> /\ RemoteTypes /\ LeaseIs(w)
      /\ worker[w].pc = "clear" /\ checkpoint' = NoCheckpoint
  BY DEF ClearCheckpoint, OnRemote, RemoteInv
<1>2. PICK pc \in {"commit", "throw"} : Turn(w, pc)
  BY DEF ClearCheckpoint
<1>3. /\ worker' \in [RemoteWorker -> RemotePlace] /\ worker'[w].pc = pc
      /\ \A v \in RemoteWorker \ {w} : worker'[v] = worker[v]
  BY <1>1, <1>2, Turns
<1>4. /\ \A v \in RemoteWorker \ {w} : ~LeaseIs(v) /\ Fits(v)'
      /\ LeaseIs(w)' /\ attempt.status = "running"
  BY <1>1, <1>3, HolderWrites
<1>5. checkpoint'.cursor = -1 /\ checkpoint' \in [cursor: Int] /\ remote.sent \in Nat
  BY <1>1 DEF NoCheckpoint, RemoteTypes
<1>6. RemoteTypes'
  BY <1>1, <1>3, <1>5 DEF RemoteTypes, NoCheckpoint
<1>7. Fits(w)'
  BY <1>3 DEF Fits
<1>8. CheckpointIsCovered'
  BY <1>1, <1>5 DEF CheckpointIsCovered, Reached
<1>9. \A n : Covered(n) => Covered(n)'
  <2>1. ~OnRemote(w, "append")
    BY <1>1 DEF OnRemote
  <2>2. QED
    BY <1>1, <1>3, <2>1 DEF Covered, OnRemote
<1>10. RunIsOver /\ checkpoint.cursor = remote.sent + 1
  BY <1>1 DEF RemoteInv, Fits
<1>11. \A n \in 1..remote.sent : Covered(n)
  BY <1>5, <1>10 DEF RemoteInv, CheckpointIsCovered
<1>12. ResultIsCovered'
  BY <1>1, <1>9, <1>10, <1>11 DEF ResultIsCovered, RunIsOver, Covered
<1>13. QED
  BY <1>4, <1>6, <1>7, <1>8, <1>12 DEF RemoteInv

LEMMA ForgetRemoteInv ==
    ASSUME RemoteInv, NEW w \in RemoteWorker, ForgetRemote(w)
    PROVE  RemoteInv'
<1>1. /\ UNCHANGED <<remote, deltas, torn, remoteFaults, failedCalls>> /\ RemoteTypes
      /\ worker[w].pc = "forget" /\ Leave(w)
  BY DEF ForgetRemote, OnRemote, RemoteInv
<1>2. /\ worker' \in [RemoteWorker -> RemotePlace] /\ worker'[w].pc = "away"
      /\ \A v \in RemoteWorker \ {w} : worker'[v] = worker[v]
  BY <1>1, Leaves
<1>3. Fits(w)'
  BY <1>2 DEF Fits
<1>4. CASE ~LeaseIs(w)
  <2>1. UNCHANGED <<checkpoint, attempt>>
    BY <1>4 DEF ForgetRemote
  <2>2. /\ RemoteMoves /\ torn' \in SUBSET Nat /\ remoteFaults' \in Nat /\ failedCalls' \in Nat /\ ~OnRemote(w, "append")
        /\ worker'[w].pc # "commit"
    BY <1>1, <1>2 DEF RemoteMoves, RemoteTypes, OnRemote
  <2>3. QED
    BY <1>1, <1>2, <1>3, <2>1, <2>2, WorkerMoves
<1>5. CASE LeaseIs(w)
  <2>1. checkpoint' = NoCheckpoint /\ attempt' = [attempt EXCEPT !.holder = NobodyRemote]
    BY <1>5 DEF ForgetRemote
  <2>2. /\ attempt' \in [status: {"running", "succeeded", "failed", "cancelled"},
                         holder: RemoteWorker \cup {NobodyRemote}]
        /\ attempt'.status = "running" /\ \A v \in RemoteWorker : ~LeaseIs(v)'
    BY <1>1, <1>5, <2>1, NobodyIsNoWorker DEF RemoteTypes, LeaseIs
  <2>3. checkpoint'.cursor = -1 /\ checkpoint' \in [cursor: Int] /\ remote.sent \in Nat
    BY <1>1, <2>1 DEF NoCheckpoint, RemoteTypes
  <2>4. RemoteTypes'
    BY <1>1, <1>2, <2>1, <2>2, <2>3 DEF RemoteTypes
  <2>5. \A v \in RemoteWorker \ {w} : Fits(v)'
    BY <1>1, <1>2, <2>2 DEF RemoteInv, Fits, Reached, RunIsOver
  <2>6. CheckpointIsCovered' /\ ~HasResult'
    BY <1>1, <2>2, <2>3 DEF CheckpointIsCovered, Reached, HasResult
  <2>7. QED
    BY <1>3, <2>4, <2>5, <2>6 DEF RemoteInv, ResultIsCovered
<1>6. QED
  BY <1>4, <1>5

\* The holder gives up, having written what keeps the checkpoint covered.
LEMMA HolderThrows ==
    ASSUME RemoteInv, NEW w \in RemoteWorker, LeaseIs(w), UNCHANGED <<remote, attempt>>,
           Turn(w, "throw"), remoteFaults' \in Nat /\ failedCalls' \in Nat,
           checkpoint' \in [cursor: Int], checkpoint' = NoCheckpoint \/ checkpoint'.cursor \in Nat,
           deltas' \in Seq(Nat), torn' \in SUBSET Nat, CheckpointIsCovered'
    PROVE  RemoteInv'
<1>1. RemoteTypes
  BY DEF RemoteInv
<1>2. /\ worker' \in [RemoteWorker -> RemotePlace] /\ worker'[w].pc = "throw"
      /\ \A v \in RemoteWorker \ {w} : worker'[v] = worker[v]
  BY <1>1, Turns
<1>3. /\ \A v \in RemoteWorker \ {w} : ~LeaseIs(v) /\ Fits(v)'
      /\ LeaseIs(w)' /\ attempt.status = "running"
  BY <1>2, HolderWrites
<1>4. RemoteTypes'
  BY <1>1, <1>2 DEF RemoteTypes, NoCheckpoint
<1>5. Fits(w)'
  BY <1>2 DEF Fits
<1>6. ~HasResult'
  BY <1>2, <1>3 DEF HasResult, OnRemote, LeaseIs
<1>7. QED
  BY <1>3, <1>4, <1>5, <1>6 DEF RemoteInv, ResultIsCovered

\* A request fails: the cursor that was saved all the same goes with a delta that is noted as torn.
LEMMA CallFailsInv ==
    ASSUME RemoteInv, NEW w \in RemoteWorker, CallFails(w)
    PROVE  RemoteInv'
<1> DEFINE e == worker[w].event
<1>1. /\ UNCHANGED <<remote, attempt, remoteFaults>> /\ Turn(w, "throw") /\ RemoteTypes
      /\ Fits(w) /\ CheckpointIsCovered
  BY DEF CallFails, RemoteInv
<1>2. remoteFaults' \in Nat /\ failedCalls' \in Nat
  BY <1>1 DEF CallFails, RemoteTypes
<1>3. /\ e \in Nat /\ remote.sent \in Nat /\ deltas \in Seq(Nat) /\ torn \in SUBSET Nat
      /\ checkpoint \in [cursor: Int] /\ (checkpoint = NoCheckpoint \/ checkpoint.cursor \in Nat)
  BY <1>1 DEF RemoteTypes, RemotePlace
<1>4. /\ worker' \in [RemoteWorker -> RemotePlace] /\ worker'[w].pc = "throw"
      /\ \A v \in RemoteWorker \ {w} : worker'[v] = worker[v]
  BY <1>1, Turns
<1>5. CASE UNCHANGED <<checkpoint, deltas, torn>> /\ worker[w].pc # "append"
  <2>1. /\ RemoteMoves /\ Fits(w)' /\ worker'[w].pc # "commit" /\ ~OnRemote(w, "append")
        /\ torn' \in SUBSET Nat
    BY <1>1, <1>3, <1>4, <1>5 DEF RemoteMoves, RemoteTypes, Fits, OnRemote
  <2>2. QED
    BY <1>1, <1>2, <1>4, <1>5, <2>1, WorkerMoves
<1>6. CASE /\ worker[w].pc \in {"save-run", "clear"} /\ LeaseIs(w) /\ UNCHANGED <<deltas, torn>>
           /\ checkpoint' \in {NoCheckpoint, [cursor |-> 0]}
  <2>1. checkpoint' \in [cursor: Int] /\ (checkpoint' = NoCheckpoint \/ checkpoint'.cursor \in Nat)
        /\ checkpoint'.cursor \in {-1, 0}
    BY <1>6 DEF NoCheckpoint
  <2>2. CheckpointIsCovered'
    BY <1>1, <1>3, <2>1 DEF CheckpointIsCovered, Reached
  <2>3. QED
    BY <1>1, <1>2, <1>3, <1>6, <2>1, <2>2, HolderThrows
<1>7. CASE /\ worker[w].pc = "save" /\ LeaseIs(w) /\ UNCHANGED deltas
           /\ checkpoint' = [cursor |-> e] /\ Tear(w)
  <2>1. /\ checkpoint' \in [cursor: Int] /\ checkpoint'.cursor = e /\ checkpoint'.cursor \in Nat
    BY <1>3, <1>7
  <2>7. torn' = torn \cup {e} /\ torn' \in SUBSET Nat
    BY <1>3, <1>7 DEF Tear
  <2>2. Reached(e) /\ e = checkpoint.cursor + 1
    BY <1>1, <1>7 DEF Fits
  <2>3. /\ \A n : Covered(n) => Covered(n)'
        /\ \A n : n = e => Covered(n)'
    BY <1>4, <1>7, <2>7 DEF Covered, OnRemote
  <2>4. \A n \in 1..remote.sent : n <= e => Covered(n)'
    <3>1. \A n \in 1..remote.sent : n <= e => n <= checkpoint.cursor \/ n = e
      BY <1>3, <2>2
    <3>2. QED
      BY <1>1, <2>3, <3>1 DEF CheckpointIsCovered
  <2>5. CheckpointIsCovered'
    BY <1>1, <2>1, <2>2, <2>4 DEF CheckpointIsCovered, Reached, RunIsOver
  <2>6. QED
    BY <1>1, <1>2, <1>3, <1>7, <2>1, <2>5, <2>7, HolderThrows
<1>8. CASE /\ worker[w].pc = "append" /\ LeaseIs(w) /\ UNCHANGED checkpoint
           /\ \/ deltas' = Append(deltas, e) /\ UNCHANGED torn
              \/ UNCHANGED deltas /\ Tear(w)
  <2>1. /\ deltas' \in Seq(Nat) /\ torn' \in SUBSET Nat
        /\ Range(deltas') \cup torn' = Range(deltas) \cup torn \cup {e}
    <3>1. CASE deltas' = Append(deltas, e) /\ UNCHANGED torn
      BY <1>3, <3>1, RangeOfAppend
    <3>2. CASE UNCHANGED deltas /\ torn' = torn \cup {e}
      BY <1>3, <3>2
    <3>3. QED
      BY <1>8, <3>1, <3>2 DEF Tear
  <2>2. \A n : Covered(n) => Covered(n)'
    BY <1>4, <2>1 DEF Covered, OnRemote
  <2>3. CheckpointIsCovered'
    BY <1>1, <1>8, <2>2 DEF CheckpointIsCovered, Reached, RunIsOver
  <2>4. QED
    BY <1>1, <1>2, <1>3, <1>8, <2>1, <2>3, HolderThrows
<1>9. QED
  BY <1>5, <1>6, <1>7, <1>8 DEF CallFails, OnRemote

LEMMA RemoteNextInv == RemoteInv /\ [RemoteNext]_remoteVars => RemoteInv'
<1> SUFFICES ASSUME RemoteInv, [RemoteNext]_remoteVars PROVE RemoteInv'
  OBVIOUS
<1>1. CASE UNCHANGED remoteVars
  BY <1>1 DEF remoteVars, RemoteInv, RemoteTypes, Fits, CheckpointIsCovered, ResultIsCovered,
     HasResult, Covered, Reached, RunIsOver, LeaseIs, OnRemote
<1>2. CASE RemoteNext
  BY <1>2, ProviderInv, ReclaimInv, GenerateInv, RefusedInv, LeaseEndsInv, SaveRunInv,
     SaveCursorInv, AppendDeltaInv, ClearCheckpointInv, ForgetRemoteInv, CallFailsInv DEF RemoteNext
<1>3. QED
  BY <1>1, <1>2

\* Whichever workers come, go, lose their lease, are refused or have a request fail, the log has
\* every delta the checkpoint is past, and a result has every delta of its run, except those a
\* worker was torn from after it saved their cursor and before it logged them.
THEOREM DeltasAlwaysReachTheLog == RemoteSpec => []DeltasReachTheLog
<1>1. RemoteInv => DeltasReachTheLog
  <2> SUFFICES ASSUME RemoteInv PROVE DeltasReachTheLog
    OBVIOUS
  <2> DEFINE InHand == {worker[w].event : w \in {v \in RemoteWorker : OnRemote(v, "append")}}
  <2>1. \A n : Covered(n) => n \in Range(deltas) \cup InHand \cup torn
    BY DEF Covered
  <2>2. \A n \in Due : Covered(n)
    <3>1. CASE attempt.status = "succeeded"
      BY <3>1 DEF RemoteInv, ResultIsCovered, HasResult, Due
    <3>2. CASE attempt.status # "succeeded"
      BY <3>2 DEF RemoteInv, CheckpointIsCovered, Due
    <3>3. QED
      BY <3>1, <3>2
  <2>3. \A n \in Due : n \in Range(deltas) \cup InHand \cup torn
    BY <2>1, <2>2
  <2>4. QED
    BY <2>3 DEF DeltasReachTheLog
<1>2. QED
  BY <1>1, RemoteInitInv, RemoteNextInv, PTL DEF RemoteSpec

----------------------------------------------------------------------------
(* Outbound deliveries *)

OutRow == [status: {"none", "pending", "delivering", "delivered", "dead_lettered"}, attempts: Nat,
           token: Courier \cup {NoOne}, ripe: BOOLEAN, dead: BOOLEAN]
OutCall == [pc: {"idle", "claim", "look", "send", "complete", "fail", "return"},
            page: SUBSET Cursor, cursor: 0..MaxLogged]

OutTypes ==
    /\ shown \subseteq Cursor /\ overtaken \subseteq Cursor
    /\ out \in [Cursor -> OutRow]
    /\ courier \in [Courier -> OutCall]
    /\ resume \in [Courier -> 0..MaxLogged]
    /\ accepted \in Seq(Cursor)
    /\ sends \in [Cursor -> Nat] /\ redriven \in [Cursor -> Nat]
    /\ outFaults \in Nat

\* A page holds events in sight behind the cursor, every timely one before its last among them.
OutFits(page, cursor) ==
    /\ page \subseteq shown /\ cursor \in shown \cup {0}
    /\ \A e \in page : cursor < e
    /\ \A e \in page, d \in Cursor : OnTime(d) /\ cursor < d /\ d < e => d \in page
PagesFollow ==
    \A p \in Courier :
        /\ resume[p] \in shown \cup {0} /\ OutFits(courier[p].page, courier[p].cursor)
        /\ courier[p].pc \in {"look", "send", "complete", "fail"} => courier[p].page # {}

OutSettled(c)    == out[c].status = "delivered" \/ out[c].dead
Behind(n)     == \A c \in Cursor : OnTime(c) /\ c <= n => OutSettled(c)
IsAccepted(c) == \E i \in DOMAIN accepted : accepted[i] = c

\* What a row says of its event.
RowsTellTrue ==
    \A c \in Cursor :
        /\ out[c].status = "dead_lettered" => out[c].dead
        /\ out[c].status = "delivered" => IsAccepted(c)

\* Nobody goes past, and nothing is sent behind, what is not settled.
CursorsBehind  == \A p \in Courier : Behind(resume[p]) /\ Behind(courier[p].cursor)
AcceptedBehind == \A c \in Cursor : IsAccepted(c) => c \in shown /\ Behind(c - 1)

\* A request that was answered was accepted.
AnsweredIsAccepted == \A p \in Courier : CourierAt(p, "complete") => IsAccepted(Event(p))

\* Requests made and about to be made, against the attempts of the rows.
OutSending(c)   == {p \in Courier : CourierAt(p, "send") /\ Event(p) = c}
SendsCounted ==
    \A c \in Cursor :
        /\ out[c].attempts <= MaxSends
        /\ sends[c] + Cardinality(OutSending(c)) <= MaxSends * redriven[c] + out[c].attempts

OutInv == /\ OutTypes /\ PagesFollow /\ RowsTellTrue /\ CursorsBehind /\ AcceptedBehind
          /\ AnsweredIsAccepted /\ SendsCounted /\ AcceptedInOrder

LEMMA OutBounds ==
    MaxLogged \in Nat /\ MaxSends \in Nat /\ PageLimit \in Nat /\ IsFiniteSet(Courier)
BY OutboundAssumption DEF OutboundAssumption

\* Requests about to be made are few enough to count.
LEMMA SendingCounts ==
    ASSUME NEW S, NEW T, S \subseteq Courier, T \subseteq Courier
    PROVE  /\ Cardinality(S) \in Nat /\ Cardinality({}) = 0
           /\ T \subseteq S => Cardinality(T) <= Cardinality(S)
           /\ \A p \in Courier : T \subseteq S \cup {p} => Cardinality(T) <= Cardinality(S) + 1
           /\ \A p \in S : T \subseteq S \ {p} => Cardinality(T) + 1 <= Cardinality(S)
<1>1. IsFiniteSet(S) /\ IsFiniteSet(T)
  BY OutBounds, FS_Subset
<1>2. /\ Cardinality(S) \in Nat /\ Cardinality(T) \in Nat /\ Cardinality({}) = 0
      /\ T \subseteq S => Cardinality(T) <= Cardinality(S)
  BY <1>1, FS_CardinalityType, FS_EmptySet, FS_Subset
<1>3. ASSUME NEW p \in Courier, T \subseteq S \cup {p}
      PROVE  Cardinality(T) <= Cardinality(S) + 1
  <2>1. /\ IsFiniteSet(S \cup {p})
        /\ Cardinality(S \cup {p}) = IF p \in S THEN Cardinality(S) ELSE Cardinality(S) + 1
    BY <1>1, FS_AddElement
  <2>2. Cardinality(T) <= Cardinality(S \cup {p})
    BY <1>3, <2>1, FS_Subset
  <2>3. QED
    BY <1>2, <2>1, <2>2
<1>4. ASSUME NEW p \in S, T \subseteq S \ {p}
      PROVE  Cardinality(T) + 1 <= Cardinality(S)
  <2>1. /\ IsFiniteSet(S \ {p}) /\ Cardinality(S \ {p}) = Cardinality(S) - 1
    BY <1>1, FS_RemoveElement
  <2>2. Cardinality(T) <= Cardinality(S \ {p})
    BY <1>4, <2>1, FS_Subset
  <2>3. QED
    BY <1>2, <2>1, <2>2
<1>5. QED
  BY <1>2, <1>3, <1>4

LEMMA OutInitInv == OutboundInit => OutInv
<1> SUFFICES ASSUME OutboundInit PROVE OutInv
  OBVIOUS
<1>1. Resting \in OutCall /\ NoDelivery \in OutRow
  BY OutBounds DEF Resting, OutCall, NoDelivery, OutRow
<1>2. OutTypes
  <2>1. <<>> \in Seq(Cursor)
    OBVIOUS
  <2>2. QED
    BY <1>1, <2>1, OutBounds DEF OutboundInit, OutTypes
<1>3. \A p \in Courier : /\ courier[p].pc = "idle" /\ courier[p].page = {}
                         /\ courier[p].cursor = 0 /\ resume[p] = 0
  BY DEF OutboundInit, Resting
<1>4. \A c \in Cursor : /\ out[c].status = "none" /\ out[c].attempts = 0 /\ sends[c] = 0
                        /\ redriven[c] = 0 /\ c \in Nat /\ c > 0
  BY DEF OutboundInit, NoDelivery, Cursor
<1>5. PagesFollow
  BY <1>3 DEF PagesFollow, OutFits, OutboundInit
<1>6. accepted = <<>>
  BY DEF OutboundInit
<1>7. RowsTellTrue /\ CursorsBehind /\ AcceptedBehind /\ AnsweredIsAccepted /\ AcceptedInOrder
  BY <1>3, <1>4, <1>6 DEF RowsTellTrue, CursorsBehind, Behind, AcceptedBehind, IsAccepted,
     AnsweredIsAccepted, CourierAt, AcceptedInOrder
<1>8. SendsCounted
  <2> SUFFICES ASSUME NEW c \in Cursor
               PROVE  /\ out[c].attempts <= MaxSends
                      /\ sends[c] + Cardinality(OutSending(c)) <= MaxSends * redriven[c] + out[c].attempts
    BY DEF SendsCounted
  <2>1. OutSending(c) = {}
    BY <1>3 DEF OutSending, CourierAt
  <2>2. Cardinality(OutSending(c)) = 0
    BY <2>1, SendingCounts
  <2>3. QED
    BY <1>4, <2>2, OutBounds
<1>9. QED
  BY <1>2, <1>5, <1>7, <1>8 DEF OutInv

\* A set of events has a first one.
LEMMA OutFirst == ASSUME NEW T \in SUBSET Cursor, T # {} PROVE \E n \in T : \A m \in T : n <= m
<1>1. IsWellFoundedOn(OpToRel(<, Nat), Nat)
  BY NatLessThanWellFounded
<1>5. T \in SUBSET Nat
  BY DEF Cursor
<1>2. PICK n \in T : \A m \in T : ~(<<m, n>> \in OpToRel(<, Nat))
  BY <1>1, <1>5, WFMin
<1>3. \A m \in T : ~(m < n) /\ m \in Nat /\ n \in Nat
  BY <1>5, <1>2 DEF OpToRel
<1>4. QED
  BY <1>3

\* The event at hand is the first of the page: what is timely and comes before it is not behind
\* the cursor.
LEMMA EventAtHand ==
    ASSUME OutInv, NEW p \in Courier, courier[p].page # {}
    PROVE  /\ Event(p) \in Cursor /\ Event(p) \in courier[p].page /\ Event(p) \in shown
           /\ courier[p].cursor \in Nat /\ courier[p].cursor < Event(p)
           /\ \A d \in courier[p].page : Event(p) <= d
           /\ \A d \in Cursor : OnTime(d) /\ d < Event(p) => d <= courier[p].cursor
<1>1. /\ courier[p].page \in SUBSET Cursor /\ courier[p].cursor \in Nat
      /\ OutFits(courier[p].page, courier[p].cursor)
  BY OutBounds DEF OutInv, OutTypes, PagesFollow, OutCall
<1>2. Event(p) \in courier[p].page /\ \A d \in courier[p].page : Event(p) <= d
  BY <1>1, OutFirst DEF Event, FirstLeft
<1>3. Event(p) \in Cursor /\ Event(p) \in Nat
  BY <1>1, <1>2 DEF Cursor
<1>4. ASSUME NEW d \in Cursor, OnTime(d), d < Event(p), ~(d <= courier[p].cursor)
      PROVE  FALSE
  <2>1. d \in Nat /\ courier[p].cursor < d
    BY <1>1, <1>4 DEF Cursor
  <2>2. d \in courier[p].page
    BY <1>1, <1>2, <1>4, <2>1 DEF OutFits
  <2>3. QED
    BY <1>2, <1>3, <1>4, <2>1, <2>2
<1>5. QED
  BY <1>1, <1>2, <1>3, <1>4 DEF OutFits

LEMMA CourierGoesTo ==
    ASSUME OutTypes, NEW p \in Courier, NEW r \in OutCall, courier' = [courier EXCEPT ![p] = r]
    PROVE  /\ courier' \in [Courier -> OutCall] /\ courier'[p] = r
           /\ \A q \in Courier \ {p} : courier'[q] = courier[q]
BY DEF OutTypes

LEMMA CourierTurns ==
    ASSUME OutTypes, NEW p \in Courier,
           NEW pc \in {"idle", "claim", "look", "send", "complete", "fail", "return"},
           CourierTo(p, pc)
    PROVE  /\ courier' \in [Courier -> OutCall] /\ courier'[p].pc = pc
           /\ courier'[p].page = courier[p].page /\ courier'[p].cursor = courier[p].cursor
           /\ \A q \in Courier \ {p} : courier'[q] = courier[q]
BY DEF OutTypes, CourierTo, OutCall

\* The step of one call, the log and what the receiver has as they are: what was settled stays
\* settled, and the call keeps to its page.
LEMMA OutStepInv ==
    ASSUME OutInv, NEW p \in Courier, OutTypes', UNCHANGED <<shown, overtaken, accepted>>,
           \A q \in Courier \ {p} : courier'[q] = courier[q] /\ resume'[q] = resume[q],
           resume'[p] \in shown \cup {0}, OutFits(courier'[p].page, courier'[p].cursor),
           courier'[p].pc \in {"look", "send", "complete", "fail"} => courier'[p].page # {},
           \A c \in Cursor : (OutSettled(c) => OutSettled(c)') /\ (out[c].dead => out'[c].dead),
           RowsTellTrue', SendsCounted',
           Behind(resume[p])', Behind(courier[p].cursor)',
           AnsweredIsAccepted'
    PROVE  OutInv'
<1>1. PagesFollow'
  BY DEF OutInv, PagesFollow, OutFits, OnTime
<1>2. \A n : Behind(n) => Behind(n)'
  BY DEF Behind, OnTime
<1>3. CursorsBehind'
  <2> SUFFICES ASSUME NEW q \in Courier \ {p} PROVE Behind(resume[q])' /\ Behind(courier[q].cursor)'
    BY DEF CursorsBehind
  <2>1. Behind(resume[q]) /\ Behind(courier[q].cursor)
    BY DEF OutInv, CursorsBehind
  <2>2. QED
    BY <2>1 DEF Behind, OnTime
<1>4. AcceptedBehind' /\ AcceptedInOrder'
  <2>1. AcceptedBehind'
    BY <1>2 DEF OutInv, AcceptedBehind, IsAccepted
  <2>2. \A i \in DOMAIN accepted : accepted[i] \in Cursor
    BY DEF OutInv, OutTypes
  <2>3. AcceptedInOrder'
    BY <2>2 DEF OutInv, AcceptedInOrder, OnTime
  <2>4. QED
    BY <2>1, <2>3
<1>5. QED
  BY <1>1, <1>3, <1>4 DEF OutInv

\* Requests stay counted when nothing is sent or claimed.
LEMMA CountStays ==
    ASSUME OutInv, OutTypes', UNCHANGED <<sends, redriven>>,
           \A c \in Cursor : out'[c].attempts = out[c].attempts /\ OutSending(c)' \subseteq OutSending(c)
    PROVE  SendsCounted'
<1> SUFFICES ASSUME NEW c \in Cursor
             PROVE  /\ out'[c].attempts <= MaxSends
                    /\ sends[c] + Cardinality(OutSending(c)') <= MaxSends * redriven[c] + out'[c].attempts
  BY DEF SendsCounted
<1>1. OutSending(c)' \subseteq Courier /\ OutSending(c) \subseteq Courier
  BY DEF OutSending
<1>2. Cardinality(OutSending(c)') <= Cardinality(OutSending(c))
      /\ Cardinality(OutSending(c)') \in Nat /\ Cardinality(OutSending(c)) \in Nat
  BY <1>1, SendingCounts
<1>3. /\ out[c].attempts <= MaxSends
      /\ sends[c] + Cardinality(OutSending(c)) <= MaxSends * redriven[c] + out[c].attempts
  BY DEF OutInv, SendsCounted
<1>4. sends[c] \in Nat /\ MaxSends * redriven[c] \in Nat /\ out[c].attempts \in Nat
  BY OutBounds DEF OutInv, OutTypes, OutRow
<1>5. QED
  BY <1>2, <1>3, <1>4

\* An event comes into sight, and nothing else moves: a timely one is behind every cursor, every
\* page and all that was sent.
LEMMA AppendEventInv ==
    ASSUME OutInv, NEW e \in Cursor, AppendEvent(e)
    PROVE  OutInv'
<1>1. /\ UNCHANGED <<out, courier, resume, accepted, sends, redriven, outFaults>>
      /\ e \notin shown /\ shown' = shown \cup {e} /\ OutTypes
      /\ overtaken' = IF \E d \in shown : d > e THEN overtaken \cup {e} ELSE overtaken
  BY DEF AppendEvent, OutInv
<1>2. OutTypes'
  BY <1>1 DEF OutTypes
<1>3. \A d \in Cursor : OnTime(d)' => OnTime(d) \/ (d = e /\ \A c \in shown : c < e)
  <2> SUFFICES ASSUME NEW d \in Cursor, OnTime(d)', ~OnTime(d)
               PROVE  d = e /\ \A c \in shown : c < e
    OBVIOUS
  <2>1. d = e
    BY <1>1 DEF OnTime
  <2>2. \A c \in shown : ~(c > e)
    BY <1>1, <2>1 DEF OnTime
  <2>3. shown \subseteq Nat /\ e \in Nat
    BY <1>1 DEF OutTypes, Cursor
  <2>4. QED
    BY <1>1, <2>1, <2>2, <2>3
<1>4. \A n \in shown \cup {0} : \A d \in Cursor : OnTime(d)' /\ d <= n => OnTime(d)
  <2>1. shown \subseteq Nat /\ Cursor \subseteq Nat /\ e > 0
    BY <1>1 DEF OutTypes, Cursor
  <2>2. QED
    BY <1>3, <2>1
<1>5. \A n \in shown \cup {0} : Behind(n) => Behind(n)'
  BY <1>1, <1>4 DEF Behind, OutSettled
<1>6. \A c \in shown : Behind(c - 1) => Behind(c - 1)'
  <2> SUFFICES ASSUME NEW c \in shown, NEW d \in Cursor, OnTime(d)', d <= c - 1
               PROVE  OnTime(d)
    BY <1>1 DEF Behind, OutSettled
  <2>1. d <= c
    BY <1>1 DEF OutTypes, Cursor
  <2>2. QED
    BY <1>4, <2>1
<1>7. PagesFollow'
  <2> SUFFICES ASSUME NEW p \in Courier
               PROVE  resume[p] \in shown' \cup {0} /\ OutFits(courier[p].page, courier[p].cursor)'
    BY <1>1 DEF OutInv, PagesFollow
  <2>1. resume[p] \in shown \cup {0} /\ OutFits(courier[p].page, courier[p].cursor)
    BY DEF OutInv, PagesFollow
  <2>2. ASSUME NEW a \in courier[p].page, NEW d \in Cursor, OnTime(d)', courier[p].cursor < d, d < a
        PROVE  d \in courier[p].page
    <3>4. a \in shown /\ d < a
      BY <2>1, <2>2 DEF OutFits
    <3>5. a \in Nat /\ d \in Nat
      BY <1>1, <3>4 DEF OutTypes, Cursor
    <3>1. a \in shown /\ d <= a
      BY <3>4, <3>5
    <3>2. OnTime(d)
      BY <1>4, <2>2, <3>1
    <3>3. QED
      BY <2>1, <2>2, <3>2 DEF OutFits
  <2>3. QED
    BY <1>1, <2>1, <2>2 DEF OutFits
<1>8. CursorsBehind'
  BY <1>1, <1>5 DEF OutInv, PagesFollow, OutFits, CursorsBehind
<1>9. AcceptedBehind'
  <2> SUFFICES ASSUME NEW c \in Cursor, IsAccepted(c) PROVE c \in shown' /\ Behind(c - 1)'
    BY <1>1 DEF AcceptedBehind, IsAccepted
  <2>1. c \in shown /\ Behind(c - 1)
    BY DEF OutInv, AcceptedBehind
  <2>2. QED
    BY <1>1, <1>6, <2>1
<1>10. AcceptedInOrder'
  <2> SUFFICES ASSUME NEW i \in DOMAIN accepted, NEW j \in DOMAIN accepted,
                      i < j, accepted[i] > accepted[j]
               PROVE  out[accepted[j]].dead \/ ~OnTime(accepted[j])'
    BY <1>1 DEF AcceptedInOrder, OnTime
  <2>1. PICK a \in Cursor : a = accepted[j] /\ IsAccepted(a)
    BY <1>1 DEF OutTypes, IsAccepted
  <2>2. a \in shown /\ (out[a].dead \/ ~OnTime(a))
    BY <2>1 DEF OutInv, AcceptedBehind, AcceptedInOrder
  <2>3. ~OnTime(a) => ~OnTime(a)'
    BY <1>1, <2>2 DEF OnTime
  <2>4. QED
    BY <1>1, <2>1, <2>2, <2>3 DEF OnTime
<1>11. RowsTellTrue' /\ AnsweredIsAccepted' /\ SendsCounted'
  BY <1>1 DEF OutInv, RowsTellTrue, IsAccepted, AnsweredIsAccepted, CourierAt, Event, SendsCounted,
     OutSending
<1>12. QED
  BY <1>2, <1>7, <1>8, <1>9, <1>10, <1>11 DEF OutInv

\* The steps of a call that leave the rows alone.
LEMMA CallMovesInv ==
    ASSUME OutInv, NEW p \in Courier, UNCHANGED <<shown, overtaken, out, accepted, sends, redriven>>,
           outFaults' \in Nat, resume' \in [Courier -> 0..MaxLogged],
           courier' \in [Courier -> OutCall],
           \A q \in Courier \ {p} : courier'[q] = courier[q] /\ resume'[q] = resume[q],
           resume'[p] \in shown \cup {0}, OutFits(courier'[p].page, courier'[p].cursor),
           courier'[p].pc \in {"idle", "claim", "return"},
           Behind(resume'[p]), Behind(courier'[p].cursor)
    PROVE  OutInv'
<1>1. OutTypes'
  BY DEF OutInv, OutTypes
<1>2. /\ \A c \in Cursor : (OutSettled(c) => OutSettled(c)') /\ (out[c].dead => out'[c].dead)
      /\ Behind(resume[p])' /\ Behind(courier[p].cursor)'
  BY DEF OutSettled, Behind, OnTime
<1>3. RowsTellTrue' /\ AnsweredIsAccepted'
  BY DEF OutInv, RowsTellTrue, AnsweredIsAccepted, IsAccepted, CourierAt, Event
<1>4. \A c \in Cursor : OutSending(c)' \subseteq OutSending(c)
  BY DEF OutSending, CourierAt, Event
<1>5. SendsCounted'
  BY <1>1, <1>4, CountStays
<1>6. QED
  BY <1>1, <1>2, <1>3, <1>5, OutStepInv

LEMMA MoveOnInv ==
    ASSUME OutInv, NEW p \in Courier, courier[p].page # {}, MoveOn(p)
    PROVE  /\ courier' \in [Courier -> OutCall]
           /\ \A q \in Courier \ {p} : courier'[q] = courier[q]
           /\ OutFits(courier'[p].page, courier'[p].cursor)
           /\ courier'[p].pc = "claim" /\ courier'[p].cursor = Event(p)
           /\ \A c \in Cursor : OnTime(c) /\ c <= Event(p) => c <= courier[p].cursor \/ c = Event(p)
<1> DEFINE r == [pc |-> "claim", page |-> courier[p].page \ {Event(p)}, cursor |-> Event(p)]
<1>1. courier' = [courier EXCEPT ![p] = r] /\ OutTypes
  BY DEF MoveOn, OutInv
<1>2. /\ Event(p) \in Cursor /\ Event(p) \in courier[p].page /\ Event(p) \in shown
      /\ courier[p].cursor \in Nat /\ courier[p].cursor < Event(p)
      /\ \A d \in courier[p].page : Event(p) <= d
      /\ \A d \in Cursor : OnTime(d) /\ d < Event(p) => d <= courier[p].cursor
  BY EventAtHand
<1>3. courier[p].page \in SUBSET Cursor /\ Cursor \subseteq Nat
  BY <1>1 DEF OutTypes, OutCall, Cursor
<1>4. r \in OutCall /\ r.pc = "claim" /\ r.page = courier[p].page \ {Event(p)} /\ r.cursor = Event(p)
  BY <1>2, <1>3, OutBounds DEF OutCall, Cursor
<1> HIDE DEF r
<1>5. /\ courier' \in [Courier -> OutCall] /\ courier'[p] = r
      /\ \A q \in Courier \ {p} : courier'[q] = courier[q]
  BY <1>1, <1>4, CourierGoesTo
<1>6. OutFits(courier[p].page \ {Event(p)}, Event(p))
  <2>1. OutFits(courier[p].page, courier[p].cursor)
    BY DEF OutInv, PagesFollow
  <2>5. Event(p) \in Nat /\ \A a \in courier[p].page : a \in Nat /\ Event(p) <= a
    BY <1>2, <1>3
  <2>2. \A a \in courier[p].page \ {Event(p)} : Event(p) < a
    BY <2>5
  <2>3. ASSUME NEW a \in courier[p].page \ {Event(p)}, NEW d \in Cursor, OnTime(d), Event(p) < d, d < a
        PROVE  d \in courier[p].page \ {Event(p)}
    <3>3. d \in Nat
      BY <1>3
    <3>1. courier[p].cursor < d /\ d # Event(p)
      BY <1>2, <2>3, <2>5, <3>3
    <3>2. QED
      BY <2>1, <2>3, <3>1 DEF OutFits
  <2>4. QED
    BY <1>2, <2>1, <2>2, <2>3 DEF OutFits
<1>7. ASSUME NEW c \in Cursor, OnTime(c), c <= Event(p)
      PROVE  c <= courier[p].cursor \/ c = Event(p)
  <2>1. c \in Nat /\ Event(p) \in Nat
    BY <1>2, <1>3
  <2>2. c < Event(p) \/ c = Event(p)
    BY <1>7, <2>1
  <2>3. QED
    BY <1>2, <1>7, <2>2
<1>8. QED
  BY <1>4, <1>5, <1>6, <1>7

\* A page begins with the first events in sight behind its cursor.
LEMMA OutPageFits ==
    ASSUME OutInv, NEW after \in shown \cup {0}
    PROVE  OutPage(after) \in SUBSET Cursor /\ OutFits(OutPage(after), after)
<1>1. shown \subseteq Cursor /\ Cursor \subseteq Nat /\ after \in Nat
  BY DEF OutInv, OutTypes, Cursor
<1>2. ASSUME NEW a \in OutPage(after), NEW d \in Cursor, OnTime(d), after < d, d < a
      PROVE  d \in OutPage(after)
  <2> DEFINE U == {c \in shown : after < c /\ c < a}
             V == {c \in shown : after < c /\ c < d}
  <2>1. IsFiniteSet(U)
    <3>1. IsFiniteSet(1..MaxLogged)
      BY OutBounds, FS_Interval
    <3>2. U \subseteq 1..MaxLogged
      BY <1>1 DEF Cursor
    <3>3. QED
      BY <3>1, <3>2, FS_Subset
  <2>2. V \subseteq U
    <3>1. a \in Nat /\ d \in Nat /\ d < a /\ shown \subseteq Nat
      BY <1>1, <1>2 DEF OutPage
    <3>2. \A c \in shown : c < d => c < a
      BY <3>1
    <3>3. QED
      BY <3>2
  <2>3. /\ Cardinality(V) <= Cardinality(U) /\ Cardinality(V) \in Nat /\ Cardinality(U) \in Nat
    BY <2>1, <2>2, FS_Subset, FS_CardinalityType
  <2>4. Cardinality(U) < PageLimit
    BY DEF OutPage
  <2>5. Cardinality(V) < PageLimit
    BY <2>3, <2>4, OutBounds
  <2> HIDE DEF U
  <2>6. d \in shown /\ d > after
    BY <1>1, <1>2 DEF OnTime
  <2>7. QED
    BY <2>5, <2>6 DEF OutPage
<1>3. OutPage(after) \subseteq shown /\ \A a \in OutPage(after) : after < a
  BY <1>1 DEF OutPage
<1>4. QED
  BY <1>1, <1>2, <1>3 DEF OutFits

LEMMA DeliverInv ==
    ASSUME OutInv, NEW p \in Courier, DeliverEvents(p)
    PROVE  OutInv'
<1>1. /\ UNCHANGED <<shown, overtaken, out, resume, accepted, sends, redriven, outFaults>>
      /\ OutTypes /\ resume[p] \in shown \cup {0} /\ Behind(resume[p])
  BY DEF DeliverEvents, OutInv, PagesFollow, CursorsBehind
<1>2. PICK after \in {resume[p], 0} :
        courier' = [courier EXCEPT ![p] = [pc |-> "claim", page |-> OutPage(after), cursor |-> after]]
  BY DEF DeliverEvents
<1> DEFINE r == [pc |-> "claim", page |-> OutPage(after), cursor |-> after]
<1>3. after \in 0..MaxLogged /\ after \in shown \cup {0}
  BY <1>1, <1>2, OutBounds DEF OutTypes
<1>4. OutPage(after) \in SUBSET Cursor /\ OutFits(OutPage(after), after)
  BY <1>3, OutPageFits
<1>5. r \in OutCall /\ r.pc = "claim" /\ r.cursor = after /\ r.page = OutPage(after)
  BY <1>3, <1>4 DEF OutCall
<1> HIDE DEF r
<1>6. courier' = [courier EXCEPT ![p] = r]
  BY <1>2 DEF r
<1>7. /\ courier' \in [Courier -> OutCall] /\ courier'[p] = r
      /\ \A q \in Courier \ {p} : courier'[q] = courier[q]
  BY <1>1, <1>5, <1>6, CourierGoesTo
<1>8. Behind(after)
  BY <1>1 DEF Behind, Cursor
<1>9. outFaults' \in Nat /\ resume' \in [Courier -> 0..MaxLogged]
  BY <1>1 DEF OutTypes
<1>10. OutFits(courier'[p].page, courier'[p].cursor) /\ Behind(courier'[p].cursor)
       /\ courier'[p].pc = "claim"
  BY <1>4, <1>5, <1>7, <1>8
<1>11. QED
  BY <1>1, <1>7, <1>9, <1>10, CallMovesInv

LEMMA LookReturnInv ==
    ASSUME OutInv, NEW p \in Courier, LookAtDelivery(p) \/ ReturnPage(p) \/ CourierGoes(p)
    PROVE  OutInv'
<1>1. /\ UNCHANGED <<shown, overtaken, out, accepted, sends, redriven>> /\ OutTypes
      /\ outFaults' \in Nat
  BY DEF LookAtDelivery, ReturnPage, CourierGoes, OutInv, OutTypes, OutFault
<1>2. /\ resume[p] \in shown \cup {0} /\ OutFits(courier[p].page, courier[p].cursor)
      /\ Behind(resume[p]) /\ Behind(courier[p].cursor) /\ Behind(0)
      /\ resume \in [Courier -> 0..MaxLogged] /\ courier[p].cursor \in 0..MaxLogged
  BY OutBounds DEF OutInv, OutTypes, OutCall, PagesFollow, CursorsBehind, Behind, Cursor
<1>3. CASE LookAtDelivery(p)
  <2>1. /\ courier[p].pc = "look" /\ courier[p].page # {} /\ UNCHANGED resume
        /\ \/ Passes(out[Event(p)]) /\ MoveOn(p)
           \/ CourierTo(p, "return")
    BY <1>3 DEF LookAtDelivery, CourierAt, OutInv, PagesFollow
  <2>2. CASE Passes(out[Event(p)]) /\ MoveOn(p)
    <3>1. Event(p) \in Cursor /\ OutSettled(Event(p))
      BY <2>1, <2>2, EventAtHand DEF Passes, OutSettled, OutInv, RowsTellTrue
    <3>2. /\ courier' \in [Courier -> OutCall]
          /\ \A q \in Courier \ {p} : courier'[q] = courier[q]
          /\ OutFits(courier'[p].page, courier'[p].cursor)
          /\ courier'[p].pc = "claim" /\ courier'[p].cursor = Event(p)
          /\ \A c \in Cursor : OnTime(c) /\ c <= Event(p) => c <= courier[p].cursor \/ c = Event(p)
      BY <2>1, <2>2, MoveOnInv
    <3>3. Behind(courier'[p].cursor)
      BY <1>2, <3>1, <3>2 DEF Behind
    <3>4. QED
      BY <1>1, <1>2, <2>1, <3>2, <3>3, CallMovesInv
  <2>3. CASE CourierTo(p, "return")
    <3>1. /\ courier' \in [Courier -> OutCall] /\ courier'[p].pc = "return"
          /\ courier'[p].page = courier[p].page /\ courier'[p].cursor = courier[p].cursor
          /\ \A q \in Courier \ {p} : courier'[q] = courier[q]
      BY <1>1, <2>3, CourierTurns
    <3>2. QED
      BY <1>1, <1>2, <2>1, <3>1, CallMovesInv
  <2>4. QED
    BY <2>1, <2>2, <2>3
<1>4. CASE ReturnPage(p) \/ CourierGoes(p)
  <2>1. /\ courier' = [courier EXCEPT ![p] = Resting]
        /\ resume' = [resume EXCEPT ![p] = courier[p].cursor] \/ resume' = resume
    BY <1>4 DEF ReturnPage, CourierGoes
  <2>2. Resting \in OutCall /\ Resting.pc = "idle" /\ Resting.page = {} /\ Resting.cursor = 0
    BY OutBounds DEF Resting, OutCall
  <2>8. OutFits({}, 0)
    BY DEF OutFits
  <2>3. /\ courier' \in [Courier -> OutCall] /\ courier'[p] = Resting
        /\ \A q \in Courier \ {p} : courier'[q] = courier[q]
    BY <1>1, <2>1, <2>2, CourierGoesTo
  <2>4. courier[p].cursor \in shown \cup {0}
    BY <1>2 DEF OutFits
  <2>5. /\ resume' \in [Courier -> 0..MaxLogged] /\ resume'[p] \in shown \cup {0} /\ Behind(resume'[p])
        /\ \A q \in Courier \ {p} : resume'[q] = resume[q]
    BY <1>2, <2>1, <2>4
  <2>6. /\ OutFits(courier'[p].page, courier'[p].cursor)
        /\ courier'[p].pc = "idle" /\ Behind(courier'[p].cursor)
    BY <1>2, <2>2, <2>3, <2>8
  <2>7. QED
    BY <1>1, <2>3, <2>5, <2>6, CallMovesInv
<1>5. QED
  BY <1>3, <1>4

\* The steps of a call that write the row of the event at hand, and make no request.
LEMMA RowStepInv ==
    ASSUME OutInv, NEW p \in Courier, UNCHANGED <<shown, overtaken, resume, accepted, sends, redriven>>,
           outFaults' \in Nat, courier[p].page # {},
           NEW r \in OutRow, out' = [out EXCEPT ![Event(p)] = r],
           out[Event(p)].dead => r.dead,
           out[Event(p)].status = "delivered" => r.status = "delivered",
           r.status = "dead_lettered" => r.dead,
           r.status = "delivered" => IsAccepted(Event(p)),
           courier' \in [Courier -> OutCall],
           \A q \in Courier \ {p} : courier'[q] = courier[q],
           OutFits(courier'[p].page, courier'[p].cursor),
           courier'[p].pc \in {"look", "send", "fail"} => courier'[p].page # {},
           courier'[p].pc \notin {"complete"},
           \/ courier'[p].cursor = courier[p].cursor
           \/ courier'[p].cursor = Event(p) /\ r.status = "delivered",
           SendsCounted'
    PROVE  OutInv'
<1>1. /\ Event(p) \in Cursor
      /\ \A d \in Cursor : OnTime(d) /\ d < Event(p) => d <= courier[p].cursor
  BY EventAtHand
<1>2. /\ out' \in [Cursor -> OutRow] /\ out'[Event(p)] = r
      /\ \A c \in Cursor \ {Event(p)} : out'[c] = out[c]
  BY <1>1 DEF OutInv, OutTypes
<1>3. OutTypes'
  BY <1>2 DEF OutInv, OutTypes
<1>4. \A c \in Cursor : (OutSettled(c) => OutSettled(c)') /\ (out[c].dead => out'[c].dead)
  BY <1>2 DEF OutSettled
<1>5. \A n : Behind(n) => Behind(n)'
  BY <1>4 DEF Behind, OnTime
<1>6. Behind(resume[p])' /\ Behind(courier[p].cursor)'
  <2>1. Behind(resume[p])'
    BY <1>5 DEF OutInv, CursorsBehind, Behind
  <2>2. Behind(courier[p].cursor)
    BY DEF OutInv, CursorsBehind
  <2>3. \A c \in Cursor : OnTime(c) /\ c <= courier[p].cursor => OutSettled(c)'
    BY <1>4, <2>2 DEF Behind
  <2>4. CASE courier'[p].cursor = courier[p].cursor
    BY <2>1, <2>3, <2>4 DEF Behind, OnTime
  <2>5. CASE courier'[p].cursor = Event(p) /\ r.status = "delivered"
    <3>1. \A c \in Cursor : c = Event(p) => OutSettled(c)'
      BY <1>2, <2>5 DEF OutSettled
    <3>2. \A c \in Cursor : c <= Event(p) => c < Event(p) \/ c = Event(p)
      BY <1>1 DEF Cursor
    <3>3. QED
      BY <1>1, <2>1, <2>3, <2>5, <3>1, <3>2 DEF Behind, OnTime
  <2>6. QED
    BY <2>1, <2>4, <2>5
<1>7. RowsTellTrue'
  <2> SUFFICES ASSUME NEW c \in Cursor
               PROVE  /\ out'[c].status = "dead_lettered" => out'[c].dead
                      /\ out'[c].status = "delivered" => IsAccepted(c)
    BY DEF RowsTellTrue, IsAccepted
  <2>1. QED
    BY <1>2 DEF OutInv, RowsTellTrue
<1>8. AnsweredIsAccepted'
  BY DEF OutInv, AnsweredIsAccepted, CourierAt, Event, IsAccepted
<1>9. resume'[p] \in shown \cup {0}
  BY DEF OutInv, PagesFollow
<1>10. QED
  BY <1>3, <1>4, <1>6, <1>7, <1>8, <1>9, OutStepInv

LEMMA TakenRow ==
    ASSUME NEW row \in OutRow, NEW p \in Courier
    PROVE  LET r == [row EXCEPT !.status = "delivering", !.token = p, !.attempts = @ + 1, !.ripe = FALSE]
           IN r \in OutRow /\ r.dead = row.dead /\ r.status = "delivering" /\ r.attempts = row.attempts + 1
<1> DEFINE n == row.attempts + 1
           r == [row EXCEPT !.status = "delivering", !.token = p, !.attempts = n, !.ripe = FALSE]
<1>1. n \in Nat
  BY DEF OutRow
<1> HIDE DEF n
<1>2. r \in OutRow /\ r.dead = row.dead /\ r.status = "delivering" /\ r.attempts = n
  BY <1>1 DEF OutRow
<1>3. QED
  BY <1>2 DEF n

\* A call that claims an event counts an attempt before it makes the request.
LEMMA ClaimCounts ==
    ASSUME OutInv, NEW p \in Courier, NEW e \in Cursor, e = Event(p),
           ~CourierAt(p, "send"), UNCHANGED <<sends, redriven>>,
           courier'[p].page = courier[p].page,
           \A q \in Courier \ {p} : courier'[q] = courier[q],
           \A c \in Cursor \ {e} : out'[c] = out[c],
           \/ out[e].attempts < MaxSends /\ out'[e].attempts = out[e].attempts + 1
           \/ out'[e].attempts = out[e].attempts /\ ~CourierAt(p, "send")'
    PROVE  SendsCounted'
<1> SUFFICES ASSUME NEW c \in Cursor
             PROVE  /\ out'[c].attempts <= MaxSends
                    /\ sends[c] + Cardinality(OutSending(c)') <= MaxSends * redriven[c] + out'[c].attempts
  BY DEF SendsCounted
<1>1. /\ out[c].attempts <= MaxSends
      /\ sends[c] + Cardinality(OutSending(c)) <= MaxSends * redriven[c] + out[c].attempts
  BY DEF OutInv, SendsCounted
<1>2. sends[c] \in Nat /\ MaxSends * redriven[c] \in Nat /\ out[c].attempts \in Nat /\ MaxSends \in Nat
  BY OutBounds DEF OutInv, OutTypes, OutRow
<1>3. OutSending(c)' \subseteq Courier /\ OutSending(c) \subseteq Courier
  BY DEF OutSending
<1>4. Event(p)' = e
  BY DEF Event
<1>5. CASE c = e /\ CourierAt(p, "send")'
  <2>1. OutSending(c)' \subseteq OutSending(c) \cup {p}
    BY <1>5 DEF OutSending, CourierAt, Event
  <2>2. /\ Cardinality(OutSending(c)') <= Cardinality(OutSending(c)) + 1
        /\ Cardinality(OutSending(c)') \in Nat /\ Cardinality(OutSending(c)) \in Nat
    BY <1>3, <2>1, SendingCounts
  <2>3. QED
    BY <1>1, <1>2, <1>5, <2>2
<1>6. CASE ~(c = e /\ CourierAt(p, "send")')
  <2>1. OutSending(c)' \subseteq OutSending(c)
    BY <1>4, <1>6 DEF OutSending, CourierAt, Event
  <2>2. /\ Cardinality(OutSending(c)') <= Cardinality(OutSending(c))
        /\ Cardinality(OutSending(c)') \in Nat /\ Cardinality(OutSending(c)) \in Nat
    BY <1>3, <2>1, SendingCounts
  <2>3. out'[c].attempts \in Nat /\ out[c].attempts <= out'[c].attempts /\ out'[c].attempts <= MaxSends
    BY <1>1, <1>2
  <2>4. QED
    BY <1>1, <1>2, <2>2, <2>3
<1>7. QED
  BY <1>5, <1>6

LEMMA ClaimInv ==
    ASSUME OutInv, NEW p \in Courier, ClaimDelivery(p)
    PROVE  OutInv'
<1>1. /\ courier[p].pc = "claim" /\ courier[p].page # {} /\ OutTypes
      /\ UNCHANGED <<shown, overtaken, resume, accepted, sends, redriven, outFaults>>
  BY DEF ClaimDelivery, CourierAt, OutInv
<1>2. PICK e \in Cursor : e = Event(p)
  BY <1>1, EventAtHand
<1>3. PICK row \in OutRow : row = Expired(out[e])
  BY <1>1, <1>2 DEF Expired, OutTypes, OutRow, NoOne
<1>4. /\ out[e].dead => row.dead
      /\ row.attempts = out[e].attempts /\ row.attempts \in Nat
      /\ out[e].status = "delivered" => row.status = "delivered"
      /\ row.status = "dead_lettered" => row.dead
      /\ row.status = "delivered" => out[e].status = "delivered"
      /\ out[e].status = "delivered" => IsAccepted(e)
      /\ MayClaim(row) => row.attempts < MaxSends /\ row.status # "delivered"
  BY <1>1, <1>2, <1>3 DEF Expired, OutTypes, OutRow, NoOne, OutInv, RowsTellTrue, MayClaim
<1> DEFINE taken == [row EXCEPT !.status = "delivering", !.token = p, !.attempts = @ + 1, !.ripe = FALSE]
<1>5. \/ MayClaim(row) /\ out' = [out EXCEPT ![e] = taken] /\ CourierTo(p, "send")
      \/ out' = [out EXCEPT ![e] = row] /\ CourierTo(p, "look")
  BY <1>2, <1>3 DEF ClaimDelivery
<1>6. /\ taken \in OutRow /\ taken.dead = row.dead /\ taken.status = "delivering"
      /\ taken.attempts = row.attempts + 1
  BY TakenRow
<1> HIDE DEF taken
<1>7. PICK pc \in {"send", "look"} : CourierTo(p, pc)
  BY <1>5
<1>8. /\ courier' \in [Courier -> OutCall] /\ courier'[p].pc = pc
      /\ courier'[p].page = courier[p].page /\ courier'[p].cursor = courier[p].cursor
      /\ \A q \in Courier \ {p} : courier'[q] = courier[q]
  BY <1>1, <1>7, CourierTurns
<1>9. /\ OutFits(courier[p].page, courier[p].cursor)
  BY DEF OutInv, PagesFollow
<1>10. outFaults' \in Nat /\ ~CourierAt(p, "send")
  BY <1>1 DEF OutTypes, CourierAt
<1>11. PICK r \in {row, taken} :
         /\ out' = [out EXCEPT ![e] = r]
         /\ r = taken => MayClaim(row)
         /\ r = row => r = taken \/ pc = "look"
  <2>1. CASE MayClaim(row) /\ out' = [out EXCEPT ![e] = taken]
    BY <2>1
  <2>2. CASE out' = [out EXCEPT ![e] = row] /\ CourierTo(p, "look")
    <3>1. pc = "look"
      BY <1>1, <1>8, <2>2, CourierTurns
    <3>2. row # taken
      BY <1>4, <1>6
    <3>3. QED
      BY <2>2, <3>1, <3>2
  <2>3. QED
    BY <1>5, <2>1, <2>2
<1>12. /\ out'[e] = r /\ \A c \in Cursor \ {e} : out'[c] = out[c]
  BY <1>1, <1>11 DEF OutTypes
<1>13. SendsCounted'
  <2>1. \/ out[e].attempts < MaxSends /\ out'[e].attempts = out[e].attempts + 1
        \/ out'[e].attempts = out[e].attempts /\ ~CourierAt(p, "send")'
    BY <1>4, <1>6, <1>8, <1>11, <1>12 DEF CourierAt
  <2>2. QED
    BY <1>1, <1>2, <1>8, <1>10, <1>12, <2>1, ClaimCounts
<1>14. /\ r \in OutRow /\ (out[e].dead => r.dead) /\ (r.status = "dead_lettered" => r.dead)
       /\ out[e].status = "delivered" => r.status = "delivered"
       /\ r.status = "delivered" => IsAccepted(e)
  BY <1>4, <1>6, <1>11
<1>15. out' = [out EXCEPT ![Event(p)] = r]
  BY <1>2, <1>11
<1>16. QED
  BY <1>1, <1>2, <1>8, <1>9, <1>10, <1>13, <1>14, <1>15, RowStepInv

LEMMA CompleteInv ==
    ASSUME OutInv, NEW p \in Courier, CompleteDelivery(p)
    PROVE  OutInv'
<1>1. /\ courier[p].pc = "complete" /\ courier[p].page # {} /\ OutTypes
      /\ UNCHANGED <<shown, overtaken, resume, accepted, sends, redriven>> /\ outFaults' \in Nat
  <2>1. OutTypes /\ PagesFollow /\ courier[p].pc = "complete"
    BY DEF CompleteDelivery, CourierAt, OutInv
  <2>2. outFaults' = outFaults \/ OutFault
    BY DEF CompleteDelivery
  <2>3. outFaults' \in Nat
    BY <2>1, <2>2 DEF OutTypes, OutFault
  <2>4. UNCHANGED <<shown, overtaken, resume, accepted, sends, redriven>>
    BY DEF CompleteDelivery
  <2>5. QED
    BY <2>1, <2>3, <2>4 DEF PagesFollow
<1>2. PICK e \in Cursor : e = Event(p) /\ IsAccepted(e)
  BY <1>1, EventAtHand DEF OutInv, AnsweredIsAccepted, CourierAt
<1> DEFINE done == [out[e] EXCEPT !.status = "delivered", !.token = NoOne]
<1>3. /\ done \in OutRow /\ done.status = "delivered" /\ done.dead = out[e].dead
      /\ done.attempts = out[e].attempts /\ out[e] \in OutRow
      /\ out[e].status = "delivered" => IsAccepted(e)
      /\ out[e].status = "dead_lettered" => out[e].dead
  BY <1>1 DEF OutTypes, OutRow, OutInv, RowsTellTrue
<1> HIDE DEF done
<1>4. \/ out' = [out EXCEPT ![e] = done] /\ MoveOn(p)
      \/ out' = [out EXCEPT ![e] = done] /\ CourierTo(p, "fail")
      \/ out' = out /\ CourierTo(p, "fail")
  BY <1>1, <1>2 DEF CompleteDelivery, done, OutTypes
<1>5. PICK r \in OutRow : /\ out' = [out EXCEPT ![e] = r] /\ r \in {done, out[e]}
                          /\ MoveOn(p) => r = done \/ CourierTo(p, "fail")
  <2>1. out = [out EXCEPT ![e] = out[e]]
    BY <1>1 DEF OutTypes
  <2>2. QED
    BY <1>3, <1>4, <2>1
<1>6. /\ OutFits(courier[p].page, courier[p].cursor)
  BY DEF OutInv, PagesFollow
<1>7. /\ courier' \in [Courier -> OutCall]
      /\ \A q \in Courier \ {p} : courier'[q] = courier[q]
      /\ OutFits(courier'[p].page, courier'[p].cursor)
      /\ courier'[p].pc \in {"claim", "fail"}
      /\ courier'[p].pc = "fail" => courier'[p].page # {}
      /\ courier'[p].cursor = courier[p].cursor \/ (courier'[p].cursor = e /\ r.status = "delivered")
  <2>1. CASE CourierTo(p, "fail")
    BY <1>1, <1>6, <2>1, CourierTurns
  <2>2. CASE MoveOn(p) /\ ~CourierTo(p, "fail")
    BY <1>1, <1>2, <1>3, <1>5, <2>2, MoveOnInv
  <2>3. QED
    BY <1>4, <2>1, <2>2
<1>8. /\ out'[e] = r /\ \A c \in Cursor \ {e} : out'[c] = out[c]
      /\ out' \in [Cursor -> OutRow]
  BY <1>1, <1>5 DEF OutTypes
<1>9. OutTypes'
  BY <1>1, <1>7, <1>8 DEF OutTypes
<1>10. SendsCounted'
  <2>1. \A c \in Cursor : out'[c].attempts = out[c].attempts
    BY <1>3, <1>5, <1>8
  <2>2. \A c \in Cursor : OutSending(c)' \subseteq OutSending(c)
    BY <1>7 DEF OutSending, CourierAt, Event
  <2>3. QED
    BY <1>1, <1>9, <2>1, <2>2, CountStays
<1>11. out' = [out EXCEPT ![Event(p)] = r]
  BY <1>2, <1>5
<1>12. /\ out[e].dead => r.dead
       /\ out[e].status = "delivered" => r.status = "delivered"
       /\ r.status = "dead_lettered" => r.dead
  BY <1>3, <1>5
<1>13. QED
  BY <1>1, <1>2, <1>7, <1>10, <1>11, <1>12, RowStepInv

LEMMA FailInv ==
    ASSUME OutInv, NEW p \in Courier, FailDelivery(p)
    PROVE  OutInv'
<1>1. /\ courier[p].pc = "fail" /\ courier[p].page # {} /\ OutTypes
      /\ UNCHANGED <<shown, overtaken, resume, accepted, sends, redriven, outFaults>> /\ CourierTo(p, "return")
  BY DEF FailDelivery, CourierAt, OutInv, PagesFollow
<1>2. PICK e \in Cursor : e = Event(p)
  BY <1>1, EventAtHand
<1>3. /\ out[e] \in OutRow /\ out[e].attempts \in Nat
      /\ out[e].status = "delivered" => IsAccepted(e)
      /\ out[e].status = "dead_lettered" => out[e].dead
  BY <1>1 DEF OutTypes, OutRow, OutInv, RowsTellTrue
<1>4. PICK r \in OutRow :
        /\ out' = [out EXCEPT ![e] = r]
        /\ (out[e].dead => r.dead) /\ r.attempts = out[e].attempts
        /\ out[e].status = "delivered" => r.status = "delivered"
        /\ r.status = "dead_lettered" => r.dead
        /\ r.status = "delivered" => out[e].status = "delivered"
  <2>1. CASE Holds(p, e)
    <3> DEFINE over == out[e].attempts >= MaxSends
               r == [out[e] EXCEPT !.status = IF over THEN "dead_lettered" ELSE "pending",
                                   !.dead = @ \/ over, !.token = NoOne, !.ripe = FALSE]
    <3>1. out' = [out EXCEPT ![e] = r]
      BY <1>2, <2>1 DEF FailDelivery
    <3>2. over \in BOOLEAN
      OBVIOUS
    <3> HIDE DEF over
    <3>3. /\ r \in OutRow /\ r.dead = (out[e].dead \/ over) /\ r.attempts = out[e].attempts
          /\ r.status = IF over THEN "dead_lettered" ELSE "pending"
      BY <1>3, <3>2 DEF OutRow
    <3>4. out[e].status = "delivering"
      BY <2>1 DEF Holds
    <3> HIDE DEF r
    <3>5. QED
      BY <3>1, <3>3, <3>4
  <2>2. CASE ~Holds(p, e)
    <3>1. out' = [out EXCEPT ![e] = out[e]]
      BY <1>1, <1>2, <2>2 DEF FailDelivery, OutTypes
    <3>2. QED
      BY <1>3, <3>1
  <2>3. QED
    BY <2>1, <2>2
<1>5. /\ courier' \in [Courier -> OutCall] /\ courier'[p].pc = "return"
      /\ courier'[p].page = courier[p].page /\ courier'[p].cursor = courier[p].cursor
      /\ \A q \in Courier \ {p} : courier'[q] = courier[q]
  BY <1>1, CourierTurns
<1>6. /\ OutFits(courier[p].page, courier[p].cursor)
  BY DEF OutInv, PagesFollow
<1>7. /\ out'[e] = r /\ \A c \in Cursor \ {e} : out'[c] = out[c]
      /\ out' \in [Cursor -> OutRow]
  BY <1>1, <1>4 DEF OutTypes
<1>8. OutTypes' /\ outFaults' \in Nat
  BY <1>1, <1>5, <1>7 DEF OutTypes
<1>9. SendsCounted'
  <2>1. \A c \in Cursor : out'[c].attempts = out[c].attempts
    BY <1>4, <1>7
  <2>2. \A c \in Cursor : OutSending(c)' \subseteq OutSending(c)
    BY <1>5 DEF OutSending, CourierAt, Event
  <2>3. QED
    BY <1>1, <1>8, <2>1, <2>2, CountStays
<1>10. /\ out' = [out EXCEPT ![Event(p)] = r] /\ (r.status = "delivered" => IsAccepted(Event(p)))
       /\ out[Event(p)].dead => r.dead
       /\ out[Event(p)].status = "delivered" => r.status = "delivered"
       /\ r.status = "dead_lettered" => r.dead
  BY <1>2, <1>3, <1>4
<1>11. /\ OutFits(courier'[p].page, courier'[p].cursor)
       /\ courier'[p].pc \notin {"look", "send", "fail", "complete"}
  BY <1>5, <1>6
<1>12. QED
  BY <1>1, <1>5, <1>8, <1>9, <1>10, <1>11, RowStepInv

\* The receiver has one event more, or the ones it had.
LEMMA Accepting ==
    ASSUME OutTypes, NEW e \in Cursor, Accept(e) \/ UNCHANGED accepted
    PROVE  /\ accepted' \in Seq(Cursor)
           /\ \A c : IsAccepted(c) => IsAccepted(c)'
           /\ \A c : IsAccepted(c)' => IsAccepted(c) \/ c = e
           /\ Accept(e) => IsAccepted(e)'
           /\ \A i \in DOMAIN accepted : i \in DOMAIN accepted' /\ accepted'[i] = accepted[i]
           /\ \A i \in DOMAIN accepted' : i \in DOMAIN accepted \/
                 (/\ accepted'[i] = e /\ ~IsAccepted(e)
                  /\ \A j \in DOMAIN accepted' : j < i => j \in DOMAIN accepted
                  /\ \A j \in DOMAIN accepted : j < i)
<1>1. CASE accepted' = accepted
  BY <1>1 DEF Accept, IsAccepted, OutTypes
<1>2. CASE ~IsAccepted(e) /\ accepted' = Append(accepted, e)
  <2>1. accepted \in Seq(Cursor) /\ Len(accepted) \in Nat /\ DOMAIN accepted = 1..Len(accepted)
    BY DEF OutTypes
  <2>2. /\ accepted' \in Seq(Cursor) /\ DOMAIN accepted' = 1..(Len(accepted) + 1)
        /\ \A i \in 1..Len(accepted) : accepted'[i] = accepted[i]
        /\ accepted'[Len(accepted) + 1] = e
    <3>1. /\ Append(accepted, e) \in Seq(Cursor) /\ Len(Append(accepted, e)) = Len(accepted) + 1
          /\ DOMAIN Append(accepted, e) = 1..Len(Append(accepted, e))
          /\ \A i \in 1..Len(accepted) : Append(accepted, e)[i] = accepted[i]
          /\ Append(accepted, e)[Len(accepted) + 1] = e
      BY <2>1
    <3>2. QED
      BY <1>2, <3>1
  <2>3. \A i : i \in 1..(Len(accepted) + 1) <=> i \in 1..Len(accepted) \/ i = Len(accepted) + 1
    BY <2>1
  <2>4. /\ \A i \in 1..Len(accepted) : i < Len(accepted) + 1
        /\ \A i \in 1..(Len(accepted) + 1) : i < Len(accepted) + 1 => i \in 1..Len(accepted)
        /\ Len(accepted) + 1 \in DOMAIN accepted'
    BY <2>1, <2>2
  <2>5. \A c : IsAccepted(c)' <=> \E i \in DOMAIN accepted' : accepted'[i] = c
    BY DEF IsAccepted
  <2>6. QED
    BY <1>2, <2>1, <2>2, <2>3, <2>4, <2>5 DEF IsAccepted
<1>3. QED
  BY <1>1, <1>2 DEF Accept, IsAccepted

\* A request that reaches the receiver comes behind everything before its event.
LEMMA SendInv ==
    ASSUME OutInv, NEW p \in Courier, SendRequest(p)
    PROVE  OutInv'
<1>1. /\ courier[p].pc = "send" /\ courier[p].page # {} /\ OutTypes
      /\ UNCHANGED <<shown, overtaken, out, resume, redriven>> /\ outFaults' \in Nat
  <2>1. OutTypes /\ PagesFollow /\ courier[p].pc = "send"
    BY DEF SendRequest, CourierAt, OutInv
  <2>2. outFaults' = outFaults \/ OutFault
    BY DEF SendRequest
  <2>3. outFaults' \in Nat
    BY <2>1, <2>2 DEF OutTypes, OutFault
  <2>4. UNCHANGED <<shown, overtaken, out, resume, redriven>>
    BY DEF SendRequest
  <2>5. QED
    BY <2>1, <2>3, <2>4 DEF PagesFollow
<1>2. PICK e \in Cursor : e = Event(p)
  BY <1>1, EventAtHand
<1>3. /\ sends' = [sends EXCEPT ![e] = @ + 1]
      /\ Accept(e) \/ UNCHANGED accepted
      /\ (CourierTo(p, "complete") /\ Accept(e)) \/ CourierTo(p, "fail")
  BY <1>2 DEF SendRequest
<1>4. PICK pc \in {"complete", "fail"} : CourierTo(p, pc) /\ (pc = "complete" => Accept(e))
  BY <1>3
<1>5. /\ courier' \in [Courier -> OutCall] /\ courier'[p].pc = pc
      /\ courier'[p].page = courier[p].page /\ courier'[p].cursor = courier[p].cursor
      /\ \A q \in Courier \ {p} : courier'[q] = courier[q]
  BY <1>1, <1>4, CourierTurns
<1>6. /\ accepted' \in Seq(Cursor)
      /\ \A c : IsAccepted(c) => IsAccepted(c)'
      /\ \A c : IsAccepted(c)' => IsAccepted(c) \/ c = e
      /\ Accept(e) => IsAccepted(e)'
      /\ \A i \in DOMAIN accepted : i \in DOMAIN accepted' /\ accepted'[i] = accepted[i]
      /\ \A i \in DOMAIN accepted' : i \in DOMAIN accepted \/
            (/\ accepted'[i] = e /\ ~IsAccepted(e)
             /\ \A j \in DOMAIN accepted' : j < i => j \in DOMAIN accepted
             /\ \A j \in DOMAIN accepted : j < i)
  BY <1>1, <1>3, Accepting
<1>7. /\ sends' \in [Cursor -> Nat] /\ sends'[e] = sends[e] + 1
      /\ \A c \in Cursor \ {e} : sends'[c] = sends[c]
  BY <1>1, <1>3 DEF OutTypes
<1>8. OutTypes'
  BY <1>1, <1>5, <1>6, <1>7 DEF OutTypes
<1>9. PagesFollow'
  <2> SUFFICES ASSUME NEW q \in Courier
               PROVE  /\ resume[q] \in shown \cup {0} /\ OutFits(courier'[q].page, courier'[q].cursor)
                      /\ courier'[q].pc \in {"look", "send", "complete", "fail"} => courier'[q].page # {}
    BY <1>1 DEF PagesFollow, OutFits, OnTime
  <2>1. QED
    BY <1>1, <1>5 DEF OutInv, PagesFollow
<1>10. RowsTellTrue'
  BY <1>1, <1>6 DEF OutInv, RowsTellTrue
<1>11. \A n : Behind(n) => Behind(n)'
  BY <1>1 DEF Behind, OutSettled, OnTime
<1>12. CursorsBehind'
  BY <1>1, <1>5, <1>11 DEF OutInv, CursorsBehind, Behind
<1>13. AcceptedBehind'
  <2>1. e \in shown /\ Behind(e - 1)
    <3>1. e \in shown /\ \A d \in Cursor : OnTime(d) /\ d < e => d <= courier[p].cursor
      BY <1>1, <1>2, EventAtHand
    <3>2. \A d \in Cursor : d <= e - 1 => d < e
      BY DEF Cursor
    <3>3. QED
      BY <3>1, <3>2 DEF OutInv, CursorsBehind, Behind
  <2>2. \A c \in Cursor : IsAccepted(c)' => c \in shown /\ Behind(c - 1)
    BY <1>6, <2>1 DEF OutInv, AcceptedBehind
  <2>3. QED
    BY <1>1, <1>11, <2>2 DEF AcceptedBehind
<1>14. AnsweredIsAccepted'
  <2> SUFFICES ASSUME NEW q \in Courier, CourierAt(q, "complete")' PROVE IsAccepted(Event(q))'
    BY DEF AnsweredIsAccepted
  <2>1. CASE q = p
    <3>1. IsAccepted(e)' /\ Event(p)' = e
      BY <1>2, <1>4, <1>5, <1>6, <2>1 DEF CourierAt, Event
    <3>2. QED
      BY <2>1, <3>1 DEF IsAccepted
  <2>2. CASE q # p
    <3>1. CourierAt(q, "complete") /\ Event(q)' = Event(q)
      BY <1>5, <2>2 DEF CourierAt, Event
    <3>2. PICK d : d = Event(q) /\ IsAccepted(d)
      BY <3>1 DEF OutInv, AnsweredIsAccepted
    <3>3. IsAccepted(d)'
      BY <1>6, <3>2
    <3>4. QED
      BY <3>1, <3>2, <3>3 DEF IsAccepted
  <2>3. QED
    BY <2>1, <2>2
<1>15. SendsCounted'
  <2> SUFFICES ASSUME NEW c \in Cursor
               PROVE  /\ out[c].attempts <= MaxSends
                      /\ sends'[c] + Cardinality(OutSending(c)') <= MaxSends * redriven[c] + out[c].attempts
    BY <1>1 DEF SendsCounted
  <2>1. /\ out[c].attempts <= MaxSends
        /\ sends[c] + Cardinality(OutSending(c)) <= MaxSends * redriven[c] + out[c].attempts
    BY DEF OutInv, SendsCounted
  <2>2. sends[c] \in Nat /\ MaxSends * redriven[c] \in Nat /\ out[c].attempts \in Nat
    BY <1>1, OutBounds DEF OutTypes, OutRow
  <2>3. OutSending(c)' \subseteq Courier /\ OutSending(c) \subseteq Courier
    BY DEF OutSending
  <2>4. CASE c = e
    <3>1. p \in OutSending(c)
      BY <1>1, <1>2, <2>4 DEF OutSending, CourierAt
    <3>2. OutSending(c)' \subseteq OutSending(c) \ {p}
      BY <1>5 DEF OutSending, CourierAt, Event
    <3>3. /\ Cardinality(OutSending(c)') + 1 <= Cardinality(OutSending(c))
          /\ Cardinality(OutSending(c)') \in Nat /\ Cardinality(OutSending(c)) \in Nat
      BY <2>3, <3>1, <3>2, SendingCounts
    <3>4. QED
      BY <1>7, <2>1, <2>2, <2>4, <3>3
  <2>5. CASE c # e
    <3>1. OutSending(c)' \subseteq OutSending(c)
      BY <1>5 DEF OutSending, CourierAt, Event
    <3>2. /\ Cardinality(OutSending(c)') <= Cardinality(OutSending(c))
          /\ Cardinality(OutSending(c)') \in Nat /\ Cardinality(OutSending(c)) \in Nat
      BY <2>3, <3>1, SendingCounts
    <3>3. QED
      BY <1>7, <2>1, <2>2, <2>5, <3>2
  <2>6. QED
    BY <2>4, <2>5
<1>16. AcceptedInOrder'
  <2> SUFFICES ASSUME NEW i \in DOMAIN accepted', NEW j \in DOMAIN accepted',
                      i < j, accepted'[i] > accepted'[j]
               PROVE  out[accepted'[j]].dead \/ ~OnTime(accepted'[j])
    BY <1>1 DEF AcceptedInOrder, OnTime
  <2>1. CASE i \in DOMAIN accepted /\ j \in DOMAIN accepted
    BY <1>6, <2>1 DEF OutInv, AcceptedInOrder
  <2>2. CASE j \notin DOMAIN accepted
    <3>1. accepted'[j] = e /\ ~IsAccepted(e) /\ i \in DOMAIN accepted
      BY <1>6, <2>2
    <3>2. PICK d \in Cursor : d = accepted'[i] /\ d = accepted[i] /\ IsAccepted(d)
      BY <1>1, <1>6, <3>1 DEF OutTypes, IsAccepted
    <3>3. Behind(d - 1) /\ e <= d - 1
      BY <3>1, <3>2 DEF OutInv, AcceptedBehind, Cursor
    <3>4. OnTime(e) => OutSettled(e) /\ out[e].status # "delivered"
      BY <3>1, <3>3 DEF Behind, OutInv, RowsTellTrue
    <3>5. QED
      BY <3>1, <3>4 DEF OutSettled
  <2>3. CASE i \notin DOMAIN accepted /\ j \in DOMAIN accepted
    <3>1. j < i /\ i \in Int /\ j \in Int
      BY <1>6, <1>8, <2>3 DEF OutTypes
    <3>2. QED
      BY <3>1
  <2>4. QED
    BY <2>1, <2>2, <2>3
<1>17. QED
  BY <1>8, <1>9, <1>10, <1>12, <1>13, <1>14, <1>15, <1>16 DEF OutInv

\* Time, and whoever redrives, change a row under the calls.
LEMMA RowChangesInv ==
    ASSUME OutInv, NEW e \in Cursor, Ripen(e) \/ Redrive(e)
    PROVE  OutInv'
<1>1. /\ UNCHANGED <<shown, overtaken, courier, resume, accepted, sends, outFaults>> /\ OutTypes
      /\ out[e] \in OutRow /\ (out[e].status = "dead_lettered" => out[e].dead)
  BY DEF Ripen, Redrive, OutInv, OutTypes, RowsTellTrue
<1>2. PICK r \in OutRow :
        /\ out' = [out EXCEPT ![e] = r]
        /\ r.dead = out[e].dead /\ r.status \in {"pending", "delivering"}
        /\ out[e].status \in {"pending", "delivering", "dead_lettered"}
        /\ \/ r.attempts = out[e].attempts /\ redriven' = redriven
           \/ r.attempts = 0 /\ redriven' = [redriven EXCEPT ![e] = @ + 1]
  <2>1. CASE Ripen(e)
    <3> DEFINE r == [out[e] EXCEPT !.ripe = TRUE]
    <3>1. out' = [out EXCEPT ![e] = r] /\ redriven' = redriven
          /\ out[e].status \in {"pending", "delivering"}
      BY <1>1, <2>1 DEF Ripen, OutTypes
    <3>2. r \in OutRow /\ r.dead = out[e].dead /\ r.status = out[e].status /\ r.attempts = out[e].attempts
      BY <1>1 DEF OutRow
    <3> HIDE DEF r
    <3>3. QED
      BY <3>1, <3>2
  <2>2. CASE Redrive(e)
    <3> DEFINE r == [out[e] EXCEPT !.status = "pending", !.attempts = 0, !.ripe = TRUE]
    <3>1. out' = [out EXCEPT ![e] = r] /\ redriven' = [redriven EXCEPT ![e] = @ + 1]
          /\ out[e].status = "dead_lettered"
      BY <1>1, <2>2 DEF Redrive, OutTypes
    <3>2. r \in OutRow /\ r.dead = out[e].dead /\ r.status = "pending" /\ r.attempts = 0
      BY <1>1 DEF OutRow
    <3> HIDE DEF r
    <3>3. QED
      BY <3>1, <3>2
  <2>3. QED
    BY <2>1, <2>2
<1>3. /\ out' \in [Cursor -> OutRow] /\ out'[e] = r
      /\ \A c \in Cursor \ {e} : out'[c] = out[c]
  BY <1>1, <1>2 DEF OutTypes
<1>4. /\ redriven' \in [Cursor -> Nat]
      /\ \A c \in Cursor \ {e} : redriven'[c] = redriven[c]
      /\ \/ r.attempts = out[e].attempts /\ redriven'[e] = redriven[e]
         \/ r.attempts = 0 /\ redriven'[e] = redriven[e] + 1
  BY <1>1, <1>2 DEF OutTypes
<1>5. OutTypes'
  BY <1>1, <1>3, <1>4 DEF OutTypes
<1>6. \A c \in Cursor : (OutSettled(c) => OutSettled(c)') /\ (out[c].dead => out'[c].dead)
  BY <1>1, <1>2, <1>3 DEF OutSettled
<1>7. PagesFollow' /\ AnsweredIsAccepted'
  BY <1>1 DEF OutInv, PagesFollow, OutFits, OnTime, AnsweredIsAccepted, CourierAt, Event, IsAccepted
<1>8. RowsTellTrue'
  BY <1>1, <1>2, <1>3 DEF OutInv, RowsTellTrue, IsAccepted
<1>9. CursorsBehind' /\ AcceptedBehind'
  BY <1>1, <1>6 DEF OutInv, CursorsBehind, AcceptedBehind, Behind, IsAccepted, OnTime
<1>10. AcceptedInOrder'
  <2>1. \A i \in DOMAIN accepted : accepted[i] \in Cursor
    BY <1>1 DEF OutTypes
  <2>2. QED
    BY <1>1, <1>6, <2>1 DEF OutInv, AcceptedInOrder, OnTime
<1>11. SendsCounted'
  <2> SUFFICES ASSUME NEW c \in Cursor
               PROVE  /\ out'[c].attempts <= MaxSends
                      /\ sends[c] + Cardinality(OutSending(c)) <= MaxSends * redriven'[c] + out'[c].attempts
    BY <1>1 DEF SendsCounted, OutSending, CourierAt, Event
  <2>1. /\ out[c].attempts <= MaxSends
        /\ sends[c] + Cardinality(OutSending(c)) <= MaxSends * redriven[c] + out[c].attempts
    BY DEF OutInv, SendsCounted
  <2>2. sends[c] \in Nat /\ redriven[c] \in Nat /\ out[c].attempts \in Nat /\ MaxSends \in Nat
    BY <1>1, OutBounds DEF OutTypes, OutRow
  <2>3. MaxSends * (redriven[c] + 1) = MaxSends * redriven[c] + MaxSends /\ MaxSends * redriven[c] \in Nat
    BY <2>2
  <2>4. Cardinality(OutSending(c)) \in Nat
    <3>1. OutSending(c) \subseteq Courier
      BY DEF OutSending
    <3>2. QED
      BY <3>1, SendingCounts
  <2>5. CASE c # e \/ (r.attempts = out[e].attempts /\ redriven'[e] = redriven[e])
    BY <1>3, <1>4, <2>1, <2>5
  <2>6. CASE c = e /\ r.attempts = 0 /\ redriven'[e] = redriven[e] + 1
    BY <1>3, <2>1, <2>2, <2>3, <2>4, <2>6
  <2>7. QED
    BY <1>4, <2>5, <2>6
<1>12. QED
  BY <1>5, <1>7, <1>8, <1>9, <1>10, <1>11 DEF OutInv

LEMMA OutNextInv == OutInv /\ [OutboundNext]_outVars => OutInv'
<1> SUFFICES ASSUME OutInv, [OutboundNext]_outVars PROVE OutInv'
  OBVIOUS
<1>1. CASE UNCHANGED outVars
  BY <1>1 DEF outVars, OutInv, OutTypes, PagesFollow, OutFits, OnTime, RowsTellTrue, CursorsBehind, AcceptedBehind,
     Behind, OutSettled, IsAccepted, AnsweredIsAccepted, CourierAt, Event, SendsCounted, OutSending,
     AcceptedInOrder
<1>2. CASE OutboundNext
  BY <1>2, AppendEventInv, DeliverInv, ClaimInv, LookReturnInv, SendInv, CompleteInv, FailInv,
     RowChangesInv DEF OutboundNext
<1>3. QED
  BY <1>1, <1>2

\* However many callers deliver, stop, are refused or redrive, no saved cursor passes an event
\* that is not settled, a delivered event was accepted, the receiver has the events in order but
\* for dead letters, and none is sent more often than its attempts allow.
THEOREM OutboundStaysFaithful == OutboundSpec => []OutboundIsFaithful
<1>1. OutInv => OutboundIsFaithful
  <2> SUFFICES ASSUME OutInv PROVE OutboundIsFaithful
    OBVIOUS
  <2>1. CursorsAreSafe
    BY DEF OutInv, CursorsBehind, Behind, OutSettled, CursorsAreSafe
  <2>2. DeliveredWasAccepted
    BY DEF OutInv, RowsTellTrue, IsAccepted, DeliveredWasAccepted
  <2>3. SendsAreBounded
    <3> SUFFICES ASSUME NEW c \in Cursor PROVE sends[c] <= MaxSends * (redriven[c] + 1)
      BY DEF SendsAreBounded
    <3>1. /\ out[c].attempts <= MaxSends
          /\ sends[c] + Cardinality(OutSending(c)) <= MaxSends * redriven[c] + out[c].attempts
      BY DEF OutInv, SendsCounted
    <3>2. sends[c] \in Nat /\ redriven[c] \in Nat /\ out[c].attempts \in Nat /\ MaxSends \in Nat
      BY OutBounds DEF OutInv, OutTypes, OutRow
    <3>3. MaxSends * (redriven[c] + 1) = MaxSends * redriven[c] + MaxSends /\ MaxSends * redriven[c] \in Nat
      BY <3>2
    <3>4. Cardinality(OutSending(c)) \in Nat
      <4>1. OutSending(c) \subseteq Courier
        BY DEF OutSending
      <4>2. QED
        BY <4>1, SendingCounts
    <3>5. QED
      BY <3>1, <3>2, <3>3, <3>4
  <2>4. QED
    BY <2>1, <2>2, <2>3 DEF OutInv, OutboundIsFaithful
<1>2. QED
  BY <1>1, OutInitInv, OutNextInv, PTL DEF OutboundSpec

----------------------------------------------------------------------------
(* Tools, approvals and effects *)

ToolCallRow == [pc: {"quiet", "start", "execute", "succeed", "fail"}, action: ToolAction \cup {NoAction}]
Answer      == (ToolAction \cup {NoAction}) \X {"allow", "deny"}
RunRow      == [pc: {"step", "left"}, attempt: Nat, decided: SUBSET Answer,
                proposed: ToolAction \cup {NoAction}, calls: Nat, call: [ToolSlot -> ToolCallRow]]
TurnRow     == [status: {"queued", "running", "waiting", "succeeded", "failed"}, attempt: Nat,
                holder: ToolRun \cup {NoAction}, steered: BOOLEAN, proposed: ToolAction \cup {NoAction}]
EffectRow   == [status: {"pending", "succeeded", "failed"}, attempt: Nat]

ToolTypes ==
    /\ policy \in [ToolAction -> Decision] /\ effect \in [ToolAction -> {"read", "external"}]
    /\ turn \in TurnRow
    /\ resolved \subseteq Answer
    /\ toolRow \in [ToolAction -> {NoCall} \cup EffectRow]
    /\ run \in [ToolRun -> {Waiting, Ended} \cup RunRow]
    /\ performed \in [ToolAction -> Nat]

Reserved(a) == policy[a] = "approval-required"
Allowed(a)  == policy[a] = "allow" \/ (Reserved(a) /\ <<a, "allow">> \in resolved)

\* Only what the policy reserves is put to the user, and answered.
AnswersFit ==
    /\ \A a \in ToolAction \cup {NoAction}, d \in {"allow", "deny"} : <<a, d>> \in resolved => Reserved(a)
    /\ turn.status = "waiting" => Reserved(turn.proposed)

\* What a run may do was allowed, by the policy or by an answer it read.
RunFits(x) ==
    /\ x.decided \subseteq resolved
    /\ x.proposed # NoAction => Reserved(x.proposed)
    /\ \A s \in ToolSlot : x.call[s].pc # "quiet" =>
         x.call[s].action \in ToolAction /\ Allowed(x.call[s].action)

\* The call that made the row of an external effect is the one that may perform it.
Owns(r, s) ==
    /\ run[r] \in RunRow /\ Call(r, s).pc \in {"execute", "succeed", "fail"}
    /\ effect[Call(r, s).action] = "external"
OneOwner ==
    \A r, q \in ToolRun, s, t \in ToolSlot :
        Owns(r, s) /\ Owns(q, t) /\ Call(r, s).action = Call(q, t).action => r = q /\ s = t
OwnerKnows ==
    \A r \in ToolRun, s \in ToolSlot : Owns(r, s) =>
        /\ toolRow[Call(r, s).action] # NoCall
        /\ Call(r, s).pc = "execute" => performed[Call(r, s).action] = 0
        /\ Call(r, s).pc = "succeed" => performed[Call(r, s).action] = 1
EffectsFit ==
    \A a \in ToolAction : effect[a] = "external" =>
        /\ performed[a] <= 1
        /\ toolRow[a] = NoCall => performed[a] = 0
        /\ toolRow[a] # NoCall /\ toolRow[a].status = "succeeded" => performed[a] = 1

ToolInv ==
    /\ ToolTypes /\ AnswersFit
    /\ \A r \in ToolRun : run[r] \in RunRow => RunFits(run[r])
    /\ OneOwner /\ OwnerKnows /\ EffectsFit /\ OnlyApprovedActionsRun

LEMMA ToolInitInv == ToolsInit => ToolInv
<1> SUFFICES ASSUME ToolsInit PROVE ToolInv
  OBVIOUS
<1>1. /\ \A r \in ToolRun : run[r] = Waiting /\ Waiting \notin RunRow
      /\ \A a \in ToolAction : toolRow[a] = NoCall /\ performed[a] = 0
      /\ resolved = {} /\ turn.status = "queued"
  BY DEF ToolsInit, ToolsBlank, Waiting, RunRow
<1>2. ToolTypes
  BY DEF ToolsInit, ToolsBlank, ToolTypes, TurnRow
<1>3. AnswersFit /\ \A r \in ToolRun : run[r] \in RunRow => RunFits(run[r])
  BY <1>1 DEF AnswersFit
<1>4. OneOwner /\ OwnerKnows
  BY <1>1 DEF OneOwner, OwnerKnows, Owns
<1>5. EffectsFit /\ OnlyApprovedActionsRun
  BY <1>1 DEF EffectsFit, OnlyApprovedActionsRun
<1>6. QED
  BY <1>2, <1>3, <1>4, <1>5 DEF ToolInv

\* A run that goes on without an effect: its calls stay, end or start, as they may.
LEMMA ToolRunInv ==
    ASSUME ToolInv, NEW r \in ToolRun, NEW x \in {Ended} \cup RunRow, run' = [run EXCEPT ![r] = x],
           UNCHANGED <<policy, effect, resolved, toolRow, performed>>,
           turn' \in TurnRow, turn'.status = "waiting" => Reserved(turn'.proposed),
           x \in RunRow => RunFits(x),
           \A s \in ToolSlot : x \in RunRow =>
             \/ run[r] \in RunRow /\ x.call[s] = run[r].call[s]
             \/ x.call[s].pc \in {"quiet", "start"}
    PROVE  ToolInv'
<1>1. ToolTypes /\ run'[r] = x /\ \A q \in ToolRun : q # r => run'[q] = run[q]
  BY DEF ToolInv, ToolTypes
<1>2. ToolTypes'
  BY <1>1 DEF ToolTypes
<1>3. AnswersFit'
  BY DEF ToolInv, AnswersFit, Reserved
<1>4. ASSUME NEW q \in ToolRun, run'[q] \in RunRow PROVE RunFits(run[q])'
  BY <1>1, <1>4 DEF ToolInv, RunFits, Allowed, Reserved
<1>5. ASSUME NEW q \in ToolRun, NEW s \in ToolSlot, Owns(q, s)'
      PROVE  Owns(q, s) /\ run'[q].call[s] = run[q].call[s]
  <2>1. CASE q = r
    BY <1>1, <1>5, <2>1 DEF Owns, Call
  <2>2. CASE q # r
    BY <1>1, <1>5, <2>2 DEF Owns, Call
  <2>3. QED
    BY <2>1, <2>2
<1>6. OneOwner'
  BY <1>5 DEF ToolInv, OneOwner, Call
<1>7. OwnerKnows'
  BY <1>5 DEF ToolInv, OwnerKnows, Call
<1>8. EffectsFit' /\ OnlyApprovedActionsRun'
  BY DEF ToolInv, EffectsFit, OnlyApprovedActionsRun
<1>9. QED
  BY <1>2, <1>3, <1>4, <1>6, <1>7, <1>8 DEF ToolInv

\* A step of the generation alone.
LEMMA ToolTurnInv ==
    ASSUME ToolInv, UNCHANGED <<policy, effect, toolRow, run, performed>>,
           turn' \in TurnRow, turn'.status = "waiting" => Reserved(turn'.proposed),
           resolved \subseteq resolved', resolved' \subseteq Answer,
           \A a \in ToolAction \cup {NoAction}, d \in {"allow", "deny"} :
             <<a, d>> \in resolved' => Reserved(a)
    PROVE  ToolInv'
<1>1. ToolTypes'
  BY DEF ToolInv, ToolTypes
<1>2. AnswersFit'
  BY DEF AnswersFit, Reserved
<1>3. ASSUME NEW q \in ToolRun, run'[q] \in RunRow PROVE RunFits(run[q])'
  BY <1>3 DEF ToolInv, RunFits, Allowed, Reserved
<1>4. OneOwner' /\ OwnerKnows'
  BY DEF ToolInv, OneOwner, OwnerKnows, Owns, Call
<1>5. EffectsFit' /\ OnlyApprovedActionsRun'
  BY DEF ToolInv, EffectsFit, OnlyApprovedActionsRun
<1>6. QED
  BY <1>1, <1>2, <1>3, <1>4, <1>5 DEF ToolInv

\* A run with a call in it.
LEMMA ToolWorks ==
    ASSUME ToolInv, NEW r \in ToolRun, run[r].pc \in {"step", "left"}
    PROVE  /\ run[r] \in RunRow /\ RunFits(run[r]) /\ run[r].call \in [ToolSlot -> ToolCallRow]
           /\ run[r].proposed \in ToolAction \cup {NoAction} /\ run[r].calls \in Nat
           /\ run[r].attempt \in Nat
<1>1. run[r] \in {Waiting, Ended} \cup RunRow
  BY DEF ToolInv, ToolTypes
<1>2. run[r] \in RunRow
  BY <1>1 DEF Waiting, Ended
<1>3. QED
  BY <1>2 DEF ToolInv, RunRow

LEMMA TakeTurnInv == ASSUME ToolInv, NEW r \in ToolRun, TakeTurn(r) PROVE ToolInv'
<1>1. ToolTypes
  BY DEF ToolInv
<1>2. PICK x : x = [pc |-> "step", attempt |-> turn.attempt, decided |-> resolved,
                    proposed |-> NoAction, calls |-> 0,
                    call |-> [s \in ToolSlot |-> Quiet]]
  OBVIOUS
<1>3. Quiet \in ToolCallRow /\ Quiet.pc = "quiet"
  BY DEF Quiet, ToolCallRow
<1>4. x \in RunRow /\ \A s \in ToolSlot : x.call[s].pc = "quiet"
  BY <1>1, <1>2, <1>3 DEF RunRow, ToolTypes, TurnRow
<1>5. RunFits(x)
  BY <1>2, <1>4 DEF RunFits
<1>6. run' = [run EXCEPT ![r] = x]
  BY <1>2 DEF TakeTurn, SetRun
<1>7. /\ turn' \in TurnRow /\ turn'.status # "waiting"
      /\ UNCHANGED <<policy, effect, resolved, toolRow, performed>>
  BY <1>1 DEF TakeTurn, ToolTypes, TurnRow
<1>8. /\ x \in {Ended} \cup RunRow /\ (x \in RunRow => RunFits(x))
      /\ turn'.status = "waiting" => Reserved(turn'.proposed)
      /\ \A s \in ToolSlot : x \in RunRow =>
            \/ run[r] \in RunRow /\ x.call[s] = run[r].call[s]
            \/ x.call[s].pc \in {"quiet", "start"}
  BY <1>4, <1>5, <1>7
<1>9. QED
  BY <1>6, <1>7, <1>8, ToolRunInv

\* A decision to allow is the policy's, or the user's answer to this very action.
LEMMA DecisionAllows ==
    ASSUME ToolInv, NEW r \in ToolRun, run[r] \in RunRow, NEW a \in ToolAction
    PROVE  /\ DecisionFor(r, a) = "allow" => Allowed(a)
           /\ DecisionFor(r, a) = "approval-required" => Reserved(a)
<1>1. CASE \E d \in {"allow", "deny"} : <<a, d>> \in run[r].decided
  <2>1. /\ DecisionFor(r, a) \in {"allow", "deny"}
        /\ <<a, DecisionFor(r, a)>> \in run[r].decided
    BY <1>1 DEF DecisionFor
  <2>2. DecisionFor(r, a) = "allow" => <<a, "allow">> \in resolved /\ Reserved(a)
    BY <2>1 DEF ToolInv, RunFits, AnswersFit
  <2>3. QED
    BY <2>1, <2>2 DEF Allowed
<1>2. CASE ~\E d \in {"allow", "deny"} : <<a, d>> \in run[r].decided
  BY <1>2 DEF DecisionFor, Allowed, Reserved
<1>3. QED
  BY <1>1, <1>2

\* A call of the run begins, or does not; the run may propose an action for approval.
LEMMA ToolAskInv ==
    ASSUME ToolInv, NEW r \in ToolRun, run[r].pc = "step", NEW s \in ToolSlot,
           NEW k \in ToolCallRow, k.pc \in {"quiet", "start"},
           k.pc = "start" => k.action \in ToolAction /\ Allowed(k.action),
           NEW p \in ToolAction \cup {NoAction}, p # NoAction => Reserved(p),
           NEW pc \in {"step", "left"},
           run' = [run EXCEPT ![r] = [run[r] EXCEPT !.calls = run[r].calls + 1,
                                      !.call = [run[r].call EXCEPT ![s] = k],
                                      !.proposed = p, !.pc = pc]],
           UNCHANGED <<policy, effect, turn, resolved, toolRow, performed>>
    PROVE  ToolInv'
<1>1. /\ run[r] \in RunRow /\ RunFits(run[r]) /\ run[r].call \in [ToolSlot -> ToolCallRow]
      /\ run[r].calls + 1 \in Nat
  BY ToolWorks
<1>2. PICK n \in Nat : n = run[r].calls + 1
  BY <1>1
<1>3. PICK kept \in [ToolSlot -> ToolCallRow] : kept = [run[r].call EXCEPT ![s] = k]
  BY <1>1
<1>4. PICK x : x = [run[r] EXCEPT !.calls = n, !.call = kept, !.proposed = p, !.pc = pc]
  OBVIOUS
<1>5. /\ x \in RunRow /\ x.call = kept /\ x.proposed = p /\ x.decided = run[r].decided
  BY <1>1, <1>2, <1>3, <1>4 DEF RunRow
<1>6. \A t \in ToolSlot : x.call[t] = run[r].call[t] \/ x.call[t] = k
  BY <1>1, <1>3, <1>5
<1>7. RunFits(x)
  BY <1>1, <1>5, <1>6 DEF RunFits
<1>8. run' = [run EXCEPT ![r] = x]
  BY <1>2, <1>3, <1>4
<1>9. turn' \in TurnRow /\ (turn'.status = "waiting" => Reserved(turn'.proposed))
  BY DEF ToolInv, ToolTypes, AnswersFit
<1>10. x \in {Ended} \cup RunRow /\ \A t \in ToolSlot : x \in RunRow =>
            \/ run[r] \in RunRow /\ x.call[t] = run[r].call[t]
            \/ x.call[t].pc \in {"quiet", "start"}
  BY <1>1, <1>5, <1>6
<1>11. QED
  BY <1>7, <1>8, <1>9, <1>10, ToolRunInv

LEMMA QuietFits == Quiet \in ToolCallRow /\ Quiet.pc = "quiet"
BY DEF Quiet, ToolCallRow

LEMMA StartFits ==
    ASSUME NEW a \in ToolAction
    PROVE  \E k \in ToolCallRow : k = [pc |-> "start", action |-> a] /\ k.pc = "start" /\ k.action = a
<1>1. PICK k : k = [pc |-> "start", action |-> a]
  OBVIOUS
<1>2. QED
  BY <1>1 DEF ToolCallRow

LEMMA DecideInv ==
    ASSUME ToolInv, NEW r \in ToolRun, NEW s \in ToolSlot, NEW a \in ToolAction, Decide(r, s, a)
    PROVE  ToolInv'
<1>1. /\ run[r].pc = "step" /\ UNCHANGED <<policy, effect, turn, resolved, toolRow, performed>>
  BY DEF Decide, Working
<1>2. /\ run[r] \in RunRow /\ RunFits(run[r]) /\ run[r].proposed \in ToolAction \cup {NoAction}
  BY <1>1, ToolWorks
<1>3. PICK d : d = DecisionFor(r, a)
  OBVIOUS
<1>4. (d = "allow" => Allowed(a)) /\ (d = "approval-required" => Reserved(a))
  BY <1>2, <1>3, DecisionAllows
<1>5. PICK k \in ToolCallRow :
        /\ k = IF d = "allow" THEN [pc |-> "start", action |-> a] ELSE Quiet
        /\ k.pc \in {"quiet", "start"}
        /\ k.pc = "start" => k.action \in ToolAction /\ Allowed(k.action)
  <2>1. CASE d = "allow"
    BY <1>4, <2>1, StartFits
  <2>2. CASE d # "allow"
    BY <2>2, QuietFits
  <2>3. QED
    BY <2>1, <2>2
<1>6. PICK p \in ToolAction \cup {NoAction} :
        /\ p = IF d = "approval-required" /\ run[r].proposed = NoAction THEN a ELSE run[r].proposed
        /\ p # NoAction => Reserved(p)
  BY <1>2, <1>4 DEF RunFits
<1>7. run' = [run EXCEPT ![r] = [run[r] EXCEPT !.calls = run[r].calls + 1,
                                 !.call = [run[r].call EXCEPT ![s] = k],
                                 !.proposed = p, !.pc = "step"]]
  <2>1. PICK x : x = [[run[r] EXCEPT !.calls = run[r].calls + 1] EXCEPT
                        !.call[s] = k, !.proposed = p]
    OBVIOUS
  <2>2. x = [run[r] EXCEPT !.calls = run[r].calls + 1,
                           !.call = [run[r].call EXCEPT ![s] = k], !.proposed = p, !.pc = "step"]
    BY <1>1, <1>2, <2>1 DEF RunRow
  <2>3. run' = [run EXCEPT ![r] = x]
    BY <1>2, <1>3, <1>5, <1>6, <2>1 DEF Decide, SetRun, RunRow
  <2>4. QED
    BY <2>2, <2>3
<1>8. QED
  BY <1>1, <1>5, <1>6, <1>7, ToolAskInv

LEMMA InvokeInv ==
    ASSUME ToolInv, NEW r \in ToolRun, NEW s \in ToolSlot, NEW a \in ToolAction, Invoke(r, s, a)
    PROVE  ToolInv'
<1>1. /\ run[r].pc = "step" /\ UNCHANGED <<policy, effect, turn, resolved, toolRow, performed>>
      /\ run[r].call[s] = Quiet
  BY DEF Invoke, Working, Call
<1>2. /\ run[r] \in RunRow /\ RunFits(run[r]) /\ run[r].proposed \in ToolAction \cup {NoAction}
      /\ run[r].call \in [ToolSlot -> ToolCallRow]
      /\ run[r].proposed # NoAction => Reserved(run[r].proposed)
  BY <1>1, ToolWorks DEF RunFits
<1>3. PICK d : d = DecisionFor(r, a)
  OBVIOUS
<1>4. (d = "allow" => Allowed(a)) /\ (d = "approval-required" => Reserved(a))
  BY <1>2, <1>3, DecisionAllows
<1>5. PICK count : count = [run[r] EXCEPT !.calls = run[r].calls + 1]
  OBVIOUS
<1>6. run' = [run EXCEPT ![r] =
        CASE d = "allow" -> [count EXCEPT !.call[s] = [pc |-> "start", action |-> a]]
          [] d = "approval-required" -> [count EXCEPT !.proposed = a, !.pc = "left"]
          [] OTHER -> count]
  BY <1>2, <1>3, <1>5 DEF Invoke, SetRun, RunRow
<1>7. CASE d = "allow"
  <2>1. PICK k \in ToolCallRow : k = [pc |-> "start", action |-> a] /\ k.pc = "start" /\ k.action = a
    BY StartFits
  <2>2. PICK x : x = [count EXCEPT !.call[s] = k]
    OBVIOUS
  <2>3. run' = [run EXCEPT ![r] = x]
    BY <1>6, <1>7, <2>1, <2>2
  <2>4. x = [run[r] EXCEPT !.calls = run[r].calls + 1,
                           !.call = [run[r].call EXCEPT ![s] = k], !.proposed = run[r].proposed,
                           !.pc = "step"]
    BY <1>1, <1>2, <1>5, <2>2 DEF RunRow
  <2>5. run' = [run EXCEPT ![r] = [run[r] EXCEPT !.calls = run[r].calls + 1,
                           !.call = [run[r].call EXCEPT ![s] = k], !.proposed = run[r].proposed,
                           !.pc = "step"]]
    BY <2>3, <2>4
  <2>6. QED
    BY <1>1, <1>2, <1>4, <1>7, <2>1, <2>5, ToolAskInv
<1>8. CASE d = "approval-required"
  <2>1. PICK x : x = [count EXCEPT !.proposed = a, !.pc = "left"]
    OBVIOUS
  <2>2. run' = [run EXCEPT ![r] = x]
    BY <1>6, <1>8, <2>1
  <2>3. x = [run[r] EXCEPT !.calls = run[r].calls + 1,
                           !.call = [run[r].call EXCEPT ![s] = Quiet], !.proposed = a, !.pc = "left"]
    BY <1>1, <1>2, <1>5, <2>1 DEF RunRow
  <2>4. run' = [run EXCEPT ![r] = [run[r] EXCEPT !.calls = run[r].calls + 1,
                           !.call = [run[r].call EXCEPT ![s] = Quiet], !.proposed = a, !.pc = "left"]]
    BY <2>2, <2>3
  <2>5. QED
    BY <1>1, <1>2, <1>4, <1>8, <2>4, QuietFits, ToolAskInv
<1>9. CASE d \notin {"allow", "approval-required"}
  <2>1. count = [run[r] EXCEPT !.calls = run[r].calls + 1,
                               !.call = [run[r].call EXCEPT ![s] = Quiet],
                               !.proposed = run[r].proposed, !.pc = "step"]
    BY <1>1, <1>2, <1>5 DEF RunRow
  <2>2. run' = [run EXCEPT ![r] = count]
    BY <1>6, <1>9
  <2>3. run' = [run EXCEPT ![r] = [run[r] EXCEPT !.calls = run[r].calls + 1,
                               !.call = [run[r].call EXCEPT ![s] = Quiet],
                               !.proposed = run[r].proposed, !.pc = "step"]]
    BY <2>1, <2>2
  <2>4. QED
    BY <1>1, <1>2, <2>3, QuietFits, ToolAskInv
<1>10. QED
  BY <1>7, <1>8, <1>9

\* A run ends, or drops its proposal and reads the answers again; the generation moves along.
LEMMA ToolEndInv ==
    ASSUME ToolInv, NEW r \in ToolRun, NEW x \in {Ended} \cup RunRow, run' = [run EXCEPT ![r] = x],
           UNCHANGED <<policy, effect, resolved, toolRow, performed>>,
           turn' \in TurnRow, turn'.status = "waiting" => Reserved(turn'.proposed),
           \/ x = Ended
           \/ /\ run[r] \in RunRow
              /\ x.call = run[r].call
              /\ x.decided = run[r].decided \/ x.decided = resolved
              /\ x.proposed = run[r].proposed \/ x.proposed = NoAction
    PROVE  ToolInv'
<1>1. Ended \notin RunRow
  BY DEF Ended, RunRow
<1>2. x \in RunRow => run[r] \in RunRow /\ RunFits(run[r]) /\ x.call = run[r].call
  BY <1>1 DEF ToolInv
<1>3. x \in RunRow => RunFits(x)
  BY <1>1, <1>2 DEF RunFits
<1>4. \A s \in ToolSlot : x \in RunRow =>
        \/ run[r] \in RunRow /\ x.call[s] = run[r].call[s]
        \/ x.call[s].pc \in {"quiet", "start"}
  BY <1>2
<1>5. QED
  BY <1>3, <1>4, ToolRunInv

LEMMA TakeSteeringInv == ASSUME ToolInv, NEW r \in ToolRun, TakeSteering(r) PROVE ToolInv'
<1>1. /\ turn' \in TurnRow /\ turn'.status = turn.status /\ turn'.proposed = turn.proposed
      /\ UNCHANGED <<policy, effect, toolRow, run, performed, resolved>>
  BY DEF TakeSteering, ToolInv, ToolTypes, TurnRow
<1>2. resolved \subseteq Answer /\ AnswersFit
  BY DEF ToolInv, ToolTypes
<1>3. QED
  BY <1>1, <1>2, ToolTurnInv DEF AnswersFit

LEMMA PauseForApprovalInv == ASSUME ToolInv, NEW r \in ToolRun, PauseForApproval(r) PROVE ToolInv'
<1>1. /\ run[r] \in RunRow /\ RunFits(run[r]) /\ turn \in TurnRow /\ resolved \subseteq Answer
      /\ run[r].proposed # NoAction /\ run[r].proposed \in ToolAction \cup {NoAction}
      /\ UNCHANGED <<policy, effect, resolved, toolRow, performed>>
      /\ turn.status = "waiting" => Reserved(turn.proposed)
  BY ToolWorks DEF PauseForApproval, Working, ToolInv, ToolTypes, AnswersFit
<1>2. CASE turn.steered
  <2>1. PICK x : x = [run[r] EXCEPT !.proposed = NoAction, !.decided = resolved]
    OBVIOUS
  <2>2. x \in RunRow /\ x.call = run[r].call /\ x.decided = resolved /\ x.proposed = NoAction
    BY <1>1, <2>1 DEF RunRow
  <2>3. run' = [run EXCEPT ![r] = x] /\ turn' = turn
    BY <1>2, <2>1 DEF PauseForApproval, SetRun
  <2>4. QED
    BY <1>1, <2>2, <2>3, ToolEndInv
<1>3. CASE ~turn.steered
  <2>1. turn' = [turn EXCEPT !.status = "waiting", !.holder = NoAction, !.proposed = run[r].proposed]
        /\ run' = [run EXCEPT ![r] = Ended]
    BY <1>3 DEF PauseForApproval, SetRun
  <2>2. turn' \in TurnRow /\ turn'.proposed = run[r].proposed
    BY <1>1, <2>1 DEF TurnRow
  <2>3. Reserved(turn'.proposed)
    BY <1>1, <2>2 DEF RunFits
  <2>4. QED
    BY <1>1, <2>1, <2>2, <2>3, ToolEndInv
<1>4. QED
  BY <1>2, <1>3

LEMMA LeaveForApprovalInv == ASSUME ToolInv, NEW r \in ToolRun, LeaveForApproval(r) PROVE ToolInv'
<1>1. /\ run[r] \in RunRow /\ RunFits(run[r]) /\ turn \in TurnRow
      /\ run[r].proposed # NoAction /\ run[r].proposed \in ToolAction \cup {NoAction}
      /\ UNCHANGED <<policy, effect, resolved, toolRow, performed>>
      /\ turn.status = "waiting" => Reserved(turn.proposed)
  BY ToolWorks DEF LeaveForApproval, ToolInv, ToolTypes, AnswersFit
<1>2. turn' \in TurnRow
  BY <1>1 DEF LeaveForApproval, TurnRow
<1>3. turn'.status = "waiting" => Reserved(turn'.proposed)
  <2>1. CASE turn.steered
    BY <1>1, <2>1 DEF LeaveForApproval, TurnRow
  <2>2. CASE ~turn.steered
    <3>1. turn'.proposed = run[r].proposed
      BY <1>1, <2>2 DEF LeaveForApproval, TurnRow
    <3>2. QED
      BY <1>1, <3>1 DEF RunFits
  <2>3. QED
    BY <2>1, <2>2
<1>4. PICK x : x = [run[r] EXCEPT !.proposed = NoAction]
  OBVIOUS
<1>5. x \in RunRow /\ x.call = run[r].call /\ x.decided = run[r].decided /\ x.proposed = NoAction
  BY <1>1, <1>4 DEF RunRow
<1>6. run' = [run EXCEPT ![r] = x]
  BY <1>4 DEF LeaveForApproval, SetRun
<1>7. QED
  BY <1>1, <1>2, <1>3, <1>5, <1>6, ToolEndInv

LEMMA UnwindInv == ASSUME ToolInv, NEW r \in ToolRun, Unwind(r) PROVE ToolInv'
<1>1. /\ run' = [run EXCEPT ![r] = Ended]
      /\ UNCHANGED <<policy, effect, turn, resolved, toolRow, performed>>
  BY DEF Unwind, SetRun
<1>2. turn' \in TurnRow /\ (turn'.status = "waiting" => Reserved(turn'.proposed))
  BY <1>1 DEF ToolInv, ToolTypes, AnswersFit
<1>3. QED
  BY <1>1, <1>2, ToolEndInv

LEMMA FinishRunInv == ASSUME ToolInv, NEW r \in ToolRun, FinishRun(r) PROVE ToolInv'
<1>1. /\ run' = [run EXCEPT ![r] = Ended]
      /\ UNCHANGED <<policy, effect, resolved, toolRow, performed>>
  BY DEF FinishRun, SetRun
<1>2. turn' \in TurnRow /\ (turn'.status = "waiting" => Reserved(turn'.proposed))
  <2>1. turn \in TurnRow /\ (turn.status = "waiting" => Reserved(turn.proposed))
    BY DEF ToolInv, ToolTypes, AnswersFit
  <2>2. \/ turn' = turn
        \/ turn' = [turn EXCEPT !.status = "succeeded", !.holder = NoAction]
        \/ turn' = [turn EXCEPT !.status = "failed", !.holder = NoAction]
    BY DEF FinishRun
  <2>5. turn' # turn => turn' \in TurnRow /\ turn'.status # "waiting"
    BY <2>1, <2>2 DEF TurnRow
  <2>6. QED
    BY <2>1, <2>5 DEF Reserved
<1>3. QED
  BY <1>1, <1>2, ToolEndInv

LEMMA LoseLeaseInv == ASSUME ToolInv, NEW r \in ToolRun, LoseLease(r) PROVE ToolInv'
<1>1. /\ UNCHANGED <<policy, effect, resolved, toolRow, performed>> /\ run \in [ToolRun -> {Waiting, Ended} \cup RunRow]
      /\ run[r] \in RunRow
  BY ToolWorks DEF LoseLease, ToolInv, ToolTypes
<1>2. turn' \in TurnRow /\ (turn'.status = "waiting" => Reserved(turn'.proposed))
  BY DEF LoseLease, ToolInv, ToolTypes, AnswersFit, TurnRow
<1>3. CASE run' = run
  <2>1. run' = [run EXCEPT ![r] = run[r]]
    BY <1>1, <1>3
  <2>2. QED
    BY <1>1, <1>2, <2>1, ToolEndInv
<1>4. CASE SetRun(r, Ended)
  BY <1>1, <1>2, <1>4, ToolEndInv DEF SetRun
<1>5. QED
  BY <1>3, <1>4 DEF LoseLease

LEMMA NextAttemptFits ==
    ASSUME turn \in TurnRow, turn' = NextAttempt
    PROVE  turn' \in TurnRow /\ turn'.status = "queued"
<1>1. turn.attempt + 1 \in Nat
  BY DEF TurnRow
<1>2. PICK n \in Nat : n = turn.attempt + 1
  BY <1>1
<1>3. turn' = [turn EXCEPT !.status = "queued", !.attempt = n, !.holder = NoAction, !.proposed = NoAction]
  BY <1>2 DEF NextAttempt, TurnRow
<1>4. QED
  BY <1>3 DEF TurnRow

LEMMA ResolvePermissionInv == ASSUME ToolInv, ResolvePermission PROVE ToolInv'
<1>1. PICK d \in {"allow", "deny"} :
        /\ turn.status = "waiting" /\ turn' = NextAttempt
        /\ resolved' = resolved \cup {<<turn.proposed, d>>}
        /\ UNCHANGED <<policy, effect, toolRow, run, performed>>
  BY DEF ResolvePermission
<1>2. /\ turn \in TurnRow /\ AnswersFit /\ resolved \subseteq Answer
      /\ turn.proposed \in ToolAction \cup {NoAction} /\ Reserved(turn.proposed)
  BY <1>1 DEF ToolInv, ToolTypes, AnswersFit, TurnRow
<1>3. turn' \in TurnRow /\ turn'.status = "queued"
  BY <1>1, <1>2, NextAttemptFits
<1>4. resolved \subseteq resolved' /\ resolved' \subseteq Answer
  BY <1>1, <1>2 DEF Answer
<1>5. ASSUME NEW a \in ToolAction \cup {NoAction}, NEW e \in {"allow", "deny"}, <<a, e>> \in resolved'
      PROVE  Reserved(a)
  BY <1>1, <1>2, <1>5 DEF AnswersFit
<1>6. QED
  BY <1>1, <1>3, <1>4, <1>5, ToolTurnInv

LEMMA RetryTurnInv == ASSUME ToolInv, RetryTurn PROVE ToolInv'
<1>1. turn \in TurnRow /\ AnswersFit /\ resolved \subseteq Answer
  BY DEF ToolInv, ToolTypes
<1>2. turn' \in TurnRow /\ turn'.status = "queued"
  BY <1>1, NextAttemptFits DEF RetryTurn
<1>3. UNCHANGED <<policy, effect, resolved, toolRow, run, performed>>
  BY DEF RetryTurn
<1>4. QED
  BY <1>1, <1>2, <1>3, ToolTurnInv DEF AnswersFit

LEMMA SteerTurnInv == ASSUME ToolInv, SteerTurn PROVE ToolInv'
<1>1. /\ turn' \in TurnRow /\ turn'.status = turn.status /\ turn'.proposed = turn.proposed
      /\ UNCHANGED <<policy, effect, toolRow, run, performed, resolved>>
  BY DEF SteerTurn, ToolInv, ToolTypes, TurnRow
<1>2. resolved \subseteq Answer /\ AnswersFit
  BY DEF ToolInv, ToolTypes
<1>3. QED
  BY <1>1, <1>2, ToolTurnInv DEF AnswersFit

\* A step of a call on an external effect: it makes the row and so becomes its owner, is the
\* owner, or leaves the row and the count to another.
CallStepFits(r, s, a, k, row, n) == effect[a] = "external" =>
    /\ k.pc \in {"execute", "succeed", "fail"} =>
         row # NoCall /\ (Owns(r, s) \/ toolRow[a] = NoCall)
    /\ k.pc = "execute" => n = 0
    /\ k.pc = "succeed" => n = 1
    /\ Owns(r, s) \/ toolRow[a] = NoCall \/ (row = toolRow[a] /\ n = performed[a])
    /\ n <= 1
    /\ row = NoCall => n = 0
    /\ row # NoCall /\ row.status = "succeeded" => n = 1

\* A call moves on, and its row and the count of its effect with it.
LEMMA ToolCallInv ==
    ASSUME ToolInv, NEW r \in ToolRun, run[r].pc \in {"step", "left"}, NEW s \in ToolSlot,
           run[r].call[s].pc # "quiet",
           NEW k \in ToolCallRow, k = Quiet \/ k.action = run[r].call[s].action,
           run' = [run EXCEPT ![r].call[s] = k],
           UNCHANGED <<policy, effect, turn, resolved>>,
           NEW row \in {NoCall} \cup EffectRow, NEW n \in Nat, NEW a,
           a = run[r].call[s].action,
           toolRow' = [toolRow EXCEPT ![a] = row],
           performed' = [performed EXCEPT ![a] = n],
           CallStepFits(r, s, a, k, row, n)
    PROVE  ToolInv'
<1>0. effect[a] = "external" =>
    /\ k.pc \in {"execute", "succeed", "fail"} =>
         row # NoCall /\ (Owns(r, s) \/ toolRow[a] = NoCall)
    /\ k.pc = "execute" => n = 0
    /\ k.pc = "succeed" => n = 1
    /\ Owns(r, s) \/ toolRow[a] = NoCall \/ (row = toolRow[a] /\ n = performed[a])
    /\ n <= 1
    /\ row = NoCall => n = 0
    /\ row # NoCall /\ row.status = "succeeded" => n = 1
  BY DEF CallStepFits
<1>1. /\ run[r] \in RunRow /\ RunFits(run[r]) /\ run[r].call \in [ToolSlot -> ToolCallRow]
      /\ ToolTypes /\ a \in ToolAction /\ Allowed(a)
  BY ToolWorks DEF ToolInv, RunFits
<1>2. PICK kept \in [ToolSlot -> ToolCallRow] : kept = [run[r].call EXCEPT ![s] = k]
  BY <1>1
<1>3. PICK x : x = [run[r] EXCEPT !.call = kept]
  OBVIOUS
<1>4. x \in RunRow /\ x.call = kept /\ x.decided = run[r].decided /\ x.proposed = run[r].proposed
  BY <1>1, <1>2, <1>3 DEF RunRow
<1>5. run' = [run EXCEPT ![r] = x]
  BY <1>1, <1>2, <1>3 DEF ToolTypes, RunRow
<1>6. /\ run'[r] = x /\ x.call[s] = k
      /\ \A t \in ToolSlot : t # s => x.call[t] = run[r].call[t]
      /\ \A q \in ToolRun : q # r => run'[q] = run[q]
      /\ toolRow'[a] = row /\ performed'[a] = n
      /\ \A b \in ToolAction : b # a => toolRow'[b] = toolRow[b] /\ performed'[b] = performed[b]
  BY <1>1, <1>2, <1>4, <1>5 DEF ToolTypes
<1>7. ToolTypes'
  BY <1>1, <1>4, <1>5 DEF ToolTypes
<1>8. AnswersFit'
  BY DEF ToolInv, AnswersFit, Reserved
<1>9. RunFits(x)
  BY <1>1, <1>4, <1>6, QuietFits DEF RunFits
<1>10. ASSUME NEW q \in ToolRun, run'[q] \in RunRow PROVE RunFits(run[q])'
  <2>1. run'[q] = x \/ run'[q] = run[q]
    BY <1>6
  <2>2. RunFits(run'[q])
    BY <1>9, <1>10, <2>1, <1>6 DEF ToolInv
  <2>3. QED
    BY <2>2 DEF RunFits, Allowed, Reserved
<1>11. ASSUME NEW q \in ToolRun, NEW t \in ToolSlot, Owns(q, t)', <<q, t>> # <<r, s>>
       PROVE  Owns(q, t) /\ run'[q].call[t] = run[q].call[t]
  <2>1. CASE q = r
    BY <1>1, <1>6, <1>11, <2>1 DEF Owns, Call
  <2>2. CASE q # r
    BY <1>6, <1>11, <2>2 DEF Owns, Call
  <2>3. QED
    BY <2>1, <2>2
<1>12. ASSUME Owns(r, s)'
       PROVE  /\ k.pc \in {"execute", "succeed", "fail"} /\ k.action = a /\ effect[a] = "external"
              /\ Owns(r, s) \/ toolRow[a] = NoCall
  <2>1. k.pc \in {"execute", "succeed", "fail"} /\ effect[k.action] = "external"
    BY <1>6, <1>12 DEF Owns, Call
  <2>2. k.action = a
    BY <2>1, QuietFits
  <2>3. QED
    BY <1>0, <2>1, <2>2
\* no other call owns the action of this one
<1>13. ASSUME NEW q \in ToolRun, NEW t \in ToolSlot, Owns(q, t), <<q, t>> # <<r, s>>,
              run[q].call[t].action = a
       PROVE  ~Owns(r, s) /\ toolRow[a] # NoCall
  BY <1>13 DEF ToolInv, OneOwner, OwnerKnows, Call
<1>14. OneOwner'
  <2> SUFFICES ASSUME NEW q \in ToolRun, NEW p \in ToolRun, NEW t \in ToolSlot, NEW u \in ToolSlot,
                      Owns(q, t)', Owns(p, u)', run'[q].call[t].action = run'[p].call[u].action
               PROVE  q = p /\ t = u
    BY DEF OneOwner, Call
  <2>1. CASE <<q, t>> = <<r, s>> /\ <<p, u>> # <<r, s>>
    BY <1>6, <1>11, <1>12, <1>13, <2>1
  <2>2. CASE <<q, t>> # <<r, s>> /\ <<p, u>> = <<r, s>>
    BY <1>6, <1>11, <1>12, <1>13, <2>2
  <2>3. CASE <<q, t>> # <<r, s>> /\ <<p, u>> # <<r, s>>
    BY <1>11, <2>3 DEF ToolInv, OneOwner, Call
  <2>4. QED
    BY <2>1, <2>2, <2>3
<1>15. OwnerKnows'
  <2> SUFFICES ASSUME NEW q \in ToolRun, NEW t \in ToolSlot, Owns(q, t)'
               PROVE  LET c == run'[q].call[t] IN
                      /\ toolRow'[c.action] # NoCall
                      /\ c.pc = "execute" => performed'[c.action] = 0
                      /\ c.pc = "succeed" => performed'[c.action] = 1
    BY DEF OwnerKnows, Call
  <2>1. CASE <<q, t>> = <<r, s>>
    <3>1. q = r /\ t = s /\ Owns(r, s)'
      BY <2>1
    <3>2. run'[q].call[t] = k
      BY <1>6, <3>1
    <3>3. QED
      BY <1>0, <1>6, <1>12, <3>1, <3>2
  <2>2. CASE <<q, t>> # <<r, s>>
    <3>1. Owns(q, t) /\ run'[q].call[t] = run[q].call[t] /\ effect[run[q].call[t].action] = "external"
      BY <1>11, <2>2 DEF Owns, Call
    <3>2. run[q] \in RunRow /\ RunFits(run[q])
      BY <3>1 DEF Owns, ToolInv
    <3>3. run[q].call[t].action \in ToolAction
      BY <3>1, <3>2 DEF Owns, Call, RunFits
    <3>4. /\ toolRow[run[q].call[t].action] # NoCall
          /\ run[q].call[t].pc = "execute" => performed[run[q].call[t].action] = 0
          /\ run[q].call[t].pc = "succeed" => performed[run[q].call[t].action] = 1
      BY <3>1 DEF ToolInv, OwnerKnows, Call
    <3>5. CASE run[q].call[t].action = a
      BY <1>0, <1>6, <1>13, <2>2, <3>1, <3>4, <3>5
    <3>6. CASE run[q].call[t].action # a
      BY <1>6, <3>1, <3>3, <3>4, <3>6
    <3>7. QED
      BY <3>5, <3>6
  <2>3. QED
    BY <2>1, <2>2
<1>16. EffectsFit'
  BY <1>0, <1>6 DEF ToolInv, EffectsFit
<1>17. OnlyApprovedActionsRun'
  BY <1>1, <1>6 DEF ToolInv, OnlyApprovedActionsRun, Allowed, Reserved
<1>18. QED
  BY <1>7, <1>8, <1>10, <1>14, <1>15, <1>16, <1>17 DEF ToolInv

\* What is known of a call in a run, its row and the count of its effect.
LEMMA ToolCallFacts ==
    ASSUME ToolInv, NEW r \in ToolRun, NEW s \in ToolSlot, run[r].pc \in {"step", "left"},
           Call(r, s).pc # "quiet"
    PROVE  /\ Call(r, s) = run[r].call[s] /\ Call(r, s) \in ToolCallRow
           /\ Call(r, s).action \in ToolAction
           /\ LET a == Call(r, s).action IN
              /\ toolRow[a] \in {NoCall} \cup EffectRow /\ performed[a] \in Nat
              /\ toolRow = [toolRow EXCEPT ![a] = toolRow[a]]
              /\ performed = [performed EXCEPT ![a] = performed[a]]
              /\ effect[a] = "external" =>
                   /\ performed[a] <= 1
                   /\ toolRow[a] = NoCall => performed[a] = 0
                   /\ toolRow[a] # NoCall /\ toolRow[a].status = "succeeded" => performed[a] = 1
                   /\ Call(r, s).pc \in {"execute", "succeed", "fail"} =>
                        Owns(r, s) /\ toolRow[a] # NoCall
                   /\ Call(r, s).pc = "execute" => performed[a] = 0
                   /\ Call(r, s).pc = "succeed" => performed[a] = 1
<1>1. /\ run[r] \in RunRow /\ RunFits(run[r]) /\ run[r].call \in [ToolSlot -> ToolCallRow]
      /\ ToolTypes
  BY ToolWorks DEF ToolInv
<1>2. PICK a : a = Call(r, s).action
  OBVIOUS
<1>3. a \in ToolAction /\ Call(r, s) = run[r].call[s] /\ Call(r, s) \in ToolCallRow
  BY <1>1, <1>2 DEF RunFits, Call
<1>4. effect[a] = "external" => (Call(r, s).pc \in {"execute", "succeed", "fail"} => Owns(r, s))
  BY <1>1, <1>2 DEF Owns
<1>5. effect[a] = "external" =>
        /\ performed[a] <= 1
        /\ toolRow[a] = NoCall => performed[a] = 0
        /\ toolRow[a] # NoCall /\ toolRow[a].status = "succeeded" => performed[a] = 1
  BY <1>3 DEF ToolInv, EffectsFit
<1>6. Owns(r, s) =>
        /\ toolRow[a] # NoCall
        /\ Call(r, s).pc = "execute" => performed[a] = 0
        /\ Call(r, s).pc = "succeed" => performed[a] = 1
  BY <1>2 DEF ToolInv, OwnerKnows
<1>7. toolRow[a] \in {NoCall} \cup EffectRow /\ performed[a] \in Nat
  BY <1>1, <1>3 DEF ToolTypes
<1>8. toolRow = [toolRow EXCEPT ![a] = toolRow[a]] /\ performed = [performed EXCEPT ![a] = performed[a]]
  BY <1>1, <1>3 DEF ToolTypes
<1>9. QED
  BY <1>2, <1>3, <1>4, <1>5, <1>6, <1>7, <1>8

\* The state of a call changes and its action stays.
LEMMA CallMoves ==
    ASSUME NEW c \in ToolCallRow, NEW pc \in {"execute", "succeed", "fail"}
    PROVE  \E k \in ToolCallRow : k = [c EXCEPT !.pc = pc] /\ k.pc = pc /\ k.action = c.action
<1>1. PICK k : k = [c EXCEPT !.pc = pc]
  OBVIOUS
<1>2. QED
  BY <1>1 DEF ToolCallRow

LEMMA StartCallInv ==
    ASSUME ToolInv, NEW r \in ToolRun, NEW s \in ToolSlot, StartCall(r, s) PROVE ToolInv'
<1>1. /\ run[r].pc \in {"step", "left"} /\ Call(r, s).pc = "start"
      /\ UNCHANGED <<policy, effect, turn, resolved, performed>>
  BY DEF StartCall, InStep
<1>2. PICK a : a = Call(r, s).action
  OBVIOUS
<1>3. /\ Call(r, s) = run[r].call[s] /\ Call(r, s) \in ToolCallRow /\ a \in ToolAction
      /\ run[r].attempt \in Nat
      /\ toolRow[a] \in {NoCall} \cup EffectRow /\ performed[a] \in Nat
      /\ toolRow = [toolRow EXCEPT ![a] = toolRow[a]]
      /\ performed' = [performed EXCEPT ![a] = performed[a]]
      /\ effect[a] = "external" =>
           /\ performed[a] <= 1
           /\ toolRow[a] = NoCall => performed[a] = 0
           /\ toolRow[a] # NoCall /\ toolRow[a].status = "succeeded" => performed[a] = 1
  BY <1>1, <1>2, ToolCallFacts, ToolWorks
<1>4. PICK go \in ToolCallRow : go = [Call(r, s) EXCEPT !.pc = "execute"] /\ go.pc = "execute"
                                /\ go.action = a
  BY <1>2, <1>3, CallMoves
<1>5. PICK made \in EffectRow : made = [status |-> "pending", attempt |-> run[r].attempt]
                               /\ made.status = "pending" /\ made # NoCall
  <2>1. PICK made : made = [status |-> "pending", attempt |-> run[r].attempt]
    OBVIOUS
  <2>2. made \in EffectRow /\ made # NoCall /\ made.status = "pending"
    BY <1>3, <2>1 DEF EffectRow, NoCall
  <2>3. QED
    BY <2>1, <2>2
<1>6. CASE Fenced(r) /\ Existing(r, a) = NoCall
  <2>1. SetCall(r, s, go) \/ SetCall(r, s, Quiet)
    BY <1>2, <1>4, <1>6 DEF StartCall
  <2>2. PICK k \in ToolCallRow : (k = go \/ k = Quiet) /\ run' = [run EXCEPT ![r].call[s] = k]
    BY <2>1, QuietFits DEF SetCall
  <2>3. k = Quiet \/ k.action = a
    BY <1>4, <2>2
  <2>4. k.pc \notin {"succeed", "fail"}
    BY <1>4, <2>2, QuietFits
  <2>5. CASE effect[a] = "external"
    <3>1. toolRow' = [toolRow EXCEPT ![a] = made] /\ toolRow[a] = NoCall
      BY <1>2, <1>5, <1>6, <2>5 DEF StartCall, Existing
    <3>2. QED
      <4>1. CallStepFits(r, s, a, k, made, performed[a])
        BY <1>3, <1>5, <2>4, <3>1 DEF CallStepFits
      <4>2. QED
        <5>1. made \in {NoCall} \cup EffectRow
          OBVIOUS
        <5>2. QED
          BY <1>1, <1>2, <1>3, <2>2, <2>3, <3>1, <4>1, <5>1, ToolCallInv
  <2>6. CASE effect[a] # "external"
    <3>1. toolRow' = [toolRow EXCEPT ![a] = toolRow[a]]
      BY <1>2, <1>3, <1>6, <2>6 DEF StartCall
    <3>2. QED
      <4>1. CallStepFits(r, s, a, k, toolRow[a], performed[a])
        BY <2>6 DEF CallStepFits
      <4>2. QED
        BY <1>1, <1>2, <1>3, <2>2, <2>3, <3>1, <4>1, ToolCallInv
  <2>7. QED
    BY <2>5, <2>6
<1>7. CASE ~(Fenced(r) /\ Existing(r, a) = NoCall)
  <2>1. run' = [run EXCEPT ![r].call[s] = Quiet] /\ toolRow' = [toolRow EXCEPT ![a] = toolRow[a]]
    BY <1>2, <1>3, <1>7 DEF StartCall, SetCall
  <2>2. QED
    <3>1. CallStepFits(r, s, a, Quiet, toolRow[a], performed[a])
      BY <1>3, QuietFits DEF CallStepFits
    <3>2. QED
      BY <1>1, <1>2, <1>3, <2>1, <3>1, QuietFits, ToolCallInv
<1>8. QED
  BY <1>6, <1>7

LEMMA PerformInv ==
    ASSUME ToolInv, NEW r \in ToolRun, NEW s \in ToolSlot, Perform(r, s) PROVE ToolInv'
<1>1. /\ run[r].pc \in {"step", "left"} /\ Call(r, s).pc = "execute"
      /\ UNCHANGED <<policy, effect, turn, resolved, toolRow>>
  BY DEF Perform, InStep
<1>2. PICK a : a = Call(r, s).action
  OBVIOUS
<1>3. /\ Call(r, s) = run[r].call[s] /\ Call(r, s) \in ToolCallRow /\ a \in ToolAction
      /\ toolRow[a] \in {NoCall} \cup EffectRow /\ performed[a] \in Nat
      /\ toolRow' = [toolRow EXCEPT ![a] = toolRow[a]]
      /\ effect[a] = "external" =>
           /\ Owns(r, s) /\ toolRow[a] # NoCall /\ performed[a] = 0
           /\ toolRow[a].status = "succeeded" => performed[a] = 1
  BY <1>1, <1>2, ToolCallFacts
<1>4. PICK ok \in BOOLEAN, happened \in BOOLEAN :
        /\ ok => happened
        /\ performed' = [performed EXCEPT ![a] = IF happened THEN performed[a] + 1 ELSE performed[a]]
        /\ SetCall(r, s, [Call(r, s) EXCEPT !.pc = IF ok THEN "succeed" ELSE "fail"])
  <2>1. performed \in [ToolAction -> Nat]
    BY DEF ToolInv, ToolTypes
  <2>2. QED
    BY <1>2, <1>3, <2>1 DEF Perform
<1>5. PICK pc \in {"succeed", "fail"} : pc = IF ok THEN "succeed" ELSE "fail"
  OBVIOUS
<1>6. PICK k \in ToolCallRow : k = [Call(r, s) EXCEPT !.pc = pc] /\ k.pc = pc /\ k.action = a
  <2>1. pc \in {"execute", "succeed", "fail"}
    BY <1>5
  <2>2. \E k \in ToolCallRow : k = [Call(r, s) EXCEPT !.pc = pc] /\ k.pc = pc
                                /\ k.action = Call(r, s).action
    BY <1>3, <2>1, CallMoves
  <2>3. QED
    BY <1>2, <2>2
<1>7. run' = [run EXCEPT ![r].call[s] = k]
  BY <1>4, <1>5, <1>6 DEF SetCall
<1>8. PICK n \in Nat : n = IF happened THEN performed[a] + 1 ELSE performed[a]
  BY <1>3
<1>9. performed' = [performed EXCEPT ![a] = n]
  BY <1>4, <1>8
<1>10. effect[a] = "external" =>
        /\ n <= 1 /\ toolRow[a] # NoCall /\ Owns(r, s)
        /\ k.pc = "succeed" => n = 1
        /\ toolRow[a].status # "succeeded"
  BY <1>3, <1>4, <1>5, <1>6, <1>8
<1>11. QED
  <2>1. CallStepFits(r, s, a, k, toolRow[a], n)
    BY <1>5, <1>6, <1>10 DEF CallStepFits
  <2>2. QED
    BY <1>1, <1>2, <1>3, <1>6, <1>7, <1>9, <2>1, ToolCallInv

LEMMA SettleCallInv ==
    ASSUME ToolInv, NEW r \in ToolRun, NEW s \in ToolSlot, SettleCall(r, s) PROVE ToolInv'
<1>1. /\ run[r].pc \in {"step", "left"} /\ Call(r, s).pc \in {"succeed", "fail"}
      /\ UNCHANGED <<policy, effect, turn, resolved, performed>>
  BY DEF SettleCall, InStep
<1>2. PICK a : a = Call(r, s).action
  OBVIOUS
<1>3. /\ Call(r, s) = run[r].call[s] /\ Call(r, s) \in ToolCallRow /\ a \in ToolAction
      /\ toolRow[a] \in {NoCall} \cup EffectRow /\ performed[a] \in Nat
      /\ toolRow = [toolRow EXCEPT ![a] = toolRow[a]]
      /\ performed' = [performed EXCEPT ![a] = performed[a]]
      /\ effect[a] = "external" =>
           /\ performed[a] <= 1 /\ Owns(r, s) /\ toolRow[a] # NoCall
           /\ toolRow[a].status = "succeeded" => performed[a] = 1
           /\ Call(r, s).pc = "succeed" => performed[a] = 1
  BY <1>1, <1>2, ToolCallFacts
<1>4. PICK fail \in ToolCallRow : fail = [Call(r, s) EXCEPT !.pc = "fail"] /\ fail.pc = "fail"
                                  /\ fail.action = a
  BY <1>2, <1>3, CallMoves
\* the call ends, or its success is reported as a failure next
<1>5. PICK k \in ToolCallRow : (k = fail \/ k = Quiet) /\ run' = [run EXCEPT ![r].call[s] = k]
  BY <1>4, QuietFits DEF SettleCall, SetCall
<1>6. k.pc \in {"quiet", "fail"} /\ (k = Quiet \/ k.action = a)
  BY <1>4, <1>5, QuietFits
<1>7. CASE toolRow' = toolRow
  <2>1. toolRow' = [toolRow EXCEPT ![a] = toolRow[a]]
    BY <1>3, <1>7
  <2>2. QED
    <3>1. CallStepFits(r, s, a, k, toolRow[a], performed[a])
      BY <1>3, <1>6 DEF CallStepFits
    <3>2. QED
      BY <1>1, <1>2, <1>3, <1>5, <1>6, <2>1, <3>1, ToolCallInv
<1>8. CASE /\ effect[a] = "external" /\ toolRow[a] # NoCall
           /\ toolRow' = [toolRow EXCEPT ![a].status =
                            IF Call(r, s).pc = "succeed" THEN "succeeded" ELSE "failed"]
  <2>1. toolRow[a] \in EffectRow
    BY <1>3, <1>8
  <2>2. PICK st \in {"succeeded", "failed"} :
          st = IF Call(r, s).pc = "succeed" THEN "succeeded" ELSE "failed"
    OBVIOUS
  <2>3. PICK row : row = [toolRow[a] EXCEPT !.status = st]
    OBVIOUS
  <2>4. row \in EffectRow /\ row.status = st
    BY <2>1, <2>3 DEF EffectRow
  <2>5. row # NoCall
    BY <2>4, <2>2 DEF NoCall
  <2>6. toolRow' = [toolRow EXCEPT ![a] = row]
    BY <1>3, <1>8, <2>2, <2>3
  <2>7. row.status = "succeeded" => performed[a] = 1
    BY <1>3, <1>8, <2>2, <2>4
  <2>8. QED
    <3>1. CallStepFits(r, s, a, k, row, performed[a])
      BY <1>3, <1>6, <2>5, <2>7 DEF CallStepFits
    <3>2. row \in {NoCall} \cup EffectRow
      BY <2>4
    <3>3. QED
      BY <1>1, <1>2, <1>3, <1>5, <1>6, <2>6, <3>1, <3>2, ToolCallInv
<1>9. QED
  BY <1>2, <1>7, <1>8 DEF SettleCall

LEMMA ToolNextInv == ToolInv /\ [ToolsNext]_toolVars => ToolInv'
<1> SUFFICES ASSUME ToolInv, [ToolsNext]_toolVars PROVE ToolInv'
  OBVIOUS
<1>1. CASE UNCHANGED toolVars
  <2>1. /\ UNCHANGED <<policy, effect, turn, resolved, toolRow, run, performed>>
        /\ turn \in TurnRow /\ resolved \subseteq Answer /\ AnswersFit
    BY <1>1 DEF toolVars, ToolInv, ToolTypes
  <2>2. QED
    BY <2>1, ToolTurnInv DEF AnswersFit
<1>2. CASE ResolvePermission \/ RetryTurn \/ SteerTurn
  BY <1>2, ResolvePermissionInv, RetryTurnInv, SteerTurnInv
<1>3. ASSUME NEW r \in ToolRun,
             \/ TakeTurn(r) \/ TakeSteering(r) \/ PauseForApproval(r) \/ LeaveForApproval(r)
             \/ Unwind(r) \/ FinishRun(r) \/ LoseLease(r)
      PROVE  ToolInv'
  BY <1>3, TakeTurnInv, TakeSteeringInv, PauseForApprovalInv, LeaveForApprovalInv, UnwindInv,
     FinishRunInv, LoseLeaseInv
<1>4. ASSUME NEW r \in ToolRun, NEW s \in ToolSlot, StartCall(r, s) \/ Perform(r, s) \/ SettleCall(r, s)
      PROVE  ToolInv'
  BY <1>4, StartCallInv, PerformInv, SettleCallInv
<1>5. ASSUME NEW r \in ToolRun, NEW s \in ToolSlot, NEW a \in ToolAction,
             Decide(r, s, a) \/ Invoke(r, s, a)
      PROVE  ToolInv'
  BY <1>5, DecideInv, InvokeInv
<1>6. QED
  BY <1>1, <1>2, <1>3, <1>4, <1>5 DEF ToolsNext

LEMMA ToolInvAlways == ToolsSpec => []ToolInv
<1>1. ToolsInit => ToolInv
  BY ToolInitInv
<1>2. ToolInv /\ [ToolsNext]_toolVars => ToolInv'
  BY ToolNextInv
<1>3. QED
  BY <1>1, <1>2, PTL DEF ToolsSpec

\* An external effect takes place at most once for its key, over all calls side by side, stale
\* runs, attempts and approvals; what the policy reserves happens only after the user allowed
\* exactly that action, and what it denies never does (runToolSourceCall, recordToolCall).
THEOREM ToolEffectsAreGoverned == ToolsSpec => []EffectsAreGoverned
<1>1. ToolInv => EffectsAreGoverned
  BY DEF ToolInv, EffectsFit, EffectsAreGoverned, ExternalEffectsHappenOnce
<1>2. QED
  BY <1>1, ToolInvAlways, PTL

----------------------------------------------------------------------------
(* Event streams: what a watch over broken connections is told *)

LEMMA StreamBounds == DefaultEventLimit \in Nat \ {0}
BY StreamAssumption DEF StreamAssumption

LogEvent == [type: Settled \cup {"delta", "running"}, shown: BOOLEAN]
Host     == [pc: {"page", "send", "status", "final", "closed"}, cursor: Nat, page: SUBSET Nat,
             next: {"page", "status", "closed"}, owed: SUBSET Nat]
Reader   == [pc: {"connecting", "reading", "returned", "refused", "disconnected"}, cursor: Nat,
             got: Seq(Nat), reconnects: Nat, received: BOOLEAN]

StreamTypes ==
    /\ log \in Seq(LogEvent) /\ late \subseteq Nat /\ status \in Settled \cup {"running"}
    /\ wire \in Seq(Nat) /\ client \in Reader
    /\ (server = NoConnection /\ wire = <<>>) \/ server \in Host

Got    == {client.got[i] : i \in DOMAIN client.got}
OnWire   == {wire[i] : i \in DOMAIN wire}
Timely == Shown \ late

\* The reader has everything up to its cursor, which is the last event it was given.
ReaderFits ==
    /\ InOrder /\ NothingMissed /\ \A c \in Got : c <= client.cursor
    /\ client.cursor \in Shown \cup {0}

\* What is under way is in order, and after what the reader has.
WireFits ==
    /\ \A i, j \in DOMAIN wire : i < j => wire[i] < wire[j]
    /\ \A c \in OnWire : c \in Shown /\ client.cursor < c /\ c <= server.cursor

\* Everything up to the host's cursor has come or is under way, and a page skips nothing.
HostFits ==
    server.pc # "none" =>
        /\ server.cursor \in Shown \cup {0} /\ client.cursor <= server.cursor
        /\ \A c \in Timely : c <= server.cursor => c \in Got \cup OnWire
        /\ server.pc = "send" => server.next # "closed"
        /\ server.page \subseteq Shown /\ server.owed \subseteq Shown
        /\ \A x \in server.page :
             /\ server.cursor < x
             /\ \A c \in Timely : server.cursor < c /\ c < x => c \in server.page

StreamInv == StreamTypes /\ ReaderFits /\ WireFits /\ HostFits /\ EndsAreComplete

LEMMA LogIsFinite == ASSUME StreamTypes PROVE Shown \subseteq Nat \ {0} /\ IsFiniteSet(Shown)
<1>1. Shown \in SUBSET (1..Len(log)) /\ Len(log) \in Nat
  BY DEF StreamTypes, Shown
<1>2. IsFiniteSet(1..Len(log))
  BY <1>1, FS_Interval
<1>3. IsFiniteSet(Shown)
  BY <1>1, <1>2, FS_Subset
<1>4. Shown \subseteq Nat \ {0}
  BY <1>1
<1>5. QED
  BY <1>3, <1>4

\* A page is a beginning of what is shown after the cursor, and empty only when that is.
LEMMA PageFits ==
    ASSUME StreamTypes, NEW after \in Nat
    PROVE  /\ EventPage(after) \subseteq Shown /\ \A x \in EventPage(after) : after < x
           /\ \A x \in EventPage(after) : \A c \in Shown : after < c /\ c < x => c \in EventPage(after)
           /\ EventPage(after) = {} => \A c \in Shown : c <= after
<1> DEFINE Between(x) == {d \in Shown : after < d /\ d < x}
<1>1. Shown \subseteq Nat /\ IsFiniteSet(Shown) /\ DefaultEventLimit \in Nat \ {0}
  BY LogIsFinite, StreamBounds
<1>2. EventPage(after) = {c \in Shown : c > after /\ Cardinality(Between(c)) < DefaultEventLimit}
  BY DEF EventPage
<1>3. \A x : IsFiniteSet(Between(x)) /\ Cardinality(Between(x)) \in Nat
  BY <1>1, FS_Subset, FS_CardinalityType
<1>4. ASSUME NEW x \in EventPage(after), NEW c \in Shown, after < c, c < x
      PROVE  c \in EventPage(after)
  <2>1. Between(c) \subseteq Between(x)
    <3>1. x \in Nat /\ c \in Nat
      BY <1>1, <1>2, <1>4
    <3>2. ASSUME NEW d \in Shown, d < c PROVE d < x
      BY <1>1, <1>4, <3>1, <3>2
    <3>3. QED
      BY <3>2
  <2>2. Cardinality(Between(c)) <= Cardinality(Between(x))
    BY <1>3, <2>1, FS_Subset
  <2>3. Cardinality(Between(x)) < DefaultEventLimit /\ c > after
    BY <1>2, <1>4
  <2> HIDE DEF Between
  <2>4. Cardinality(Between(c)) < DefaultEventLimit
    BY <1>1, <1>3, <2>2, <2>3
  <2>5. QED
    BY <1>2, <2>3, <2>4
<1>5. ASSUME NEW c \in Shown, after < c PROVE EventPage(after) # {}
  <2>1. PICK S : S = {d \in Shown : after < d}
    OBVIOUS
  <2>2. S \subseteq Nat /\ S # {}
    BY <1>1, <1>5, <2>1
  <2>3. \E x \in S : \A y \in S : <<y, x>> \notin OpToRel(<, Nat)
    BY <2>2, NatLessThanWellFounded, WFMin
  <2>4. PICK x \in S : \A y \in S : ~(y < x)
    BY <2>2, <2>3 DEF OpToRel
  <2>5. Between(x) = {}
    BY <2>1, <2>4
  <2>6. Cardinality(Between(x)) = 0
    BY <2>5, FS_EmptySet
  <2>7. x \in EventPage(after)
    <3>1. x \in Shown /\ x > after
      BY <1>1, <2>1, <2>4
    <3> HIDE DEF Between
    <3>2. Cardinality(Between(x)) < DefaultEventLimit
      BY <1>1, <2>6
    <3>3. QED
      BY <1>2, <3>1, <3>2
  <2>8. QED
    BY <2>7
<1>6. QED
  <2>1. EventPage(after) \subseteq Shown /\ \A x \in EventPage(after) : x > after
    BY <1>2
  <2>2. \A x \in EventPage(after) : after < x
    BY <1>1, <2>1
  <2>3. EventPage(after) = {} => \A c \in Shown : c <= after
    BY <1>1, <1>5
  <2>4. QED
    BY <1>4, <2>1, <2>2, <2>3

LEMMA StreamInitInv == StreamInit => StreamInv
<1> SUFFICES ASSUME StreamInit PROVE StreamInv
  OBVIOUS
<1>1. StreamTypes
  BY DEF StreamInit, StreamTypes, Reader, Settled, Outcome
<1>2. Shown = {} /\ Got = {} /\ OnWire = {} /\ server.pc = "none" /\ client.cursor = 0
      /\ client.got = <<>> /\ wire = <<>>
  BY DEF StreamInit, Shown, Got, OnWire, NoConnection
<1>3. QED
  BY <1>1, <1>2 DEF StreamInv, ReaderFits, WireFits, HostFits, EndsAreComplete, InOrder, NothingMissed

\* The log grows, or shows one event more, which is late when a later one was shown already.
LEMMA LogGrowsInv ==
    ASSUME StreamInv, log' \in Seq(LogEvent), late' \subseteq Nat, status' \in Settled \cup {"running"},
           UNCHANGED <<server, wire, client>>,
           NEW n \in Nat \ {0}, Shown' \subseteq Shown \cup {n}, Shown \subseteq Shown',
           late \subseteq late',
           n \in Shown' => n \in Shown \/ n \in late' \/ \A d \in Shown : d < n
    PROVE  StreamInv'
<1>1. StreamTypes' /\ Shown \subseteq Nat /\ (server \in Host \/ server.pc = "none")
  BY LogIsFinite DEF StreamInv, StreamTypes, NoConnection
<1>2. StreamTypes' /\ Shown \subseteq Nat \ {0} /\ client.cursor \in Nat
  BY LogIsFinite DEF StreamInv, StreamTypes, Reader
<1>3. Got' = Got /\ OnWire' = OnWire /\ InOrder'
  BY DEF Got, OnWire, StreamInv, ReaderFits, InOrder
<1>4. ASSUME NEW c \in Timely' PROVE c \in Timely \/ (c \in Nat \ {0} /\ \A d \in Shown : d < c)
  BY <1>4 DEF Timely
<1>5. ReaderFits'
  <2>1. NothingMissed'
    <3> SUFFICES ASSUME NEW c \in Timely', c <= client.cursor
                 PROVE  \E i \in DOMAIN client.got : client.got[i] = c
      BY DEF NothingMissed, Timely
    <3>1. c \in Timely
      BY <1>2, <1>4 DEF StreamInv, ReaderFits
    <3>2. QED
      BY <3>1 DEF StreamInv, ReaderFits, NothingMissed, Timely
  <2>2. QED
    BY <1>3, <2>1 DEF StreamInv, ReaderFits
<1>6. WireFits'
  BY <1>3 DEF StreamInv, WireFits
<1>7. HostFits'
  <2> SUFFICES ASSUME server.pc # "none" PROVE HostFits'
    BY DEF HostFits
  <2>1. server.cursor \in Nat /\ HostFits /\ server.cursor \in Shown \cup {0} /\ server.page \subseteq Shown
    BY DEF StreamInv, HostFits, StreamTypes, NoConnection, Host
  <2>2. ASSUME NEW c \in Timely', c <= server.cursor PROVE c \in Got \cup OnWire
    <3>1. c \in Timely
      BY <1>2, <1>4, <2>1, <2>2
    <3>2. QED
      BY <2>1, <2>2, <3>1 DEF HostFits
  <2>3. ASSUME NEW x \in server.page, NEW c \in Timely', server.cursor < c, c < x PROVE c \in server.page
    <3>1. x \in Shown /\ x \in Nat
      BY <1>2, <2>1
    <3>2. c \in Timely
      BY <1>2, <1>4, <2>3, <3>1
    <3>3. QED
      BY <2>1, <2>3, <3>2 DEF HostFits
  <2>4. QED
    BY <1>3, <2>1, <2>2, <2>3 DEF HostFits
<1>8. EndsAreComplete'
  BY DEF StreamInv, EndsAreComplete
<1>9. QED
  BY <1>2, <1>5, <1>6, <1>7, <1>8 DEF StreamInv

LEMMA GenerationStepInv ==
    ASSUME StreamInv,
           \/ AppendHidden
           \/ \E c \in DOMAIN log : ComeIntoSight(c)
           \/ \E to \in Settled \cup {"running"} : Transition(to)
    PROVE  StreamInv'
<1>0. /\ StreamTypes /\ log \in Seq(LogEvent) /\ Len(log) \in Nat /\ Shown \subseteq Nat \ {0}
      /\ late \subseteq Nat /\ wire \in Seq(Nat) /\ client \in Reader
      /\ ReaderFits /\ WireFits /\ HostFits /\ EndsAreComplete
  BY LogIsFinite DEF StreamInv, StreamTypes
<1>1. CASE AppendHidden
  <2>1. log' \in Seq(LogEvent)
    BY <1>0, <1>1 DEF AppendHidden, LogEvent
  <2>2. Shown' = Shown
    BY <1>0, <1>1 DEF AppendHidden, Shown
  <2>3. PICK n \in Nat \ {0} : n = 1
    OBVIOUS
  <2>4. Shown' \subseteq Shown \cup {n} /\ (n \in Shown' => n \in Shown)
    BY <2>2
  <2>5. UNCHANGED <<late, status, server, wire, client>>
    BY <1>1 DEF AppendHidden
  <2>6. QED
    BY <1>0, <2>1, <2>2, <2>4, <2>5, LogGrowsInv DEF StreamTypes
<1>2. ASSUME NEW c \in DOMAIN log, ComeIntoSight(c) PROVE StreamInv'
  <2>1. c \in Nat \ {0} /\ c \notin Shown
    BY <1>0, <1>2 DEF ComeIntoSight, Shown
  <2>2. log' \in Seq(LogEvent) /\ Shown' = Shown \cup {c}
    <3>1. PICK e : e = [log[c] EXCEPT !.shown = TRUE]
      OBVIOUS
    <3>2. log[c] \in LogEvent /\ log' = [log EXCEPT ![c] = e]
      BY <1>0, <1>2, <3>1 DEF ComeIntoSight
    <3>3. e \in LogEvent /\ e.shown
      BY <3>1, <3>2 DEF LogEvent
    <3>4. QED
      BY <1>0, <3>2, <3>3 DEF Shown
  <2>3. late' = late \cup {c} \/ (late' = late /\ \A d \in Shown : ~(d > c))
    BY <1>2 DEF ComeIntoSight
  <2>4. late' = late \cup {c} \/ (late' = late /\ \A d \in Shown : d < c)
    <3>1. \A d \in Shown : d \in Nat /\ d # c
      BY <1>0, <2>1
    <3>2. QED
      BY <2>1, <2>3, <3>1
  <2>5. QED
    BY <1>0, <1>2, <2>1, <2>2, <2>4, LogGrowsInv DEF ComeIntoSight, StreamTypes
<1>3. ASSUME NEW to \in Settled \cup {"running"}, Transition(to) PROVE StreamInv'
  <2>1. PICK n \in Nat \ {0} : n = Len(log) + 1
    BY <1>0
  <2>2. log' \in Seq(LogEvent) /\ Shown' = Shown \cup {n}
    BY <1>0, <1>3, <2>1 DEF Transition, Shown, LogEvent
  <2>3. \A d \in Shown : d < n
    BY <1>0, <2>1 DEF Shown
  <2>4. QED
    BY <1>0, <1>3, <2>2, <2>3, LogGrowsInv DEF Transition, StreamTypes
<1>4. QED
  BY <1>1, <1>2, <1>3

\* The host's end goes on where it is, with a page that fits or without one.
LEMMA HostStaysInv ==
    ASSUME StreamInv, UNCHANGED <<log, late, status, wire, client>>,
           server \in Host, server' \in Host, server'.cursor = server.cursor,
           server'.page = {} \/ server'.page = EventPage(server.cursor),
           server'.owed \subseteq Shown, server'.pc = "send" => server'.next # "closed",
           server'.pc = "closed" => \A c \in server'.owed \ late : c <= server.cursor
    PROVE  StreamInv'
<1>1. StreamTypes' /\ Shown' = Shown /\ Got' = Got /\ OnWire' = OnWire /\ StreamTypes
  BY DEF StreamInv, StreamTypes, Shown, Got, OnWire
<1>2. ReaderFits' /\ WireFits'
  BY <1>1 DEF StreamInv, ReaderFits, WireFits, InOrder, NothingMissed
<1>3. /\ server'.page \subseteq Shown /\ \A x \in server'.page : server.cursor < x
      /\ \A x \in server'.page : \A c \in Shown : server.cursor < c /\ c < x => c \in server'.page
  BY <1>1, PageFits DEF Host
<1>4. server.pc # "none"
  BY DEF Host
<1>5. HostFits'
  BY <1>1, <1>3, <1>4 DEF StreamInv, HostFits, Timely
<1>6. EndsAreComplete'
  BY DEF EndsAreComplete
<1>7. QED
  BY <1>1, <1>2, <1>5, <1>6 DEF StreamInv

LEMMA ConnectedHost == ASSUME StreamInv, server.pc # "none" PROVE server \in Host
BY DEF StreamInv, StreamTypes, NoConnection

LEMMA HostReadsInv ==
    ASSUME StreamInv, ReadPage \/ ReadStatus \/ ReadFinalPage
    PROVE  StreamInv'
<1>1. server \in Host /\ StreamTypes /\ UNCHANGED <<log, late, status, wire, client>>
  BY ConnectedHost DEF ReadPage, ReadStatus, ReadFinalPage, StreamInv
<1>2. Shown \subseteq Nat /\ server.owed \subseteq Shown /\ late \subseteq Nat
  BY <1>1, LogIsFinite DEF StreamInv, HostFits, StreamTypes, Host
<1>3. PICK p : p = EventPage(server.cursor)
  OBVIOUS
<1>4. p \subseteq Nat /\ (p = {} => \A c \in Shown : c <= server.cursor)
  BY <1>1, <1>2, <1>3, PageFits DEF Host
<1>5. ASSUME NEW n \in {"page", "status", "closed"}
      PROVE  /\ Sending(p, n) \in Host /\ Sending(p, n).cursor = server.cursor
             /\ Sending(p, n).page = p /\ Sending(p, n).owed = server.owed
             /\ Sending(p, n).pc = (IF p = {} THEN n ELSE "send") /\ Sending(p, n).next = n
  BY <1>1, <1>4 DEF Sending, Host
<1>6. CASE ReadPage
  <2>1. PICK n \in {"page", "status"} : server' = Sending(p, n)
    BY <1>3, <1>6 DEF ReadPage
  <2>2. QED
    BY <1>1, <1>2, <1>3, <1>5, <2>1, HostStaysInv
<1>7. CASE ReadFinalPage
  <2>1. server' = IF p = {} THEN Sending(p, "closed") ELSE Sending(p, "page")
    BY <1>3, <1>7 DEF ReadFinalPage
  <2>2. CASE p = {}
    <3>1. server' = Sending(p, "closed") /\ \A c \in server.owed \ late : c <= server.cursor
      BY <1>2, <1>4, <2>1, <2>2
    <3>2. /\ server' \in Host /\ server'.cursor = server.cursor /\ server'.page = p
          /\ server'.owed = server.owed /\ server'.pc = "closed"
      BY <1>5, <2>2, <3>1
    <3>3. QED
      BY <1>1, <1>2, <1>3, <3>1, <3>2, HostStaysInv
  <2>3. CASE p # {}
    BY <1>1, <1>2, <1>3, <1>5, <2>1, <2>3, HostStaysInv
  <2>4. QED
    BY <2>2, <2>3
<1>8. CASE ReadStatus
  <2>1. PICK s \in {"final", "page"} : server' = [server EXCEPT !.pc = s, !.owed = Shown]
    BY <1>8 DEF ReadStatus, AfterSettled
  <2>2. /\ server' \in Host /\ server'.cursor = server.cursor /\ server'.page = server.page
        /\ server'.owed = Shown /\ server'.pc # "closed"
    BY <1>1, <1>2, <2>1 DEF Host
  <2>3. Shown' = Shown /\ Got' = Got /\ OnWire' = OnWire
    BY <1>1 DEF Shown, Got, OnWire
  <2>4. StreamTypes' /\ ReaderFits' /\ WireFits'
    BY <1>1, <2>2, <2>3 DEF StreamInv, StreamTypes, ReaderFits, WireFits, InOrder, NothingMissed
  <2>5. server.pc # "none" /\ server'.pc # "send" /\ Timely' = Timely
    BY <1>1, <2>1, <2>3 DEF Host, Timely
  <2>6. HostFits'
    BY <1>1, <2>2, <2>3, <2>5 DEF StreamInv, HostFits
  <2>7. EndsAreComplete'
    BY <2>2 DEF EndsAreComplete
  <2>8. QED
    BY <2>4, <2>6, <2>7 DEF StreamInv
<1>9. QED
  BY <1>6, <1>7, <1>8

LEMMA SendEventInv == ASSUME StreamInv, SendEvent PROVE StreamInv'
<1>1. PICK c \in server.page :
        /\ \A d \in server.page : c <= d
        /\ wire' = Append(wire, c)
        /\ server' = [Sending(server.page \ {c}, server.next) EXCEPT !.cursor = c]
  BY DEF SendEvent
<1>2. server.pc = "send" /\ server \in Host /\ UNCHANGED <<log, late, status, client>>
  BY ConnectedHost DEF SendEvent
<1>3. /\ StreamTypes /\ ReaderFits /\ WireFits /\ HostFits /\ Shown \subseteq Nat \ {0}
      /\ wire \in Seq(Nat) /\ client \in Reader
  BY LogIsFinite DEF StreamInv, StreamTypes
<1>4. /\ server.page \subseteq Shown /\ c \in Nat /\ c \in Shown /\ server.cursor < c
      /\ server.cursor \in Nat /\ client.cursor \in Nat /\ client.cursor <= server.cursor
  BY <1>1, <1>2, <1>3 DEF HostFits, Host, Reader
<1>5. PICK q : q = server.page \ {c}
  OBVIOUS
<1>6. PICK s : s = Sending(q, server.next)
  OBVIOUS
<1>7. /\ s \in Host /\ s.page = q /\ s.owed = server.owed
      /\ s.pc # "closed" /\ s.next # "closed"
  BY <1>2, <1>3, <1>4, <1>5, <1>6 DEF Sending, Host, HostFits
<1>8. /\ server' \in Host /\ server'.cursor = c /\ server'.page = q /\ server'.owed = server.owed
      /\ server'.pc = s.pc /\ server'.next = s.next
  BY <1>1, <1>4, <1>5, <1>6, <1>7 DEF Host
<1>9. Shown' = Shown /\ Got' = Got
  BY <1>2 DEF Shown, Got
<1>10. /\ wire' \in Seq(Nat) /\ Len(wire) \in Nat /\ DOMAIN wire' = 1..(Len(wire) + 1)
       /\ wire'[Len(wire) + 1] = c /\ \A i \in DOMAIN wire : i \in DOMAIN wire' /\ wire'[i] = wire[i]
       /\ DOMAIN wire = 1..Len(wire)
  BY <1>1, <1>3, <1>4
<1>11. \A i \in DOMAIN wire' : i \in DOMAIN wire \/ i = Len(wire) + 1
  BY <1>10
<1>12. OnWire' = OnWire \cup {c}
  BY <1>10, <1>11 DEF OnWire
<1>13. \A i \in DOMAIN wire : wire[i] \in OnWire /\ wire[i] \in Nat /\ wire[i] < c
  <2>1. \A i \in DOMAIN wire : wire[i] \in OnWire /\ wire[i] \in Nat
    BY <1>3 DEF OnWire
  <2>2. QED
    BY <1>3, <1>4, <2>1 DEF WireFits
<1>14. StreamTypes'
  BY <1>2, <1>3, <1>8, <1>10 DEF StreamTypes
<1>15. ReaderFits'
  BY <1>2, <1>3, <1>9 DEF ReaderFits, InOrder, NothingMissed
<1>16. WireFits'
  <2>1. ASSUME NEW i \in DOMAIN wire', NEW j \in DOMAIN wire', i < j PROVE wire'[i] < wire'[j]
    <3>1. i \in DOMAIN wire
      BY <1>10, <1>11, <2>1
    <3>2. QED
      BY <1>3, <1>10, <1>11, <1>13, <2>1, <3>1 DEF WireFits
  <2>2. ASSUME NEW d \in OnWire PROVE d \in Shown /\ client.cursor < d /\ d <= c
    <3>1. d \in Shown /\ client.cursor < d /\ d <= server.cursor /\ d \in Nat
      BY <1>3 DEF WireFits
    <3>2. QED
      BY <1>4, <3>1
  <2>3. client.cursor < c /\ c \in Shown
    BY <1>4
  <2>4. QED
    BY <1>2, <1>4, <1>8, <1>9, <1>12, <2>1, <2>2, <2>3 DEF WireFits
<1>17. HostFits'
  <2>1. client.cursor <= c
    BY <1>4
  <2>2. ASSUME NEW d \in Timely, d <= c PROVE d \in Got \cup OnWire \cup {c}
    <3>1. d \in Nat
      BY <1>3 DEF Timely
    <3>2. CASE d <= server.cursor
      BY <1>2, <1>3, <3>2 DEF HostFits, Host
    <3>3. CASE d > server.cursor /\ d < c
      <4>1. d \in server.page
        BY <1>1, <1>2, <1>3, <1>4, <3>1, <3>3 DEF HostFits, Host
      <4>2. QED
        BY <1>1, <1>4, <3>1, <3>3, <4>1
    <3>4. QED
      BY <1>4, <2>2, <3>1, <3>2, <3>3
  <2>3. ASSUME NEW x \in q
        PROVE  c < x /\ \A d \in Timely : c < d /\ d < x => d \in q
    <3>1. x \in Nat /\ x \in server.page /\ c < x
      BY <1>1, <1>3, <1>4, <1>5
    <3>2. ASSUME NEW d \in Timely, c < d, d < x PROVE d \in q
      <4>1. d \in Nat /\ server.cursor < d /\ d # c
        <5>1. d \in Nat
          BY <1>3, <3>2 DEF Timely
        <5>2. QED
          BY <1>4, <3>2, <5>1
      <4>2. d \in server.page
        BY <1>2, <1>3, <3>1, <3>2, <4>1 DEF HostFits, Host
      <4>3. QED
        BY <1>5, <4>1, <4>2
    <3>3. QED
      BY <3>1, <3>2
  <2>4. Timely' = Timely
    BY <1>2, <1>9 DEF Timely
  <2>5. server.owed \subseteq Shown /\ q \subseteq Shown
    BY <1>2, <1>3, <1>4, <1>5 DEF HostFits, Host
  <2>6. QED
    BY <1>2, <1>4, <1>7, <1>8, <1>9, <1>12, <2>1, <2>2, <2>3, <2>4, <2>5 DEF HostFits
<1>18. EndsAreComplete'
  BY <1>7, <1>8 DEF EndsAreComplete
<1>19. QED
  BY <1>14, <1>15, <1>16, <1>17, <1>18 DEF StreamInv
\* The client's end goes on, with what it has.
LEMMA ClientStaysInv ==
    ASSUME StreamInv, UNCHANGED <<log, late, status>>, client' \in Reader,
           client'.cursor = client.cursor, client'.got = client.got,
           \/ server' = server /\ wire' = wire
           \/ server' = NoConnection /\ wire' = <<>>
           \/ wire' = <<>> /\ server' = [pc |-> "page", cursor |-> client.cursor, page |-> {},
                                         next |-> "page", owed |-> {}]
    PROVE  StreamInv'
<1>1. /\ StreamTypes /\ client \in Reader /\ Shown' = Shown /\ Got' = Got /\ Timely' = Timely
      /\ ReaderFits /\ WireFits /\ HostFits /\ EndsAreComplete /\ Shown \subseteq Nat
  BY LogIsFinite DEF StreamInv, StreamTypes, Shown, Got, Timely
<1>2. ReaderFits'
  BY <1>1 DEF ReaderFits, InOrder, NothingMissed
<1>3. CASE server' = server /\ wire' = wire
  <2>1. StreamTypes'
    BY <1>1, <1>3 DEF StreamTypes
  <2>2. WireFits' /\ HostFits' /\ EndsAreComplete'
    BY <1>1, <1>3 DEF WireFits, HostFits, EndsAreComplete, OnWire
  <2>3. QED
    BY <1>2, <2>1, <2>2 DEF StreamInv
<1>4. CASE server' = NoConnection /\ wire' = <<>>
  <2>1. StreamTypes' /\ server'.pc = "none" /\ OnWire' = {}
    BY <1>1, <1>4 DEF StreamTypes, NoConnection, OnWire
  <2>2. WireFits' /\ HostFits' /\ EndsAreComplete'
    BY <1>4, <2>1 DEF WireFits, HostFits, EndsAreComplete
  <2>3. QED
    BY <1>2, <2>1, <2>2 DEF StreamInv
<1>5. CASE wire' = <<>> /\ server' = [pc |-> "page", cursor |-> client.cursor, page |-> {},
                                     next |-> "page", owed |-> {}]
  <2>1. /\ server'.pc = "page" /\ server'.cursor = client.cursor /\ server'.page = {}
        /\ server'.owed = {} /\ server' \in Host /\ OnWire' = {} /\ client.cursor \in Nat
    BY <1>1, <1>5 DEF OnWire, Reader, Host
  <2>2. StreamTypes'
    BY <1>1, <1>5, <2>1 DEF StreamTypes
  <2>3. WireFits' /\ EndsAreComplete'
    BY <1>5, <2>1 DEF WireFits, EndsAreComplete
  <2>4. \A c \in Timely : c <= client.cursor => c \in Got
    BY <1>1 DEF ReaderFits, NothingMissed, Timely, Got
  <2>5. HostFits'
    BY <1>1, <2>1, <2>4 DEF HostFits, ReaderFits
  <2>6. QED
    BY <1>2, <2>2, <2>3, <2>5 DEF StreamInv
<1>6. QED
  BY <1>3, <1>4, <1>5

LEMMA ConnectionStepInv ==
    ASSUME StreamInv, RequestStream \/ HostCloses \/ ConnectionBreaks
    PROVE  StreamInv'
<1>1. client \in Reader /\ UNCHANGED <<log, late, status>>
  BY DEF StreamInv, StreamTypes, RequestStream, HostCloses, ConnectionBreaks
<1>2. ASSUME NEW c \in Reader
      PROVE  /\ AfterResponse(c) \in Reader /\ AfterResponse(c).cursor = c.cursor
             /\ AfterResponse(c).got = c.got
  <2>1. PICK n \in Nat : n = IF c.received THEN c.reconnects ELSE c.reconnects + 1
    BY DEF Reader
  <2>2. PICK p \in {"disconnected", "connecting"} : p = IF n > MaxReconnects THEN "disconnected" ELSE "connecting"
    OBVIOUS
  <2>3. AfterResponse(c) = [c EXCEPT !.reconnects = n, !.pc = p]
    BY <2>1, <2>2 DEF AfterResponse
  <2>4. QED
    BY <2>3 DEF Reader
<1>3. ASSUME NEW p \in {"reading", "refused"}
      PROVE  \A b \in BOOLEAN :
               /\ [client EXCEPT !.pc = p] \in Reader /\ [client EXCEPT !.pc = p].cursor = client.cursor
               /\ [client EXCEPT !.pc = p].got = client.got
               /\ [client EXCEPT !.pc = p, !.received = b] \in Reader
               /\ [client EXCEPT !.pc = p, !.received = b].cursor = client.cursor
               /\ [client EXCEPT !.pc = p, !.received = b].got = client.got
  BY <1>1 DEF Reader
<1>4. /\ [client EXCEPT !.received = FALSE] \in Reader
      /\ [client EXCEPT !.received = FALSE].cursor = client.cursor
      /\ [client EXCEPT !.received = FALSE].got = client.got
  BY <1>1 DEF Reader
<1>5. client' \in Reader /\ client'.cursor = client.cursor /\ client'.got = client.got
  BY <1>1, <1>2, <1>3, <1>4 DEF RequestStream, HostCloses, ConnectionBreaks
<1>6. QED
  BY <1>1, <1>5, ClientStaysInv DEF RequestStream, HostCloses, ConnectionBreaks

LEMMA ReceiveInv == ASSUME StreamInv, ReceiveFrame PROVE StreamInv'
<1>1. /\ wire # <<>> /\ wire' = Tail(wire) /\ UNCHANGED <<log, late, status, server>>
      /\ server.pc # "none"
  BY DEF ReceiveFrame, Connected
<1>2. /\ StreamTypes /\ ReaderFits /\ WireFits /\ HostFits /\ EndsAreComplete
      /\ Shown \subseteq Nat \ {0} /\ wire \in Seq(Nat) /\ client \in Reader /\ server \in Host
  BY <1>1, LogIsFinite, ConnectedHost DEF StreamInv, StreamTypes
<1>3. PICK c \in Nat : c = Head(wire) /\ c = wire[1] /\ 1 \in DOMAIN wire
  BY <1>1, <1>2
<1>4. c \in OnWire /\ c \in Shown /\ client.cursor < c /\ c <= server.cursor
  BY <1>2, <1>3 DEF OnWire, WireFits
<1>5. /\ client'.cursor = c /\ client'.got = Append(client.got, c) /\ client' \in Reader
  <2>1. PICK p \in {"returned", "reading"} :
          client' = [client EXCEPT !.cursor = c, !.got = Append(@, c), !.received = TRUE,
                                   !.reconnects = 0, !.pc = p]
    BY <1>2, <1>3, <1>4 DEF ReceiveFrame, IsNew, Reader
  <2>2. client.got \in Seq(Nat) /\ Append(client.got, c) \in Seq(Nat)
    BY <1>2, <1>3 DEF Reader
  <2>3. QED
    BY <1>2, <1>3, <2>1, <2>2 DEF Reader
<1>6. /\ wire' \in Seq(Nat) /\ Len(wire) \in Nat \ {0} /\ DOMAIN wire = 1..Len(wire)
      /\ DOMAIN wire' = 1..(Len(wire) - 1) /\ \A i \in DOMAIN wire' : wire'[i] = wire[i + 1]
  BY <1>1, <1>2
<1>7. /\ client.got \in Seq(Nat) /\ client'.got \in Seq(Nat) /\ Len(client.got) \in Nat
      /\ DOMAIN client.got = 1..Len(client.got)
      /\ DOMAIN client'.got = 1..(Len(client.got) + 1) /\ client'.got[Len(client.got) + 1] = c
      /\ \A i \in DOMAIN client.got : i \in DOMAIN client'.got /\ client'.got[i] = client.got[i]
  <2>1. PICK s \in Seq(Nat) : s = client.got
    BY <1>2 DEF Reader
  <2>2. PICK t : t = Append(s, c)
    OBVIOUS
  <2>3. /\ t \in Seq(Nat) /\ Len(s) \in Nat /\ DOMAIN s = 1..Len(s) /\ DOMAIN t = 1..(Len(s) + 1)
        /\ t[Len(s) + 1] = c /\ \A i \in DOMAIN s : i \in DOMAIN t /\ t[i] = s[i]
    BY <2>2
  <2>4. client'.got = t
    BY <1>5, <2>1, <2>2
  <2>5. QED
    BY <2>1, <2>3, <2>4
<1>8. \A i \in DOMAIN client'.got : i \in DOMAIN client.got \/ i = Len(client.got) + 1
  BY <1>7
<1>9. Got' = Got \cup {c} /\ Shown' = Shown /\ Timely' = Timely
  <2>1. Got' = Got \cup {c}
    <3>1. Len(client.got) + 1 \in DOMAIN client'.got
      BY <1>7
    <3>2. QED
      BY <1>7, <1>8, <3>1, Zenon DEF Got
  <2>2. QED
    BY <1>1, <2>1 DEF Shown, Timely
<1>10. \A i \in DOMAIN client.got : client.got[i] \in Nat /\ client.got[i] < c
  <2>1. \A i \in DOMAIN client.got : client.got[i] \in Nat /\ client.got[i] <= client.cursor
    <3> SUFFICES ASSUME NEW i \in DOMAIN client.got
                 PROVE  client.got[i] \in Nat /\ client.got[i] <= client.cursor
      OBVIOUS
    <3>1. client.got[i] \in Nat
      BY <1>7
    <3>2. client.got[i] \in Got
      BY DEF Got
    <3>3. QED
      BY <1>2, <3>1, <3>2 DEF ReaderFits
  <2>2. QED
    BY <1>2, <1>4, <2>1 DEF Reader
<1>11. ASSUME NEW d \in OnWire PROVE d \in Nat /\ (d = c \/ (d \in OnWire' /\ c < d))
  <2>1. PICK i \in DOMAIN wire : d = wire[i]
    BY <1>11 DEF OnWire
  <2>2. CASE i = 1
    BY <1>3, <2>1, <2>2
  <2>3. CASE i # 1
    <3>1. i - 1 \in DOMAIN wire' /\ wire'[i - 1] = wire[i] /\ 1 < i
      BY <1>6, <2>1, <2>3
    <3>2. wire[1] < wire[i] /\ wire[i] \in Nat
      BY <1>2, <1>3, <2>1, <3>1 DEF WireFits
    <3>3. QED
      BY <1>3, <2>1, <3>1, <3>2 DEF OnWire
  <2>4. QED
    BY <2>2, <2>3
<1>12. ASSUME NEW d \in OnWire' PROVE d \in OnWire /\ c < d
  <2>1. PICK i \in DOMAIN wire' : d = wire'[i]
    BY <1>12 DEF OnWire
  <2>2. i + 1 \in DOMAIN wire /\ d = wire[i + 1] /\ 1 < i + 1
    BY <1>6, <2>1
  <2>3. QED
    BY <1>2, <1>3, <2>2 DEF OnWire, WireFits
<1>13. StreamTypes'
  BY <1>1, <1>2, <1>5, <1>6 DEF StreamTypes
<1>14. ReaderFits'
  <2>1. InOrder'
    <3> SUFFICES ASSUME NEW i \in DOMAIN client'.got, NEW j \in DOMAIN client'.got, i < j
                 PROVE  client'.got[i] < client'.got[j]
      BY DEF InOrder
    <3>1. i \in DOMAIN client.got
      BY <1>7, <1>8
    <3>2. QED
      BY <1>2, <1>7, <1>8, <1>10, <3>1 DEF ReaderFits, InOrder
  <2>2. NothingMissed'
    <3> SUFFICES ASSUME NEW d \in Timely, d <= c PROVE d \in Got'
      BY <1>5, <1>9 DEF NothingMissed, Timely, Got
    <3>1. d \in Nat /\ d <= server.cursor
      BY <1>2, <1>4 DEF Timely, Host
    <3>2. d \in Got \cup OnWire
      BY <1>1, <1>2, <3>1 DEF HostFits
    <3>3. QED
      BY <1>9, <1>11, <3>1, <3>2
  <2>3. \A d \in Got' : d <= c
    BY <1>9, <1>10 DEF Got
  <2>4. QED
    BY <1>4, <1>5, <1>9, <2>1, <2>2, <2>3 DEF ReaderFits
<1>15. WireFits'
  <2>1. ASSUME NEW i \in DOMAIN wire', NEW j \in DOMAIN wire', i < j PROVE wire'[i] < wire'[j]
    <3>1. i + 1 \in DOMAIN wire /\ j + 1 \in DOMAIN wire /\ i + 1 < j + 1
      BY <1>6, <2>1
    <3>2. QED
      BY <1>2, <1>6, <3>1 DEF WireFits
  <2>2. QED
    BY <1>1, <1>2, <1>5, <1>9, <1>12, <2>1 DEF WireFits
<1>16. HostFits'
  <2>1. \A d \in Timely : d <= server.cursor => d \in Got' \cup OnWire'
    BY <1>1, <1>2, <1>9, <1>11 DEF HostFits
  <2>2. QED
    BY <1>1, <1>2, <1>4, <1>5, <1>9, <2>1 DEF HostFits
<1>17. EndsAreComplete'
  BY <1>1, <1>2 DEF EndsAreComplete
<1>18. QED
  BY <1>13, <1>14, <1>15, <1>16, <1>17 DEF StreamInv

LEMMA StreamNextInv == StreamInv /\ [StreamNext]_streamVars => StreamInv'
<1> SUFFICES ASSUME StreamInv, [StreamNext]_streamVars PROVE StreamInv'
  OBVIOUS
<1>1. CASE UNCHANGED streamVars
  BY <1>1 DEF streamVars, StreamInv, StreamTypes, ReaderFits, WireFits, HostFits, EndsAreComplete,
     InOrder, NothingMissed, Shown, Got, OnWire, Timely
<1>2. QED
  BY <1>1, GenerationStepInv, HostReadsInv, SendEventInv, ConnectionStepInv, ReceiveInv DEF StreamNext

\* Over any number of broken connections a watch is told, in order and once, everything that
\* came into sight in time, and a stream that ends has brought all there was: for logs, pages
\* and buffers of any size (generationStream, Generation.stream).
THEOREM StreamsAlwaysFaithful == StreamSpec => []StreamsAreFaithful
<1>1. StreamInv => StreamsAreFaithful
  BY DEF StreamInv, ReaderFits, StreamsAreFaithful
<1>2. QED
  BY <1>1, StreamInitInv, StreamNextInv, PTL DEF StreamSpec

----------------------------------------------------------------------------
(* The product API: routes, gates and middleware *)

StepName   == {"chat", "version", "generation", "found", "query", "body", "fields", "read", "do", "delete",
               "restore", "more", "reuse", "configured", "unknown"}
ChangeStep == {"do", "delete", "restore"}
Changes(p) == \E i \in DOMAIN p : p[i] \in ChangeStep

\* After a change a handler only reads, unless it may be done with what it has.
Sound(p) ==
    /\ p \in Seq(StepName) /\ Len(p) \in Nat \ {0}
    /\ \A i, j \in DOMAIN p :
         p[i] \in ChangeStep /\ i < j => p[j] = "read" \/ \E k \in 1..j : p[k] = "more"

\* What the handlers do, and the provider callbacks and the unknown paths.
Handlers == {
    <<"read">>, <<"body", "do">>, <<"do">>, <<"query", "read">>, <<"found">>,
    <<"found", "read">>, <<"found", "body", "do">>, <<"found", "do">>,
    <<"body", "read", "do", "read">>, <<"body", "do", "more", "fields", "do">>,
    <<"chat", "body", "do">>, <<"chat", "body", "delete">>, <<"restore">>,
    <<"chat", "query", "read">>, <<"chat", "do">>, <<"chat", "read">>,
    <<"chat", "read", "read">>, <<"chat", "version", "body", "do">>,
    <<"chat", "version", "configured", "reuse", "do">>, <<"chat", "version", "read">>,
    <<"chat", "version", "body", "do", "read">>,
    <<"chat", "version", "body", "do", "read", "read">>, <<"generation", "read">>,
    <<"generation", "query">>, <<"generation", "query", "read">>,
    <<"generation", "body", "do">>, <<"generation", "do", "read">>,
    <<"generation", "body", "do", "read">>, <<"body", "chat", "version", "fields", "do">>,
    <<"query", "chat", "version", "read">>,
    <<"body", "chat", "version", "configured", "reuse", "do">>, <<"query", "body", "do">>,
    <<"query", "do">>, <<"fields", "read">>, <<"fields", "do">>, <<"fields", "chat", "read">>,
    <<"fields", "chat", "do", "read">>, <<"fields", "generation", "read">>,
    <<"fields", "generation", "do">>, <<"fields", "generation", "do", "read">>,
    <<"fields", "chat", "version", "read">>, <<"fields", "chat", "version", "do", "read">>,
    <<"unknown">>}

LEMMA SoundHandlers == \A p \in Handlers : Sound(p)
<1>1. /\ Sound(<<"read">>)
      /\ Sound(<<"body", "do">>)
      /\ Sound(<<"do">>)
      /\ Sound(<<"query", "read">>)
      /\ Sound(<<"found">>)
      /\ Sound(<<"found", "read">>)
      /\ Sound(<<"found", "body", "do">>)
      /\ Sound(<<"found", "do">>)
      /\ Sound(<<"body", "read", "do", "read">>)
      /\ Sound(<<"body", "do", "more", "fields", "do">>)
      /\ Sound(<<"chat", "body", "do">>)
      /\ Sound(<<"chat", "body", "delete">>)
      /\ Sound(<<"restore">>)
      /\ Sound(<<"chat", "query", "read">>)
      /\ Sound(<<"chat", "do">>)
      /\ Sound(<<"chat", "read">>)
      /\ Sound(<<"chat", "read", "read">>)
      /\ Sound(<<"chat", "version", "body", "do">>)
      /\ Sound(<<"chat", "version", "configured", "reuse", "do">>)
      /\ Sound(<<"chat", "version", "read">>)
      /\ Sound(<<"chat", "version", "body", "do", "read">>)
      /\ Sound(<<"chat", "version", "body", "do", "read", "read">>)
      /\ Sound(<<"generation", "read">>)
      /\ Sound(<<"generation", "query">>)
      /\ Sound(<<"generation", "query", "read">>)
      /\ Sound(<<"generation", "body", "do">>)
      /\ Sound(<<"generation", "do", "read">>)
      /\ Sound(<<"generation", "body", "do", "read">>)
      /\ Sound(<<"body", "chat", "version", "fields", "do">>)
      /\ Sound(<<"query", "chat", "version", "read">>)
      /\ Sound(<<"body", "chat", "version", "configured", "reuse", "do">>)
      /\ Sound(<<"query", "body", "do">>)
      /\ Sound(<<"query", "do">>)
      /\ Sound(<<"fields", "read">>)
      /\ Sound(<<"fields", "do">>)
      /\ Sound(<<"fields", "chat", "read">>)
      /\ Sound(<<"fields", "chat", "do", "read">>)
      /\ Sound(<<"fields", "generation", "read">>)
      /\ Sound(<<"fields", "generation", "do">>)
      /\ Sound(<<"fields", "generation", "do", "read">>)
      /\ Sound(<<"fields", "chat", "version", "read">>)
      /\ Sound(<<"fields", "chat", "version", "do", "read">>)
      /\ Sound(<<"unknown">>)
  BY DEF Sound, StepName, ChangeStep
<1>2. QED
  BY <1>1 DEF Handlers

LEMMA RoutesFit == \A r \in Routes : r[1] \in Operations /\ r[2] \in Handlers
<1> DEFINE Fit(R) == \A r \in R : r[1] \in Operations /\ r[2] \in Handlers
<1>1. \A P, Q : Fit(P) /\ Fit(Q) => Fit(P \cup Q)
  OBVIOUS
<1>2. Fit(WebhookRoutes)
  BY DEF WebhookRoutes, For, Operations, Handlers
<1>3. Fit(ToolSourceRoutes)
  BY DEF ToolSourceRoutes, For, Operations, Handlers
<1>4. Fit(ChatsRoutes)
  BY DEF ChatsRoutes, For, Operations, Handlers, ImportSteps
<1>5. Fit(ChatRoutes)
  BY DEF ChatRoutes, For, Operations, Handlers
<1>6. Fit(MessageRoutes)
  BY DEF MessageRoutes, For, Operations, Handlers
<1>7. Fit(VersionRoutes)
  BY DEF VersionRoutes, For, Operations, Handlers, PushSteps, DeploySteps, PreviewSteps
<1>8. Fit(PreviewRoutes)
  BY DEF PreviewRoutes, For, Operations, Handlers
<1>9. Fit(GenerationRoutes)
  BY DEF GenerationRoutes, For, Operations, Handlers
<1>10. Fit(CompactRoutes)
  BY DEF CompactRoutes, For, Operations, Handlers
<1>11. Fit(IntegrationRoutes)
  BY DEF IntegrationRoutes, For, Operations, Handlers
<1>12. Fit(For({"queryFeedbackAnalytics"}, <<"query", "read">>))
  BY DEF For, Operations, Handlers
<1> HIDE DEF Fit
<1>13. Fit(Routes)
  BY <1>1, <1>2, <1>3, <1>4, <1>5, <1>6, <1>7, <1>8, <1>9, <1>10, <1>11, <1>12 DEF Routes
<1>14. QED
  BY <1>13 DEF Fit

LEMMA ToolsFit == \A t \in McpTools \cup McpVersionTools : t[2] \in Handlers
BY DEF McpTools, McpVersionTools, For, Handlers

OpResult == {"open", "host", "ok", "refused", "failed"}

ApiTypes ==
    /\ Operation \in Nat
    /\ request = [via |-> request.via, prog |-> request.prog, matched |-> request.matched, pc |-> request.pc]
    /\ request.pc = "unasked" \/ request.prog \in Handlers
    /\ started \in Int /\ outcome \in [0..Operation -> OpResult]
    /\ work \in [at: Nat, changes: Nat, runs: Nat] /\ chatLive \in BOOLEAN

\* How far the request came says what middleware was started, and whether the handler was.
ChainFits ==
    /\ started <= Operation
    /\ work.runs = IF started = Operation THEN 1 ELSE 0
    /\ request.pc \in {"unasked", "authenticate", "authorize", "admit", "enter"} \/ told = "gate" =>
         started = -1
    /\ told = "gate" => request.pc = "answered"
    /\ started # Operation => work.at = 0 /\ work.changes = 0
    /\ started = Operation => request.pc # "unasked" /\ work.at \in 1..Len(request.prog)
    /\ request.pc # "unasked" /\ Changes(request.prog) => request.matched \/ request.via \in {"mcp", "callback"}

\* A refusal comes from the handler, before it has changed anything, or as the promise has it.
EffectFits ==
    /\ work.changes > 0 => Changes(request.prog)
    /\ work.changes > 0 /\ outcome[Operation] = "open" =>
         \E i \in DOMAIN request.prog : i < work.at /\ request.prog[i] \in ChangeStep
    /\ outcome[Operation] = "refused" => work.changes = 0 \/ ~chatLive \/ ChatFirst
    /\ \A i \in 0..Operation : outcome[i] = "refused" => outcome[Operation] = "refused"
    /\ told = "refused" => outcome[Operation] = "refused"

ApiInv == ApiTypes /\ ChainFits /\ EffectFits

LEMMA ApiInitInv == ApiInit => ApiInv
<1> SUFFICES ASSUME ApiInit PROVE ApiInv
  OBVIOUS
<1>1. Operation \in Nat
  BY ApiAssumption DEF ApiAssumption, Operation
<1>2. ApiTypes
  BY <1>1 DEF ApiInit, ApiTypes, OpResult
<1>3. ChainFits
  BY <1>1 DEF ApiInit, ChainFits
<1>4. EffectFits
  BY <1>1 DEF ApiInit, EffectFits
<1>5. QED
  BY <1>2, <1>3, <1>4 DEF ApiInv

LEMMA AskedInv ==
    ASSUME ApiInv, NEW via, NEW p \in Handlers, NEW m, NEW pc \in {"authenticate", "enter"},
           Changes(p) => m \/ via \in {"mcp", "callback"}, Ask(via, p, m, pc)
    PROVE  ApiInv'
<1>1. /\ request.pc = "unasked" /\ request'.pc = pc /\ request'.prog = p /\ request'.matched = m
      /\ request'.via = via /\ UNCHANGED <<started, outcome, work, chatLive, told>>
  BY DEF Ask
<1>2. started # Operation /\ work.at = 0 /\ work.changes = 0 /\ started = -1 /\ Operation \in Nat
  BY <1>1 DEF ApiInv, ApiTypes, ChainFits
<1>3. ApiTypes'
  BY <1>1 DEF ApiInv, ApiTypes, Ask
<1>4. ChainFits'
  BY <1>1, <1>2 DEF ApiInv, ChainFits
<1>5. EffectFits'
  BY <1>1, <1>2 DEF ApiInv, EffectFits
<1>6. QED
  BY <1>3, <1>4, <1>5 DEF ApiInv

LEMMA AskInv == ASSUME ApiInv, AskOverHttp \/ AskOverMcp PROVE ApiInv'
<1>1. <<"unknown">> \in Handlers /\ <<"do">> \in Handlers /\ ~Changes(<<"unknown">>)
  BY DEF Handlers, Changes, ChangeStep
<1>2. CASE AskOverHttp
  <2>1. CASE \E r \in Routes : Ask("web", r[2], r[1] \in Operations, "authenticate")
                            \/ Ask("http", r[2], r[1] \in Operations, "authenticate")
    BY <2>1, RoutesFit, AskedInv
  <2>2. CASE Ask("http", <<"unknown">>, FALSE, "authenticate")
    BY <1>1, <2>2, AskedInv
  <2>3. CASE Ask("callback", <<"do">>, FALSE, "enter")
    BY <1>1, <2>3, AskedInv
  <2>4. QED
    BY <1>2, <2>1, <2>2, <2>3 DEF AskOverHttp
<1>3. CASE AskOverMcp
  BY <1>3, ToolsFit, AskedInv DEF AskOverMcp
<1>4. QED
  BY <1>2, <1>3

LEMMA GateInv ==
    ASSUME ApiInv, NEW pc \in {"authenticate", "authorize", "admit"},
           NEW next \in {"authorize", "admit", "enter"}, Gate(pc, next)
    PROVE  ApiInv'
<1>1. PICK q \in {next, "answered"} : request' = [request EXCEPT !.pc = q] /\ ((q = next /\ told' = told) \/ (q = "answered" /\ told' = "gate"))
  BY DEF Gate
<1>2. request.pc = pc /\ UNCHANGED <<started, outcome, work, chatLive>>
  BY DEF Gate
<1>3. /\ request'.pc = q /\ request'.prog = request.prog /\ request'.matched = request.matched
      /\ request'.via = request.via
      /\ request' = [via |-> request'.via, prog |-> request'.prog, matched |-> request'.matched,
                     pc |-> request'.pc]
  BY <1>1 DEF ApiInv, ApiTypes
<1>4. started = -1 /\ Operation \in Nat
  BY <1>2 DEF ApiInv, ApiTypes, ChainFits
<1>5. ApiTypes'
  BY <1>2, <1>3 DEF ApiInv, ApiTypes
<1>6. (told' = "gate" => request'.pc = "answered") /\ request'.pc # "unasked" /\ request.pc # "unasked"
  BY <1>1, <1>2, <1>3 DEF ApiInv, ChainFits
<1>7. ChainFits'
  BY <1>2, <1>3, <1>4, <1>6 DEF ApiInv, ChainFits
<1>8. told' = told \/ told' = "gate"
  BY <1>1
<1>9. EffectFits'
  BY <1>2, <1>3, <1>8 DEF ApiInv, EffectFits, ChatFirst
<1>10. QED
  BY <1>5, <1>7, <1>9 DEF ApiInv

LEMMA DispatchInv ==
    ASSUME ApiInv, NEW i \in 0..Operation, Dispatch(i), UNCHANGED <<outcome, chatLive, told>>,
           request.pc # "unasked", request'.pc \in {"inside", "answered"}, told # "gate",
           request'.prog = request.prog, request'.matched = request.matched, request'.via = request.via,
           request' = [via |-> request'.via, prog |-> request'.prog, matched |-> request'.matched,
                     pc |-> request'.pc]
    PROVE  ApiInv'
<1>1. started < i /\ started' = i /\ Operation \in Nat /\ started # Operation
  BY DEF Dispatch, MayStart, ApiInv, ApiTypes
<1>2. work.at = 0 /\ work.changes = 0 /\ work.runs = 0 /\ work \in [at: Nat, changes: Nat, runs: Nat]
  BY <1>1 DEF ApiInv, ApiTypes, ChainFits
<1>3. /\ work' \in [at: Nat, changes: Nat, runs: Nat] /\ work'.changes = 0
      /\ work'.runs = IF started' = Operation THEN 1 ELSE 0
      /\ work'.at = IF started' = Operation THEN 1 ELSE 0
  <2>1. CASE i = Operation
    <3>1. work' = [work EXCEPT !.at = 1, !.runs = @ + 1]
      BY <2>1 DEF Dispatch
    <3>2. work' = [at |-> 1, changes |-> work.changes, runs |-> work.runs + 1]
      BY <1>2, <3>1
    <3>3. QED
      BY <1>1, <1>2, <2>1, <3>2
  <2>2. CASE i # Operation
    <3>1. work' = work
      BY <2>2 DEF Dispatch
    <3>2. QED
      BY <1>1, <1>2, <2>2, <3>1
  <2>3. QED
    BY <2>1, <2>2
<1>4. request.prog \in Handlers /\ 1 \in 1..Len(request.prog)
  BY SoundHandlers DEF ApiInv, ApiTypes, Sound
<1>5. ApiTypes'
  BY <1>1, <1>3, <1>4 DEF ApiInv, ApiTypes
<1>6. ChainFits'
  BY <1>1, <1>3, <1>4 DEF ApiInv, ChainFits
<1>7. EffectFits'
  BY <1>3 DEF ApiInv, EffectFits
<1>8. QED
  BY <1>5, <1>6, <1>7 DEF ApiInv

LEMMA EnterInv == ASSUME ApiInv, Enter PROVE ApiInv'
<1> DEFINE i == IF Direct THEN Operation ELSE 0
<1>1. request.pc = "enter" /\ told # "gate" /\ i \in 0..Operation
  BY DEF Enter, ApiInv, ApiTypes, ChainFits
<1>2. request' = [request EXCEPT !.pc = "inside"] /\ UNCHANGED <<outcome, chatLive, told>> /\ Dispatch(i)
  BY DEF Enter
<1>3. /\ request'.pc = "inside" /\ request'.prog = request.prog /\ request'.matched = request.matched
      /\ request'.via = request.via
      /\ request' = [via |-> request'.via, prog |-> request'.prog, matched |-> request'.matched,
                     pc |-> request'.pc]
  BY <1>2 DEF ApiInv, ApiTypes
<1> HIDE DEF i
<1>4. QED
  BY <1>1, <1>2, <1>3, DispatchInv

LEMMA CallNextInv == ASSUME ApiInv, NEW i \in 0..(Operation - 1), CallNext(i) PROVE ApiInv'
<1>1. request.pc \in {"inside", "answered"} /\ 0 <= started /\ i + 1 \in 0..Operation /\ Dispatch(i + 1)
  BY DEF CallNext, Inside, ApiInv, ApiTypes
<1>2. request' = request /\ UNCHANGED <<outcome, chatLive, told>>
  BY DEF CallNext
<1>3. told # "gate"
  BY <1>1 DEF ApiInv, ChainFits
<1>4. request' = [via |-> request'.via, prog |-> request'.prog, matched |-> request'.matched,
                     pc |-> request'.pc]
  BY <1>2 DEF ApiInv, ApiTypes
<1>5. QED
  BY <1>1, <1>2, <1>3, <1>4, DispatchInv

LEMMA ReturnInv == ASSUME ApiInv, NEW i \in 0..(Operation - 1), Return(i) PROVE ApiInv'
<1>1. PICK x \in {"host"} \cup ({outcome[i + 1]} \ {"open"}) : outcome' = [outcome EXCEPT ![i] = x]
  BY DEF Return
<1>2. UNCHANGED <<request, started, work, chatLive, told>> /\ Operation \in Nat
  BY DEF Return, ApiInv, ApiTypes
<1>3. x \in OpResult /\ i \in 0..Operation /\ i # Operation /\ outcome \in [0..Operation -> OpResult]
      /\ i + 1 \in 0..Operation
  BY <1>1, <1>2 DEF OpResult, ApiInv, ApiTypes
<1>4. /\ outcome' \in [0..Operation -> OpResult] /\ outcome'[Operation] = outcome[Operation]
      /\ \A j \in 0..Operation : outcome'[j] = IF j = i THEN x ELSE outcome[j]
  BY <1>1, <1>2, <1>3
<1>5. ApiTypes'
  BY <1>2, <1>4 DEF ApiInv, ApiTypes
<1>6. ChainFits'
  BY <1>2 DEF ApiInv, ChainFits
<1>7. x = "refused" => outcome[Operation] = "refused"
  BY <1>1, <1>3 DEF ApiInv, EffectFits
<1>8. EffectFits'
  BY <1>2, <1>4, <1>7 DEF ApiInv, EffectFits, ChatFirst
<1>9. QED
  BY <1>5, <1>6, <1>8 DEF ApiInv

LEMMA AnswerInv == ASSUME ApiInv, AnswerRequest PROVE ApiInv'
<1> DEFINE x == outcome[IF Direct THEN Operation ELSE 0]
<1>1. request' = [request EXCEPT !.pc = "answered"] /\ request.pc = "inside" /\ told' \in {x, "lost"}
      /\ UNCHANGED <<started, outcome, work, chatLive>>
  BY DEF AnswerRequest
<1>2. Operation \in Nat /\ x \in OpResult /\ (x = "refused" => outcome[Operation] = "refused")
  BY DEF ApiInv, ApiTypes, EffectFits
<1>3. /\ request'.pc = "answered" /\ request'.prog = request.prog /\ request'.matched = request.matched
      /\ request'.via = request.via
      /\ request' = [via |-> request'.via, prog |-> request'.prog, matched |-> request'.matched,
                     pc |-> request'.pc]
  BY <1>1 DEF ApiInv, ApiTypes
<1> HIDE DEF x
<1>4. ApiTypes'
  BY <1>1, <1>3 DEF ApiInv, ApiTypes
<1>5. told' # "gate"
  BY <1>1, <1>2 DEF OpResult
<1>6. ChainFits'
  BY <1>1, <1>3, <1>5 DEF ApiInv, ChainFits
<1>7. EffectFits'
  BY <1>1, <1>2, <1>3 DEF ApiInv, EffectFits, ChatFirst
<1>8. QED
  BY <1>4, <1>6, <1>7 DEF ApiInv

\* Handlers

\* A handler at work was started with the operation, and all it has changed lies behind it.
LEMMA AtWork ==
    ASSUME ApiInv, Handling
    PROVE  /\ started = Operation /\ Operation \in Nat /\ request.pc # "unasked"
           /\ work.at \in 1..Len(request.prog) /\ Len(request.prog) \in Nat
           /\ request.prog \in Seq(StepName)
           /\ work.changes > 0 => Changes(request.prog)
           /\ work.changes > 0 => Step = "read" \/ ChatFirst
<1>1. started = Operation /\ Operation \in Nat /\ request.pc # "unasked"
      /\ work.at \in 1..Len(request.prog) /\ request.prog \in Handlers
  BY DEF Handling, ApiInv, ApiTypes, ChainFits
<1>2. Sound(request.prog)
  BY <1>1, SoundHandlers
<1>3. request.prog \in Seq(StepName) /\ Len(request.prog) \in Nat
      /\ DOMAIN request.prog = 1..Len(request.prog)
  BY <1>2 DEF Sound
<1>4. ASSUME work.changes > 0 PROVE Step = "read" \/ ChatFirst
  <2>1. PICK i \in DOMAIN request.prog : i < work.at /\ request.prog[i] \in ChangeStep
    BY <1>4 DEF Handling, ApiInv, EffectFits
  <2>2. QED
    BY <1>1, <1>2, <1>3, <2>1 DEF Sound, Step, ChatFirst
<1>5. QED
  BY <1>1, <1>3, <1>4 DEF ApiInv, EffectFits

LEMMA EndedInv ==
    ASSUME ApiInv, Handling, UNCHANGED <<request, started, chatLive, told>>, work' = work,
           NEW how \in OpResult \ {"open", "host"}, outcome' \in [0..Operation -> OpResult],
           outcome'[Operation] = how, \A j \in 0..Operation : j # Operation => outcome'[j] = outcome[j],
           how = "refused" => work.changes = 0 \/ ~chatLive \/ ChatFirst
    PROVE  ApiInv'
<1>1. outcome[Operation] = "open"
  BY DEF Handling
<1>2. ApiTypes'
  BY DEF ApiInv, ApiTypes
<1>3. ChainFits'
  BY DEF ApiInv, ChainFits
<1>4. EffectFits'
  BY <1>1 DEF ApiInv, EffectFits, ChatFirst, ApiTypes
<1>5. QED
  BY <1>2, <1>3, <1>4 DEF ApiInv

\* The handler goes on, or ends; a refusal finds nothing changed, or what the promise excepts.
LEMMA HandledInv ==
    ASSUME ApiInv, Handling, Step \notin ChangeStep, UNCHANGED <<request, started, chatLive, told>>,
           Proceed \/ \E how \in OpResult \ {"open", "host"} :
              End(how) /\ (how = "refused" => work.changes = 0 \/ ~chatLive \/ ChatFirst)
    PROVE  ApiInv'
<1>1. /\ started = Operation /\ Operation \in Nat /\ work.at \in 1..Len(request.prog)
      /\ Len(request.prog) \in Nat /\ outcome[Operation] = "open"
  BY AtWork DEF Handling
<1>2. CASE \E how \in OpResult \ {"open", "host"} :
              End(how) /\ (how = "refused" => work.changes = 0 \/ ~chatLive \/ ChatFirst)
  <2>1. PICK how \in OpResult \ {"open", "host"} :
              End(how) /\ (how = "refused" => work.changes = 0 \/ ~chatLive \/ ChatFirst)
    BY <1>2
  <2>2. /\ work' = work /\ outcome' \in [0..Operation -> OpResult] /\ outcome'[Operation] = how
        /\ \A j \in 0..Operation : j # Operation => outcome'[j] = outcome[j]
    BY <1>1, <2>1 DEF End, ApiInv, ApiTypes
  <2>3. QED
    BY <1>1, <2>1, <2>2, EndedInv
<1>3. CASE Proceed
  <2>1. CASE work.at = Len(request.prog)
    <3>1. /\ work' = work /\ outcome' \in [0..Operation -> OpResult] /\ outcome'[Operation] = "ok"
          /\ \A j \in 0..Operation : j # Operation => outcome'[j] = outcome[j]
      BY <1>1, <1>3, <2>1 DEF Proceed, ApiInv, ApiTypes, OpResult
    <3>2. "ok" \in OpResult \ {"open", "host"}
      BY DEF OpResult
    <3>3. QED
      BY <1>1, <3>1, <3>2, EndedInv
  <2>2. CASE work.at # Len(request.prog)
    <3>1. work' = [work EXCEPT !.at = @ + 1] /\ outcome' = outcome
      BY <1>3, <2>2 DEF Proceed
    <3>2. /\ work' \in [at: Nat, changes: Nat, runs: Nat] /\ work'.at = work.at + 1
          /\ work'.changes = work.changes /\ work'.runs = work.runs
      BY <3>1 DEF ApiInv, ApiTypes
    <3>3. work'.at \in 1..Len(request.prog)
      BY <1>1, <2>2, <3>2
    <3>4. ApiTypes'
      BY <3>1, <3>2 DEF ApiInv, ApiTypes
    <3>5. ChainFits'
      BY <1>1, <3>2, <3>3 DEF ApiInv, ChainFits
    <3>6. EffectFits'
      BY <1>1, <3>1, <3>2 DEF ApiInv, EffectFits, ApiTypes
    <3>7. QED
      BY <3>4, <3>5, <3>6 DEF ApiInv
  <2>3. QED
    BY <2>1, <2>2
<1>4. QED
  BY <1>2, <1>3

LEMMA LoadInv == ASSUME ApiInv, Load PROVE ApiInv'
<1>1. Handling /\ Step \in {"chat", "version", "generation", "found"}
      /\ UNCHANGED <<request, started, chatLive, told>>
  BY DEF Load
<1>2. Step \notin ChangeStep /\ (work.changes = 0 \/ ChatFirst)
  BY <1>1, AtWork DEF ChangeStep, ApiInv, ApiTypes
<1>3. Proceed \/ End("refused") \/ End("failed")
  BY DEF Load
<1>4. QED
  BY <1>1, <1>2, <1>3, HandledInv DEF OpResult

LEMMA CheckInv == ASSUME ApiInv, CheckBody \/ CheckQuery \/ CheckFields PROVE ApiInv'
<1>1. Handling /\ Step \in {"body", "unknown", "query", "fields"}
      /\ UNCHANGED <<request, started, chatLive, told>>
  BY DEF CheckBody, CheckQuery, CheckFields
<1>2. Step \notin ChangeStep /\ (work.changes = 0 \/ ChatFirst)
  BY <1>1, AtWork DEF ChangeStep, ApiInv, ApiTypes
<1>3. Proceed \/ End("refused") \/ End("failed")
  BY DEF CheckBody, CheckQuery, CheckFields
<1>4. QED
  BY <1>1, <1>2, <1>3, HandledInv DEF OpResult

LEMMA ReadMoreInv == ASSUME ApiInv, ReadMore PROVE ApiInv'
<1>1. Handling /\ Step \notin ChangeStep /\ UNCHANGED <<request, started, chatLive, told>>
  BY DEF ReadMore, ChangeStep
<1>2. Proceed \/ End("failed") \/ ((work.changes = 0 \/ ~chatLive) /\ End("refused"))
  BY DEF ReadMore
<1>3. QED
  BY <1>1, <1>2, HandledInv DEF OpResult

LEMMA MayBeDoneInv == ASSUME ApiInv, MayBeDone PROVE ApiInv'
<1>1. Handling /\ Step \notin ChangeStep /\ UNCHANGED <<request, started, chatLive, told>>
  BY DEF MayBeDone, ChangeStep
<1>2. Proceed \/ End("failed") \/ End("ok")
  BY DEF MayBeDone
<1>3. QED
  BY <1>1, <1>2, HandledInv DEF OpResult

\* The SDK call: it refuses only while nothing is changed, or when more was asked of a new chat.
LEMMA ChangeInv == ASSUME ApiInv, Change PROVE ApiInv'
<1>1. Handling /\ Step \in ChangeStep /\ UNCHANGED <<request, started, told>>
  BY DEF Change, ChangeStep
<1>2. /\ started = Operation /\ Operation \in Nat /\ request.pc # "unasked"
      /\ work.at \in 1..Len(request.prog) /\ Len(request.prog) \in Nat
      /\ request.prog \in Seq(StepName) /\ outcome[Operation] = "open"
      /\ work.changes > 0 => ChatFirst
  BY <1>1, AtWork DEF Handling, ChangeStep
<1>3. work.at \in DOMAIN request.prog /\ Changes(request.prog)
  BY <1>1, <1>2 DEF Changes, Step
<1>4. work.changes = 0 \/ ChatFirst
  BY <1>2 DEF ApiInv, ApiTypes
<1>5. CASE (End("refused") \/ End("failed")) /\ UNCHANGED chatLive
  <2>1. PICK how \in {"refused", "failed"} : End(how)
    BY <1>5
  <2>2. /\ work' = work /\ outcome' \in [0..Operation -> OpResult] /\ outcome'[Operation] = how
        /\ \A j \in 0..Operation : j # Operation => outcome'[j] = outcome[j]
    BY <1>2, <2>1 DEF End, ApiInv, ApiTypes, OpResult
  <2>3. how \in OpResult \ {"open", "host"}
    BY DEF OpResult
  <2>4. QED
    BY <1>1, <1>4, <1>5, <2>2, <2>3, EndedInv
<1>6. CASE /\ chatLive' \in BOOLEAN
           /\ \E how \in {"ok", "failed"} : outcome' = [outcome EXCEPT ![Operation] = how]
           /\ work' = [work EXCEPT !.changes = @ + 1]
  <2>1. PICK how \in {"ok", "failed"} : outcome' = [outcome EXCEPT ![Operation] = how]
    BY <1>6
  <2>2. /\ outcome' \in [0..Operation -> OpResult] /\ outcome'[Operation] = how
        /\ \A j \in 0..Operation : j # Operation => outcome'[j] = outcome[j]
    BY <1>2, <2>1 DEF ApiInv, ApiTypes, OpResult
  <2>3. /\ work' \in [at: Nat, changes: Nat, runs: Nat] /\ work'.at = work.at
        /\ work'.changes > 0 /\ work'.runs = work.runs
    BY <1>6 DEF ApiInv, ApiTypes
  <2>4. ApiTypes'
    BY <1>1, <1>6, <2>2, <2>3 DEF ApiInv, ApiTypes
  <2>5. ChainFits'
    BY <1>1, <1>2, <2>3 DEF ApiInv, ChainFits
  <2>6. EffectFits'
    BY <1>1, <1>2, <1>3, <2>2, <2>3 DEF ApiInv, EffectFits
  <2>7. QED
    BY <2>4, <2>5, <2>6 DEF ApiInv
<1>7. CASE /\ chatLive' \in BOOLEAN /\ work.at # Len(request.prog)
           /\ UNCHANGED outcome /\ work' = [work EXCEPT !.changes = @ + 1, !.at = @ + 1]
  <2>1. /\ work' \in [at: Nat, changes: Nat, runs: Nat] /\ work'.at = work.at + 1
        /\ work'.changes > 0 /\ work'.runs = work.runs
    <3>1. work' = [at |-> work.at + 1, changes |-> work.changes + 1, runs |-> work.runs]
      BY <1>7 DEF ApiInv, ApiTypes
    <3>2. QED
      BY <3>1 DEF ApiInv, ApiTypes
  <2>2. ApiTypes'
    BY <1>1, <1>7, <2>1 DEF ApiInv, ApiTypes
  <2>3. ChainFits'
    BY <1>1, <1>2, <1>7, <2>1 DEF ApiInv, ChainFits
  <2>4. work.at < work'.at /\ request.prog[work.at] \in ChangeStep
    BY <1>1, <1>2, <2>1 DEF Step
  <2>5. EffectFits'
    BY <1>1, <1>2, <1>3, <1>7, <2>1, <2>4 DEF ApiInv, EffectFits
  <2>6. QED
    BY <2>2, <2>3, <2>5 DEF ApiInv
<1>8. chatLive \in BOOLEAN
  BY DEF ApiInv, ApiTypes
<1>9. QED
  BY <1>5, <1>6, <1>7, <1>8 DEF Change

LEMMA DeletedMeanwhileInv == ASSUME ApiInv, DeletedMeanwhile PROVE ApiInv'
<1>1. UNCHANGED <<request, started, outcome, work, told>> /\ chatLive' = FALSE
  BY DEF DeletedMeanwhile
<1>2. ApiTypes'
  BY <1>1 DEF ApiInv, ApiTypes
<1>3. ChainFits'
  BY <1>1 DEF ApiInv, ChainFits
<1>4. EffectFits'
  BY <1>1 DEF ApiInv, EffectFits, ChatFirst
<1>5. QED
  BY <1>2, <1>3, <1>4 DEF ApiInv

LEMMA ApiNextInv == ASSUME ApiInv, [ApiNext]_apiVars PROVE ApiInv'
<1>1. CASE AskOverHttp \/ AskOverMcp
  BY <1>1, AskInv
<1>2. CASE AuthenticateRequest \/ AuthorizeRequest \/ AdmitRequest
  BY <1>2, GateInv DEF AuthenticateRequest, AuthorizeRequest, AdmitRequest
<1>3. CASE Enter
  BY <1>3, EnterInv
<1>4. CASE \E i \in 0..(Operation - 1) : CallNext(i) \/ Return(i)
  BY <1>4, CallNextInv, ReturnInv
<1>5. CASE AnswerRequest
  BY <1>5, AnswerInv
<1>6. CASE Load \/ CheckBody \/ CheckQuery \/ CheckFields \/ ReadMore \/ Change \/ MayBeDone
  BY <1>6, LoadInv, CheckInv, ReadMoreInv, ChangeInv, MayBeDoneInv
<1>7. CASE DeletedMeanwhile
  BY <1>7, DeletedMeanwhileInv
<1>8. CASE UNCHANGED apiVars
  BY <1>8 DEF apiVars, ApiInv, ApiTypes, ChainFits, EffectFits, ChatFirst
<1>9. QED
  BY <1>1, <1>2, <1>3, <1>4, <1>5, <1>6, <1>7, <1>8 DEF ApiNext

\* What a caller of the product API is told can be relied on: an operation runs at most once, a
\* request that a gate stops does not run, what changes has passed the host's policy, and a
\* refusal means that nothing was changed, but for a chat created before its prompt is refused
\* and one deleted meanwhile (createVibyApi, runApiMiddleware and the routes).
THEOREM AnswersAlwaysTellTheEffect == ApiSpec => []AnswersTellTheEffect
<1>1. ApiInv => AnswersTellTheEffect
  <2> SUFFICES ASSUME ApiInv PROVE AnswersTellTheEffect
    OBVIOUS
  <2>1. work.runs <= 1 /\ (told = "gate" => work.runs = 0)
    BY DEF ApiInv, ApiTypes, ChainFits
  <2>2. work.changes > 0 => request.matched \/ request.via \in {"mcp", "callback"}
    BY DEF ApiInv, ApiTypes, ChainFits, EffectFits
  <2>3. told = "refused" => work.changes = 0 \/ ~chatLive \/ ChatFirst
    BY DEF ApiInv, EffectFits
  <2>4. QED
    BY <2>1, <2>2, <2>3 DEF AnswersTellTheEffect
<1>2. QED
  BY <1>1, ApiInitInv, ApiNextInv, PTL DEF ApiSpec

----------------------------------------------------------------------------
(* Listings: pages of rows that are written while they are read *)

Row    == [id: Nat, at: Nat, by: Nat]
RowCursor == [k: Collections \cup {"none"}, at: Nat, id: Nat]

OneRowPerId(rows) == \A r, s \in rows : r.id = s.id => r = s

LEMMA MsIsNat == \A t \in Nat : Ms(t) \in Nat
BY DEF Ms, Tick

LEMMA MsOfTick == \A n \in Nat : n * Tick \in Nat /\ Ms(n * Tick) = n
BY DEF Ms, Tick

LEMMA MsGrows == \A s, t \in Nat : s <= t => Ms(s) <= Ms(t)
BY DEF Ms, Tick

\* Rows stand in one order, whatever collection they are of.
LEMMA PrecedesOrders ==
    ASSUME NEW coll, NEW rows \in SUBSET Row, OneRowPerId(rows)
    PROVE  /\ \A r \in rows : ~Precedes(coll, r, r)
           /\ \A r, s, t \in rows : Precedes(coll, r, s) /\ Precedes(coll, s, t) => Precedes(coll, r, t)
           /\ \A r, s \in rows : r = s \/ Precedes(coll, r, s) \/ Precedes(coll, s, r)
<1>1. \A r \in rows : Ms(r.at) \in Nat /\ r.id \in Nat
  BY MsIsNat DEF Row
<1>2. \A r \in rows : ~Precedes(coll, r, r)
  BY <1>1 DEF Precedes, Less
<1>3. \A r, s, t \in rows : Precedes(coll, r, s) /\ Precedes(coll, s, t) => Precedes(coll, r, t)
  BY <1>1 DEF Precedes, Less
<1>4. \A r, s \in rows : r = s \/ Precedes(coll, r, s) \/ Precedes(coll, s, r)
  BY <1>1 DEF Precedes, Less, OneRowPerId
<1>5. QED
  BY <1>2, <1>3, <1>4

\* A set of natural numbers has a least one.
LEMMA LeastNat == ASSUME NEW T \in SUBSET Nat, T # {} PROVE \E n \in T : \A m \in T : n <= m
<1>1. IsWellFoundedOn(OpToRel(<, Nat), Nat)
  BY NatLessThanWellFounded
<1>2. PICK n \in T : \A m \in T : ~(<<m, n>> \in OpToRel(<, Nat))
  BY <1>1, WFMin
<1>3. \A m \in T : ~(m < n)
  BY <1>2 DEF OpToRel
<1>4. QED
  BY <1>3

Before(coll, rows, r) == {s \in rows : Precedes(coll, s, r)}
After(coll, rows, r)  == {s \in rows : Precedes(coll, r, s)}

\* Rows are ranked by how many stand before them, and by how many stand after them.
LEMMA Ranks ==
    ASSUME NEW coll, NEW rows \in SUBSET Row, OneRowPerId(rows), IsFiniteSet(rows), NEW r \in rows
    PROVE  /\ Cardinality(Before(coll, rows, r)) \in Nat /\ Cardinality(After(coll, rows, r)) \in Nat
           /\ Cardinality(Before(coll, rows, r)) < Cardinality(rows)
           /\ \A s \in rows : Precedes(coll, s, r) =>
                /\ Cardinality(Before(coll, rows, s)) < Cardinality(Before(coll, rows, r))
                /\ Cardinality(After(coll, rows, r)) < Cardinality(After(coll, rows, s))
<1>1. \A q \in rows : /\ IsFiniteSet(Before(coll, rows, q)) /\ IsFiniteSet(After(coll, rows, q))
                      /\ Before(coll, rows, q) \subseteq rows /\ After(coll, rows, q) \subseteq rows
  BY FS_Subset DEF Before, After
<1>2. \A q \in rows : Cardinality(Before(coll, rows, q)) \in Nat /\ Cardinality(After(coll, rows, q)) \in Nat
  BY <1>1, FS_CardinalityType
<1>3. Before(coll, rows, r) # rows
  BY PrecedesOrders DEF Before
<1>4. Cardinality(Before(coll, rows, r)) < Cardinality(rows)
  <2>1. Cardinality(Before(coll, rows, r)) <= Cardinality(rows)
        /\ Cardinality(Before(coll, rows, r)) # Cardinality(rows) /\ Cardinality(rows) \in Nat
    BY <1>1, <1>3, FS_Subset, FS_CardinalityType
  <2>2. QED
    BY <1>2, <2>1
<1>5. ASSUME NEW s \in rows, Precedes(coll, s, r)
      PROVE  /\ Cardinality(Before(coll, rows, s)) < Cardinality(Before(coll, rows, r))
             /\ Cardinality(After(coll, rows, r)) < Cardinality(After(coll, rows, s))
  <2>1. /\ Before(coll, rows, s) \subseteq Before(coll, rows, r)
        /\ s \in Before(coll, rows, r) /\ s \notin Before(coll, rows, s)
    BY <1>5, PrecedesOrders DEF Before
  <2>2. /\ After(coll, rows, r) \subseteq After(coll, rows, s)
        /\ r \in After(coll, rows, s) /\ r \notin After(coll, rows, r)
    BY <1>5, PrecedesOrders DEF After
  <2>3. Before(coll, rows, s) # Before(coll, rows, r) /\ After(coll, rows, r) # After(coll, rows, s)
    BY <2>1, <2>2
  <2>4. /\ Cardinality(Before(coll, rows, s)) <= Cardinality(Before(coll, rows, r))
        /\ Cardinality(Before(coll, rows, s)) # Cardinality(Before(coll, rows, r))
    BY <1>1, <2>1, <2>3, FS_Subset
  <2>5. /\ Cardinality(After(coll, rows, r)) <= Cardinality(After(coll, rows, s))
        /\ Cardinality(After(coll, rows, r)) # Cardinality(After(coll, rows, s))
    BY <1>1, <2>2, <2>3, FS_Subset
  <2>6. QED
    BY <1>2, <2>4, <2>5
<1>6. QED
  BY <1>2, <1>4, <1>5

\* Of finitely many rows one is the first, and one is the last.
LEMMA FirstRow ==
    ASSUME NEW coll, NEW rows \in SUBSET Row, OneRowPerId(rows), IsFiniteSet(rows), rows # {}
    PROVE  \E r \in rows : \A s \in rows : ~Precedes(coll, s, r)
<1> DEFINE T == {Cardinality(Before(coll, rows, r)) : r \in rows}
<1>1. T \in SUBSET Nat /\ T # {}
  BY Ranks
<1>2. PICK n \in T : \A m \in T : n <= m
  <2> HIDE DEF T
  <2>1. QED
    BY <1>1, LeastNat
<1>3. PICK r \in rows : n = Cardinality(Before(coll, rows, r))
  OBVIOUS
<1>4. ASSUME NEW s \in rows, Precedes(coll, s, r) PROVE FALSE
  <2>1. Cardinality(Before(coll, rows, s)) < n /\ Cardinality(Before(coll, rows, s)) \in Nat /\ n \in Nat
    BY <1>3, <1>4, Ranks
  <2>2. n <= Cardinality(Before(coll, rows, s))
    BY <1>2
  <2>3. QED
    BY <2>1, <2>2
<1>5. QED
  BY <1>4

LEMMA LastRow ==
    ASSUME NEW coll, NEW rows \in SUBSET Row, OneRowPerId(rows), IsFiniteSet(rows), rows # {}
    PROVE  LastOf(coll, rows) \in rows
           /\ \A s \in rows : s = LastOf(coll, rows) \/ Precedes(coll, s, LastOf(coll, rows))
<1> DEFINE T == {Cardinality(After(coll, rows, r)) : r \in rows}
<1>1. T \in SUBSET Nat /\ T # {}
  BY Ranks
<1>2. PICK n \in T : \A m \in T : n <= m
  <2> HIDE DEF T
  <2>1. QED
    BY <1>1, LeastNat
<1>3. PICK r \in rows : n = Cardinality(After(coll, rows, r))
  OBVIOUS
<1>4. ASSUME NEW s \in rows, Precedes(coll, r, s) PROVE FALSE
  <2>1. Cardinality(After(coll, rows, s)) < n /\ Cardinality(After(coll, rows, s)) \in Nat /\ n \in Nat
    BY <1>3, <1>4, Ranks
  <2>2. n <= Cardinality(After(coll, rows, s))
    BY <1>2
  <2>3. QED
    BY <2>1, <2>2
<1>5. \A s \in rows : s = r \/ Precedes(coll, s, r)
  BY <1>4, PrecedesOrders
<1>6. QED
  BY <1>5 DEF LastOf

\* What is cut off comes after everything that is kept, and nothing is when all of it fits.
LEMMA FirstFits ==
    ASSUME NEW coll, NEW rows \in SUBSET Row, OneRowPerId(rows), IsFiniteSet(rows), NEW n \in Nat
    PROVE  /\ First(coll, rows, n) \subseteq rows /\ IsFiniteSet(First(coll, rows, n))
           /\ \A r \in First(coll, rows, n), s \in rows : Precedes(coll, s, r) => s \in First(coll, rows, n)
           /\ n > 0 /\ rows # {} => First(coll, rows, n) # {}
           /\ Cardinality(First(coll, rows, n)) < n \/ Cardinality(rows) <= n => First(coll, rows, n) = rows
<1> DEFINE F == First(coll, rows, n)
<1>1. F \subseteq rows /\ \A r \in rows : r \in F <=> Cardinality(Before(coll, rows, r)) < n
  BY DEF First, Before
<1> HIDE DEF F
<1>2. IsFiniteSet(F) /\ Cardinality(F) \in Nat /\ Cardinality(rows) \in Nat
  BY <1>1, FS_Subset, FS_CardinalityType
<1>3. ASSUME NEW r \in F, NEW s \in rows, Precedes(coll, s, r) PROVE s \in F
  <2>1. /\ Cardinality(Before(coll, rows, s)) < Cardinality(Before(coll, rows, r))
        /\ Cardinality(Before(coll, rows, s)) \in Nat /\ Cardinality(Before(coll, rows, r)) \in Nat
    BY <1>1, <1>3, Ranks
  <2>2. QED
    BY <1>1, <2>1
<1>4. ASSUME n > 0, rows # {} PROVE F # {}
  <2>1. PICK r \in rows : \A s \in rows : ~Precedes(coll, s, r)
    BY <1>4, FirstRow
  <2>2. Before(coll, rows, r) = {}
    BY <2>1 DEF Before
  <2>3. Cardinality(Before(coll, rows, r)) = 0
    BY <2>2, FS_EmptySet
  <2>4. QED
    BY <1>1, <1>4, <2>3
<1>5. ASSUME Cardinality(rows) <= n PROVE F = rows
  <2>1. ASSUME NEW r \in rows PROVE r \in F
    <3>1. Cardinality(Before(coll, rows, r)) < Cardinality(rows) /\ Cardinality(Before(coll, rows, r)) \in Nat
      BY Ranks
    <3>2. QED
      BY <1>1, <1>2, <1>5, <3>1
  <2>2. QED
    BY <1>1, <2>1
<1>6. ASSUME Cardinality(F) < n PROVE F = rows
  <2> SUFFICES ASSUME rows \ F # {} PROVE FALSE
    BY <1>1
  <2>1. rows \ F \in SUBSET Row /\ OneRowPerId(rows \ F) /\ IsFiniteSet(rows \ F)
    BY FS_Subset DEF OneRowPerId
  <2>2. PICK r \in rows \ F : \A s \in rows \ F : ~Precedes(coll, s, r)
    BY <2>1, FirstRow
  <2>3. Before(coll, rows, r) \subseteq F
    BY <2>2 DEF Before
  <2>4. Cardinality(Before(coll, rows, r)) <= Cardinality(F) /\ Cardinality(Before(coll, rows, r)) \in Nat
    BY <1>2, <2>3, FS_Subset, FS_CardinalityType
  <2>5. QED
    BY <1>1, <1>2, <1>6, <2>2, <2>4
<1>7. QED
  BY <1>1, <1>2, <1>3, <1>4, <1>5, <1>6 DEF F

\* A page is the first of what is behind the cursor; there is more unless it is all of that.
LEMMA ReadPageFits ==
    ASSUME NEW coll \in Collections, listed[coll] \in SUBSET Row, OneRowPerId(listed[coll]),
           IsFiniteSet(listed[coll]), NEW limit \in Nat \ {0}, NEW cursor,
           NEW page, page = PageOf(coll, limit, cursor)
    PROVE  /\ page.items \subseteq RowsBehind(coll, cursor) /\ IsFiniteSet(page.items)
           /\ \A r \in page.items, s \in RowsBehind(coll, cursor) : Precedes(coll, s, r) => s \in page.items
           /\ page.hasMore \in BOOLEAN
           /\ ~page.hasMore => page.items = RowsBehind(coll, cursor)
           /\ page.hasMore => page.items # {}
<1> DEFINE B == RowsBehind(coll, cursor)
           F == First(coll, B, limit + 1)
<1>1. B \in SUBSET Row /\ OneRowPerId(B) /\ IsFiniteSet(B) /\ Cardinality(B) \in Nat /\ limit + 1 \in Nat
      /\ limit \in Nat
  BY FS_Subset, FS_CardinalityType DEF RowsBehind, OneRowPerId
<1> HIDE DEF B
<1>2. CASE page = Cut(coll, B, limit)
  <2>1. page.items = First(coll, B, limit) /\ page.hasMore \in BOOLEAN
        /\ (page.hasMore <=> Cardinality(B) > limit)
    <3>1. page.items = First(coll, B, limit)
      BY <1>2 DEF Cut
    <3>2. page.hasMore = (Cardinality(B) > limit)
      BY <1>2 DEF Cut
    <3>3. (Cardinality(B) > limit) \in BOOLEAN
      OBVIOUS
    <3>4. QED
      BY <3>1, <3>2, <3>3, Zenon
  <2>2. Cardinality(B) > limit => B # {}
    BY <1>1, FS_EmptySet
  <2>3. Cardinality(B) > limit \/ Cardinality(B) <= limit
    BY <1>1
  <2>4. /\ page.items \subseteq B /\ IsFiniteSet(page.items)
        /\ \A r \in page.items, s \in B : Precedes(coll, s, r) => s \in page.items
        /\ B # {} => page.items # {}
        /\ Cardinality(B) <= limit => page.items = B
    BY <1>1, <2>1, FirstFits
  <2>5. QED
    BY <2>1, <2>2, <2>3, <2>4 DEF B
<1>3. CASE page = Cut(coll, F, limit)
  <2>1. page.items = First(coll, F, limit) /\ page.hasMore \in BOOLEAN
        /\ (page.hasMore <=> Cardinality(F) > limit)
    <3>1. page.items = First(coll, F, limit)
      BY <1>3 DEF Cut
    <3>2. page.hasMore = (Cardinality(F) > limit)
      BY <1>3 DEF Cut
    <3>3. (Cardinality(F) > limit) \in BOOLEAN
      OBVIOUS
    <3>4. QED
      BY <3>1, <3>2, <3>3, Zenon
  <2>2. /\ F \subseteq B /\ IsFiniteSet(F)
        /\ \A r \in F, s \in B : Precedes(coll, s, r) => s \in F
        /\ Cardinality(F) < limit + 1 => F = B
    BY <1>1, FirstFits
  <2> HIDE DEF F
  <2>3. F \in SUBSET Row /\ OneRowPerId(F) /\ Cardinality(F) \in Nat
    BY <1>1, <2>2, FS_CardinalityType DEF OneRowPerId
  <2>4. Cardinality(F) > limit => F # {}
    BY <1>1, <2>2, FS_EmptySet
  <2>5. Cardinality(F) > limit \/ (Cardinality(F) <= limit /\ Cardinality(F) < limit + 1)
    BY <1>1, <2>3
  <2>6. /\ page.items \subseteq F /\ IsFiniteSet(page.items)
        /\ \A r \in page.items, s \in F : Precedes(coll, s, r) => s \in page.items
        /\ F # {} => page.items # {}
        /\ Cardinality(F) <= limit => page.items = F
    BY <1>1, <2>1, <2>2, <2>3, FirstFits
  <2>7. QED
    BY <2>1, <2>2, <2>4, <2>5, <2>6 DEF B
<1>4. QED
  BY <1>2, <1>3 DEF PageOf, SelectedPage, FilteredPage, B

Txn == [coll: Collections, row: Row, version: BOOLEAN]
OfMessages == listing.of \in {"messages", "versions"}

ListTypes ==
    /\ listing \in [of: Collections, repo: {"postgres", "memory"}] /\ pageClock \in Nat
    /\ listed \in [Collections -> SUBSET Row]
    /\ \A c \in Collections : IsFiniteSet(listed[c]) /\ OneRowPerId(listed[c])
    /\ uncommitted \in SUBSET Txn
    /\ walk \in [status: {"none", "reading", "over"}, limit: {1, 2}, cursor: RowCursor, read: Seq(SUBSET Row),
                first: SUBSET Row]
    /\ snap \in [whole: BOOLEAN, messages: SUBSET Nat, versions: SUBSET Nat]

\* Which transactions there are: of one listing, and one at a time on a chat's messages.
TxnsFit ==
    \A w \in uncommitted :
       /\ IF OfMessages THEN w.coll = "messages" /\ w.row.by = w.row.id /\ uncommitted = {w}
                        ELSE w.coll = listing.of /\ ~w.version
       /\ w.coll = "messages" =>
            \A r \in listed["messages"] : Ms(r.at) < Ms(w.row.at) /\ r.id # w.row.id

\* Versions are numbered, and each has come with its message.
VersionsFit ==
    \A r \in listed["versions"] :
       r.id <= Cardinality(listed["versions"]) /\ \E m \in listed["messages"] : m.id = r.by
MessagesFit == \A m \in listed["messages"] : m.by = m.id

\* The reader stands at a row: what it has read is not behind that, and of the rows that stand
\* still it has read or is yet to read each.
WalkFits ==
    /\ walk.first \subseteq listed[listing.of]
    /\ walk.cursor = NoCursor \/ walk.cursor.k = listing.of
    /\ walk.status = "none" => walk.cursor = NoCursor /\ walk.read = <<>> /\ walk.first = {}
    /\ walk.status = "reading" =>
         /\ \A r \in AllRead : ~BehindCursor(listing.of, r, walk.cursor)
         /\ \A r \in walk.first : r \in AllRead \/ BehindCursor(listing.of, r, walk.cursor)
    /\ listing.of = "messages" /\ walk.cursor # NoCursor =>
         \E m \in listed["messages"] : walk.cursor = EncodeCursor("messages", m)

SnapFits == snap.whole => \A i \in snap.messages : \E m \in listed["messages"] : m.id = i

ListInv == ListTypes /\ TxnsFit /\ VersionsFit /\ MessagesFit /\ WalkFits /\ SnapFits /\ PagesAreFaithful

LEMMA ListInitInv == ListingsInit => ListInv
<1> SUFFICES ASSUME NEW of \in Collections, NEW repo \in {"postgres", "memory"}, ListingsAt(of, repo)
             PROVE  ListInv
  BY DEF ListingsInit
<1> USE DEF ListingsAt
<1>1. NoCursor \in RowCursor
  BY DEF NoCursor, RowCursor
<1>2. ListTypes
  <2>1. walk \in [status: {"none", "reading", "over"}, limit: {1, 2}, cursor: RowCursor, read: Seq(SUBSET Row),
                  first: SUBSET Row]
    BY <1>1 DEF NoWalk
  <2>2. \A c \in Collections : listed[c] = {}
    OBVIOUS
  <2>3. snap \in [whole: BOOLEAN, messages: SUBSET Nat, versions: SUBSET Nat]
    BY DEF NoSnap
  <2>4. QED
    BY <2>1, <2>2, <2>3, FS_EmptySet DEF ListTypes, OneRowPerId
<1>3. TxnsFit /\ VersionsFit /\ MessagesFit /\ SnapFits
  BY DEF TxnsFit, VersionsFit, MessagesFit, SnapFits, NoSnap, Collections
<1>4. WalkFits
  BY DEF WalkFits, NoWalk
<1>5. PagesAreFaithful
  BY DEF PagesAreFaithful, WalkKeepsOrder, StandingRowsAreRead, NoMessageIsPassed, SnapshotIsWhole, NoWalk,
         NoSnap, AllRead
<1>6. QED
  BY <1>2, <1>3, <1>4, <1>5 DEF ListInv

\* The rows stay.
LEMMA OpenWalkInv == ASSUME ListInv, OpenWalk PROVE ListInv'
<1>1. PICK limit \in {1, 2} :
        walk' = [NoWalk EXCEPT !.status = "reading", !.limit = limit, !.first = listed[listing.of]]
  BY DEF OpenWalk
<1>2. UNCHANGED <<listing, pageClock, listed, uncommitted, snap>>
  BY DEF OpenWalk
<1>3. listed[listing.of] \in SUBSET Row
  BY DEF ListInv, ListTypes
<1>4. walk' = [status |-> "reading", limit |-> limit, cursor |-> NoCursor, read |-> <<>>,
               first |-> listed[listing.of]]
  BY <1>1 DEF NoWalk
<1>5. NoCursor \in RowCursor
  BY DEF NoCursor, RowCursor
<1>6. ListTypes'
  BY <1>2, <1>3, <1>4, <1>5 DEF ListInv, ListTypes
<1>7. AllRead' = {}
  BY <1>4 DEF AllRead
<1>8. WalkFits'
  BY <1>2, <1>4, <1>7 DEF WalkFits, BehindCursor
<1>9. TxnsFit' /\ VersionsFit' /\ MessagesFit' /\ SnapFits'
  BY <1>2 DEF ListInv, TxnsFit, VersionsFit, MessagesFit, SnapFits, OfMessages
<1>10. WalkKeepsOrder' /\ StandingRowsAreRead' /\ NoMessageIsPassed'
  BY <1>4 DEF WalkKeepsOrder, StandingRowsAreRead, NoMessageIsPassed
<1>11. SnapshotIsWhole'
  BY <1>2 DEF ListInv, PagesAreFaithful, SnapshotIsWhole
<1>12. QED
  BY <1>6, <1>8, <1>9, <1>10, <1>11 DEF ListInv, PagesAreFaithful

\* A cursor is of the row it was made from: what is behind the one is after the other.
LEMMA CursorOfRow ==
    ASSUME NEW coll \in Collections, NEW r \in Row, NEW s \in Row
    PROVE  /\ EncodeCursor(coll, r) \in RowCursor /\ EncodeCursor(coll, r) # NoCursor
           /\ EncodeCursor(coll, r).k = coll
           /\ BehindCursor(coll, s, EncodeCursor(coll, r)) <=> Precedes(coll, r, s)
<1>1. EncodeCursor(coll, r) = [k |-> coll, at |-> Ms(r.at), id |-> r.id] /\ coll # "none"
  BY DEF EncodeCursor, Collections
<1>2. Ms(r.at) \in Nat /\ r.id \in Nat
  BY MsIsNat DEF Row
<1>3. EncodeCursor(coll, r) # NoCursor /\ EncodeCursor(coll, r) \in RowCursor
  BY <1>1, <1>2 DEF NoCursor, RowCursor
<1>4. BehindCursor(coll, s, EncodeCursor(coll, r)) <=> Precedes(coll, r, s)
  BY <1>1, <1>3 DEF BehindCursor, Precedes
<1>5. QED
  BY <1>1, <1>3, <1>4

\* What a cursor has passed comes before what is behind it.
LEMMA PassedPrecedes ==
    ASSUME NEW coll, NEW c \in RowCursor, NEW r \in Row, NEW s \in Row,
           ~BehindCursor(coll, r, c), BehindCursor(coll, s, c)
    PROVE  Precedes(coll, r, s)
<1>1. Ms(r.at) \in Nat /\ r.id \in Nat /\ Ms(s.at) \in Nat /\ s.id \in Nat /\ c.at \in Nat /\ c.id \in Nat
  BY MsIsNat DEF Row, RowCursor
<1>2. QED
  BY <1>1 DEF BehindCursor, Precedes, Less

LEMMA ReadNextPageInv == ASSUME ListInv, ReadNextPage PROVE ListInv'
<1> DEFINE of == listing.of
           cursor == walk.cursor
           B == RowsBehind(of, cursor)
<1>1. /\ of \in Collections /\ cursor \in RowCursor /\ walk.limit \in Nat \ {0} /\ listed[of] \in SUBSET Row
      /\ OneRowPerId(listed[of]) /\ IsFiniteSet(listed[of]) /\ walk.status = "reading"
      /\ walk.read \in Seq(SUBSET Row) /\ walk.first \in SUBSET Row
  BY DEF ListInv, ListTypes, ReadNextPage
<1>2. PICK page :
        /\ page = PageOf(of, walk.limit, cursor)
        /\ walk' = [walk EXCEPT !.read = Append(@, page.items), !.cursor = NextCursor(of, page),
                                !.status = IF page.hasMore THEN "reading" ELSE "over"]
  BY DEF ReadNextPage, DecodeCursor
<1>3. UNCHANGED <<listing, pageClock, listed, uncommitted, snap>>
  BY DEF ReadNextPage
<1>4. /\ page.items \subseteq B /\ IsFiniteSet(page.items)
      /\ \A r \in page.items, s \in B : Precedes(of, s, r) => s \in page.items
      /\ page.hasMore \in BOOLEAN
      /\ ~page.hasMore => page.items = B
      /\ page.hasMore => page.items # {}
  BY <1>1, <1>2, ReadPageFits
<1>5. B \subseteq listed[of] /\ \A r \in B : BehindCursor(of, r, cursor)
  BY DEF RowsBehind
<1> HIDE DEF B
<1>6. page.items \in SUBSET Row /\ OneRowPerId(page.items)
  BY <1>1, <1>4, <1>5 DEF OneRowPerId
<1> DEFINE last == LastOf(of, page.items)
<1>7. page.hasMore => last \in page.items /\ last \in Row /\ last \in B
                      /\ \A s \in page.items : s = last \/ Precedes(of, s, last)
  BY <1>4, <1>6, LastRow
<1> DEFINE new == NextCursor(of, page)
<1>8. new = IF page.hasMore THEN EncodeCursor(of, last) ELSE NoCursor
  BY DEF NextCursor
<1>9. new \in RowCursor /\ (page.hasMore => new # NoCursor /\ new.k = of)
  <2>1. NoCursor \in RowCursor
    BY DEF NoCursor, RowCursor
  <2>2. QED
    BY <1>1, <1>7, <1>8, <2>1, CursorOfRow
<1> HIDE DEF last, new
<1>10. /\ walk'.read = Append(walk.read, page.items) /\ walk'.cursor = new
       /\ walk'.status = IF page.hasMore THEN "reading" ELSE "over"
       /\ walk'.limit = walk.limit /\ walk'.first = walk.first
       /\ walk' \in [status: {"none", "reading", "over"}, limit: {1, 2}, cursor: RowCursor, read: Seq(SUBSET Row),
                    first: SUBSET Row]
  <2>1. walk \in [status: {"none", "reading", "over"}, limit: {1, 2}, cursor: RowCursor, read: Seq(SUBSET Row),
                  first: SUBSET Row]
    BY DEF ListInv, ListTypes
  <2>2. walk' = [status |-> IF page.hasMore THEN "reading" ELSE "over", limit |-> walk.limit, cursor |-> new,
                 read |-> Append(walk.read, page.items), first |-> walk.first]
    BY <1>2, <2>1 DEF new
  <2>3. QED
    BY <1>6, <1>9, <2>1, <2>2
<1>11. AllRead' = AllRead \cup page.items /\ AllRead \in SUBSET Row
  <2>1. \A i \in DOMAIN walk'.read : i \in DOMAIN walk.read \/ walk'.read[i] = page.items
    BY <1>1, <1>10
  <2>2. \A i \in DOMAIN walk.read : i \in DOMAIN walk'.read /\ walk'.read[i] = walk.read[i]
    BY <1>1, <1>6, <1>10
  <2>3. Len(walk.read) + 1 \in DOMAIN walk'.read /\ walk'.read[Len(walk.read) + 1] = page.items
    BY <1>1, <1>6, <1>10
  <2>4. \A i \in DOMAIN walk.read : walk.read[i] \in SUBSET Row
    BY <1>1
  <2>5. QED
    BY <2>1, <2>2, <2>3, <2>4 DEF AllRead
<1>12. ListTypes'
  BY <1>3, <1>10 DEF ListInv, ListTypes
<1>13. TxnsFit' /\ VersionsFit' /\ MessagesFit' /\ SnapFits' /\ SnapshotIsWhole'
  BY <1>3 DEF ListInv, TxnsFit, VersionsFit, MessagesFit, SnapFits, OfMessages, PagesAreFaithful, SnapshotIsWhole
<1>14. \A r \in AllRead : ~BehindCursor(of, r, cursor)
  BY <1>1 DEF ListInv, WalkFits
<1>15. \A r \in walk.first : r \in AllRead \/ r \in B
  BY <1>1 DEF ListInv, WalkFits, B, RowsBehind
<1>16. \A r \in AllRead, s \in page.items : Precedes(of, r, s)
  BY <1>1, <1>4, <1>5, <1>6, <1>11, <1>14, PassedPrecedes
<1>17. WalkKeepsOrder'
  <2> SUFFICES ASSUME NEW i \in DOMAIN walk'.read, NEW j \in DOMAIN walk'.read, i < j,
                      NEW r \in walk'.read[i], NEW s \in walk'.read[j]
               PROVE  Precedes(of, r, s)
    BY <1>3 DEF WalkKeepsOrder
  <2>1. i \in DOMAIN walk.read /\ walk'.read[i] = walk.read[i]
    BY <1>1, <1>6, <1>10
  <2>2. CASE j \in DOMAIN walk.read
    <3>1. walk'.read[j] = walk.read[j]
      BY <1>1, <1>6, <1>10, <2>2
    <3>2. QED
      BY <2>1, <2>2, <3>1 DEF ListInv, PagesAreFaithful, WalkKeepsOrder
  <2>3. CASE j \notin DOMAIN walk.read
    <3>1. walk'.read[j] = page.items
      BY <1>1, <1>6, <1>10, <2>3
    <3>2. r \in AllRead
      BY <2>1 DEF AllRead
    <3>3. QED
      BY <1>16, <3>1, <3>2
  <2>4. QED
    BY <2>2, <2>3
<1>18. StandingRowsAreRead'
  BY <1>4, <1>10, <1>11, <1>15 DEF StandingRowsAreRead
<1>19. ASSUME page.hasMore
       PROVE  /\ \A r \in AllRead' : ~BehindCursor(of, r, new)
              /\ \A r \in B : r \in page.items \/ BehindCursor(of, r, new)
  <2>1. new = EncodeCursor(of, last) /\ last \in page.items /\ last \in Row /\ last \in B
    BY <1>7, <1>8, <1>19
  <2>2. \A s \in Row : BehindCursor(of, s, new) <=> Precedes(of, last, s)
    BY <1>1, <2>1, CursorOfRow
  <2>3. B \in SUBSET Row /\ OneRowPerId(B)
    BY <1>1, <1>5 DEF OneRowPerId
  <2>4. ASSUME NEW r \in B, r \notin page.items PROVE BehindCursor(of, r, new)
    <3>1. r = last \/ Precedes(of, r, last) \/ Precedes(of, last, r)
      BY <2>1, <2>3, PrecedesOrders
    <3>2. QED
      BY <1>4, <2>1, <2>2, <2>3, <2>4, <3>1
  <2>5. ASSUME NEW r \in page.items PROVE ~Precedes(of, last, r)
    <3>1. r = last \/ Precedes(of, r, last)
      BY <1>7, <1>19
    <3>2. QED
      BY <1>4, <2>1, <2>3, <3>1, PrecedesOrders
  <2>6. ASSUME NEW r \in AllRead PROVE ~Precedes(of, last, r)
    <3>1. Precedes(of, r, last) /\ r \in Row
      BY <1>11, <1>16, <2>1
    <3>2. Ms(r.at) \in Nat /\ r.id \in Nat /\ Ms(last.at) \in Nat /\ last.id \in Nat
      BY <2>1, <3>1, MsIsNat DEF Row
    <3>3. QED
      BY <3>1, <3>2 DEF Precedes, Less
  <2>7. \A r \in AllRead' : r \in Row /\ ~Precedes(of, last, r)
    BY <1>6, <1>11, <2>5, <2>6
  <2>8. QED
    BY <2>2, <2>4, <2>7
<1>20. ASSUME page.hasMore, of = "messages"
       PROVE  \E m \in listed["messages"] : new = EncodeCursor("messages", m)
  BY <1>5, <1>7, <1>8, <1>20
<1>21. WalkFits'
  <2>1. walk'.status = "reading" => page.hasMore
    BY <1>10
  <2>2. walk'.status # "none" /\ walk'.cursor = new /\ (~page.hasMore => new = NoCursor)
    BY <1>8, <1>10
  <2>3. walk.first \subseteq listed[of]
    BY DEF ListInv, WalkFits
  <2>4. walk'.status = "reading" =>
           /\ \A r \in AllRead' : ~BehindCursor(of, r, new)
           /\ \A r \in walk.first : r \in AllRead' \/ BehindCursor(of, r, new)
    BY <1>11, <1>15, <1>19, <2>1
  <2>5. QED
    BY <1>3, <1>9, <1>10, <1>20, <2>2, <2>3, <2>4 DEF WalkFits
<1>22. NoMessageIsPassed'
  <2> SUFFICES ASSUME of = "messages", new # NoCursor, NEW r \in listed["messages"]
               PROVE  BehindCursor("messages", r, new) \/ r \in AllRead'
    BY <1>3, <1>10 DEF NoMessageIsPassed
  <2>1. page.hasMore
    BY <1>8
  <2>2. r \in B \/ r \in AllRead
    <3>1. CASE cursor = NoCursor
      BY <3>1 DEF B, RowsBehind, BehindCursor
    <3>2. CASE cursor # NoCursor
      BY <3>2 DEF B, RowsBehind, ListInv, PagesAreFaithful, NoMessageIsPassed
    <3>3. QED
      BY <3>1, <3>2
  <2>3. QED
    BY <1>11, <1>19, <2>1, <2>2
<1>23. QED
  BY <1>12, <1>13, <1>17, <1>18, <1>21, <1>22 DEF ListInv, PagesAreFaithful

LEMMA ReadSnapshotInv == ASSUME ListInv, ReadSnapshot PROVE ListInv'
<1>1. /\ \A c \in Collections : listed[c] \in SUBSET Row /\ OneRowPerId(listed[c]) /\ IsFiniteSet(listed[c])
      /\ "messages" \in Collections /\ "versions" \in Collections
  BY DEF ListInv, ListTypes, Collections
<1>2. PICK messages, versions :
        /\ messages = PageOf("messages", 2, NoCursor) /\ versions = PageOf("versions", 2, NoCursor)
        /\ snap' = [whole |-> ~messages.hasMore /\ ~versions.hasMore,
                    messages |-> {r.by : r \in messages.items}, versions |-> {r.by : r \in versions.items}]
  BY DEF ReadSnapshot
<1>3. UNCHANGED <<listing, pageClock, listed, uncommitted, walk>>
  BY DEF ReadSnapshot
<1>4. \A c \in Collections : RowsBehind(c, NoCursor) = listed[c]
  BY DEF RowsBehind, BehindCursor
<1>5. /\ messages.items \subseteq listed["messages"] /\ messages.hasMore \in BOOLEAN
      /\ ~messages.hasMore => messages.items = listed["messages"]
  BY <1>1, <1>2, <1>4, ReadPageFits
<1>6. /\ versions.items \subseteq listed["versions"] /\ versions.hasMore \in BOOLEAN
      /\ ~versions.hasMore => versions.items = listed["versions"]
  BY <1>1, <1>2, <1>4, ReadPageFits
<1>7. /\ snap'.whole \in BOOLEAN /\ (snap'.whole => ~messages.hasMore /\ ~versions.hasMore)
      /\ snap'.messages = {r.by : r \in messages.items} /\ snap'.versions = {r.by : r \in versions.items}
      /\ snap' \in [whole: BOOLEAN, messages: SUBSET Nat, versions: SUBSET Nat]
  <2>1. {r.by : r \in messages.items} \in SUBSET Nat /\ {r.by : r \in versions.items} \in SUBSET Nat
    BY <1>1, <1>5, <1>6 DEF Row
  <2>2. PICK h \in BOOLEAN : h <=> (~messages.hasMore /\ ~versions.hasMore)
    OBVIOUS
  <2>3. snap' = [whole |-> h, messages |-> {r.by : r \in messages.items},
                 versions |-> {r.by : r \in versions.items}]
    BY <1>2, <1>5, <1>6, <2>2, Zenon
  <2>4. QED
    BY <2>1, <2>2, <2>3
<1>8. ListTypes'
  BY <1>3, <1>7 DEF ListInv, ListTypes
<1>9. TxnsFit' /\ VersionsFit' /\ MessagesFit'
  BY <1>3 DEF ListInv, TxnsFit, VersionsFit, MessagesFit, OfMessages
<1>10. WalkFits' /\ WalkKeepsOrder' /\ StandingRowsAreRead' /\ NoMessageIsPassed'
  BY <1>3 DEF ListInv, PagesAreFaithful, WalkFits, WalkKeepsOrder, StandingRowsAreRead, NoMessageIsPassed, AllRead
<1>11. \A m \in listed["messages"] : m.by = m.id
  BY DEF ListInv, MessagesFit
<1>12. SnapFits'
  BY <1>3, <1>5, <1>7, <1>11 DEF SnapFits
<1>13. SnapshotIsWhole'
  <2> SUFFICES ASSUME snap'.whole
               PROVE  snap'.versions = {r.by : r \in listed["versions"]} \cap snap'.messages
    BY <1>3 DEF SnapshotIsWhole
  <2>1. /\ snap'.messages = {r.by : r \in listed["messages"]}
        /\ snap'.versions = {r.by : r \in listed["versions"]}
    BY <1>5, <1>6, <1>7
  <2>2. \A r \in listed["versions"] : \E m \in listed["messages"] : m.by = r.by
    BY <1>11 DEF ListInv, VersionsFit
  <2>3. QED
    BY <2>1, <2>2
<1>14. QED
  BY <1>8, <1>9, <1>10, <1>12, <1>13 DEF ListInv, PagesAreFaithful

\* In what a step leaves of the rows that stood still nothing else can be.
LEMMA FirstShrinks ==
    ASSUME ListInv, NEW f \in SUBSET walk.first, walk' = [walk EXCEPT !.first = f], UNCHANGED listing,
           f \subseteq listed'[listing.of], listed["messages"] \subseteq listed'["messages"]
    PROVE  /\ walk' \in [status: {"none", "reading", "over"}, limit: {1, 2}, cursor: RowCursor,
                         read: Seq(SUBSET Row), first: SUBSET Row]
           /\ WalkFits' /\ WalkKeepsOrder' /\ StandingRowsAreRead' /\ AllRead' = AllRead
           /\ walk'.cursor = walk.cursor
<1>1. walk \in [status: {"none", "reading", "over"}, limit: {1, 2}, cursor: RowCursor, read: Seq(SUBSET Row),
                first: SUBSET Row]
  BY DEF ListInv, ListTypes
<1>2. /\ walk'.status = walk.status /\ walk'.cursor = walk.cursor /\ walk'.read = walk.read /\ walk'.first = f
      /\ walk'.limit = walk.limit
      /\ walk' \in [status: {"none", "reading", "over"}, limit: {1, 2}, cursor: RowCursor,
                    read: Seq(SUBSET Row), first: SUBSET Row]
  BY <1>1
<1>3. AllRead' = AllRead
  BY <1>2 DEF AllRead
<1>4. WalkFits'
  BY <1>2, <1>3 DEF ListInv, WalkFits
<1>5. WalkKeepsOrder' /\ StandingRowsAreRead'
  BY <1>2, <1>3 DEF ListInv, PagesAreFaithful, WalkKeepsOrder, StandingRowsAreRead
<1>6. QED
  BY <1>2, <1>3, <1>4, <1>5

\* Chats and evaluations.
LEMMA OtherRowsInv ==
    ASSUME ListInv, ~OfMessages, UNCHANGED <<listing, pageClock, snap>>,
           NEW rows \in SUBSET Row, IsFiniteSet(rows), OneRowPerId(rows),
           listed' = [listed EXCEPT ![listing.of] = rows],
           uncommitted' \in SUBSET Txn, \A w \in uncommitted' : w.coll = listing.of /\ ~w.version,
           NEW f \in SUBSET walk.first, walk' = [walk EXCEPT !.first = f], f \subseteq rows
    PROVE  ListInv'
<1>1. listing.of \in Collections /\ listing.of # "messages" /\ listing.of # "versions"
      /\ listed \in [Collections -> SUBSET Row] /\ "messages" \in Collections /\ "versions" \in Collections
  BY DEF ListInv, ListTypes, OfMessages, Collections
<1>2. /\ listed' \in [Collections -> SUBSET Row] /\ listed'[listing.of] = rows
      /\ \A c \in Collections : c # listing.of => listed'[c] = listed[c]
      /\ listed'["messages"] = listed["messages"] /\ listed'["versions"] = listed["versions"]
  BY <1>1
<1>3. /\ walk' \in [status: {"none", "reading", "over"}, limit: {1, 2}, cursor: RowCursor,
                    read: Seq(SUBSET Row), first: SUBSET Row]
      /\ WalkFits' /\ WalkKeepsOrder' /\ StandingRowsAreRead'
  BY <1>2, FirstShrinks
<1>4. \A c \in Collections : IsFiniteSet(listed'[c]) /\ OneRowPerId(listed'[c])
  BY <1>2 DEF ListInv, ListTypes
<1>5. ListTypes'
  BY <1>2, <1>3, <1>4 DEF ListInv, ListTypes
<1>6. TxnsFit' /\ VersionsFit' /\ MessagesFit' /\ SnapFits'
  BY <1>1, <1>2 DEF ListInv, TxnsFit, VersionsFit, MessagesFit, SnapFits, OfMessages
<1>7. NoMessageIsPassed' /\ SnapshotIsWhole'
  BY <1>1, <1>2 DEF ListInv, PagesAreFaithful, NoMessageIsPassed, SnapshotIsWhole
<1>8. QED
  BY <1>3, <1>5, <1>6, <1>7 DEF ListInv, PagesAreFaithful

\* A message that comes after all others, and its version.
LEMMA NewMessageInv ==
    ASSUME ListInv, OfMessages, UNCHANGED <<listing, pageClock, snap>>, uncommitted' = {},
           NEW row \in Row, row.by = row.id,
           \A r \in listed["messages"] : Ms(r.at) < Ms(row.at) /\ r.id # row.id,
           NEW makes \in BOOLEAN,
           listed' = [listed EXCEPT !["messages"] = @ \cup {row},
                                    !["versions"] = @ \cup WithVersion(makes, row.id)],
           NEW f \in SUBSET walk.first, walk' = [walk EXCEPT !.first = f]
    PROVE  ListInv'
<1> DEFINE V == listed["versions"]
           n == Cardinality(V)
<1>1. /\ listed \in [Collections -> SUBSET Row] /\ "messages" \in Collections /\ "versions" \in Collections
      /\ IsFiniteSet(V) /\ n \in Nat /\ V \in SUBSET Row
      /\ \A c \in Collections : IsFiniteSet(listed[c]) /\ OneRowPerId(listed[c])
      /\ listing.of \in {"messages", "versions"}
  BY FS_CardinalityType DEF ListInv, ListTypes, Collections, OfMessages
<1>2. \A r \in V : r.id \in Nat /\ r.id <= n /\ \E m \in listed["messages"] : m.id = r.by
  BY <1>1 DEF ListInv, VersionsFit, Row
<1>3. /\ listed'["messages"] = listed["messages"] \cup {row}
      /\ listed'["versions"] = V \cup WithVersion(makes, row.id)
      /\ \A c \in Collections : c # "messages" /\ c # "versions" => listed'[c] = listed[c]
  BY <1>1
<1> DEFINE v == VersionRow(row.id)
<1>4. v \in Row /\ v.id = n + 1 /\ v.by = row.id
  BY <1>1 DEF VersionRow, Row
<1>5. listed'["versions"] = V \/ listed'["versions"] = V \cup {v}
  BY <1>3 DEF WithVersion
<1> HIDE DEF v
<1>6. v \notin V
  BY <1>1, <1>2, <1>4
<1>7. IsFiniteSet(V \cup {v}) /\ Cardinality(V \cup {v}) = n + 1
  BY <1>1, <1>6, FS_AddElement
<1>8. IsFiniteSet(listed["messages"] \cup {row})
  BY <1>1, FS_AddElement
<1>9. OneRowPerId(listed["messages"] \cup {row}) /\ OneRowPerId(V \cup {v}) /\ OneRowPerId(V)
  <2>1. OneRowPerId(listed["messages"] \cup {row})
    BY <1>1 DEF OneRowPerId
  <2>2. \A r \in V : r.id # v.id
    BY <1>1, <1>2, <1>4
  <2>3. OneRowPerId(V \cup {v}) /\ OneRowPerId(V)
    BY <1>1, <2>2 DEF OneRowPerId
  <2>4. QED
    BY <2>1, <2>3
<1>10. /\ listed'["messages"] \in SUBSET Row /\ listed'["versions"] \in SUBSET Row
       /\ \A c \in Collections : IsFiniteSet(listed'[c]) /\ OneRowPerId(listed'[c])
  BY <1>1, <1>3, <1>4, <1>5, <1>7, <1>8, <1>9
<1>11. listed' \in [Collections -> SUBSET Row]
  <2>1. DOMAIN listed' = Collections /\ listed' = [c \in Collections |-> listed'[c]]
    BY <1>1
  <2>2. \A c \in Collections : listed'[c] \in SUBSET Row
    BY <1>1, <1>3, <1>10
  <2>3. QED
    BY <2>1, <2>2
<1>12. f \subseteq listed'[listing.of]
  <2>1. walk.first \subseteq listed[listing.of]
    BY DEF ListInv, WalkFits
  <2>2. listed[listing.of] \subseteq listed'[listing.of]
    BY <1>1, <1>3
  <2>3. QED
    BY <2>1, <2>2
<1>13. /\ walk' \in [status: {"none", "reading", "over"}, limit: {1, 2}, cursor: RowCursor,
                     read: Seq(SUBSET Row), first: SUBSET Row]
       /\ WalkFits' /\ WalkKeepsOrder' /\ StandingRowsAreRead'
       /\ AllRead' = AllRead /\ walk'.cursor = walk.cursor
  BY <1>3, <1>12, FirstShrinks
<1>14. ListTypes'
  BY <1>10, <1>11, <1>13 DEF ListInv, ListTypes
<1>15. TxnsFit'
  BY DEF TxnsFit
<1>16. VersionsFit'
  <2>1. \A m \in listed["messages"] : m \in listed'["messages"]
    BY <1>3
  <2>2. row \in listed'["messages"]
    BY <1>3
  <2>3. CASE listed'["versions"] = V
    BY <1>2, <2>1, <2>3 DEF VersionsFit
  <2>4. CASE listed'["versions"] = V \cup {v}
    <3>1. \A r \in V : r.id <= n + 1 /\ \E m \in listed'["messages"] : m.id = r.by
      BY <1>1, <1>2, <2>1
    <3>2. v.id <= n + 1 /\ \E m \in listed'["messages"] : m.id = v.by
      BY <1>1, <1>4, <2>2
    <3>3. QED
      BY <1>7, <2>4, <3>1, <3>2 DEF VersionsFit
  <2>5. QED
    BY <1>5, <2>3, <2>4
<1>17. MessagesFit' /\ SnapFits'
  BY <1>3 DEF ListInv, MessagesFit, SnapFits
<1>18. NoMessageIsPassed'
  <2> SUFFICES ASSUME listing.of = "messages", walk.cursor # NoCursor, NEW r \in listed'["messages"]
               PROVE  BehindCursor("messages", r, walk.cursor) \/ r \in AllRead
    BY <1>13 DEF NoMessageIsPassed
  <2>1. CASE r \in listed["messages"]
    BY <2>1 DEF ListInv, PagesAreFaithful, NoMessageIsPassed
  <2>2. CASE r = row
    <3>1. PICK m \in listed["messages"] : walk.cursor = EncodeCursor("messages", m)
      BY DEF ListInv, WalkFits
    <3>2. m \in Row /\ Precedes("messages", m, row)
      BY <1>1, <3>1 DEF Precedes, Ascending, Less
    <3>3. QED
      BY <1>1, <2>2, <3>1, <3>2, CursorOfRow
  <2>3. QED
    BY <1>3, <2>1, <2>2
<1>19. SnapshotIsWhole'
  <2> SUFFICES ASSUME snap.whole
               PROVE  snap.versions = {r.by : r \in listed'["versions"]} \cap snap.messages
    BY DEF SnapshotIsWhole
  <2>1. row.id \notin snap.messages
    BY DEF ListInv, SnapFits
  <2>2. snap.versions = {r.by : r \in V} \cap snap.messages
    BY DEF ListInv, PagesAreFaithful, SnapshotIsWhole
  <2>3. QED
    BY <1>4, <1>5, <2>1, <2>2
<1>20. QED
  BY <1>13, <1>14, <1>15, <1>16, <1>17, <1>18, <1>19 DEF ListInv, PagesAreFaithful

Above(T, n) == {m \in T : n < m}

\* Finitely many natural numbers have a greatest one.
LEMMA GreatestNat ==
    ASSUME NEW T \in SUBSET Nat, IsFiniteSet(T), T # {} PROVE \E n \in T : \A m \in T : m <= n
<1> DEFINE C == {Cardinality(Above(T, n)) : n \in T}
<1>1. \A n \in T : IsFiniteSet(Above(T, n)) /\ Cardinality(Above(T, n)) \in Nat
  <2>1. \A n \in T : IsFiniteSet(Above(T, n))
    BY FS_Subset DEF Above
  <2>2. QED
    BY <2>1, FS_CardinalityType
<1>2. PICK c \in C : \A d \in C : c <= d
  <2>1. C \in SUBSET Nat /\ C # {}
    BY <1>1
  <2> HIDE DEF C
  <2>2. QED
    BY <2>1, LeastNat
<1>3. PICK n \in T : c = Cardinality(Above(T, n))
  OBVIOUS
<1>4. ASSUME NEW m \in T, n < m PROVE FALSE
  <2>1. Above(T, m) \subseteq Above(T, n) /\ m \in Above(T, n) /\ m \notin Above(T, m)
    <3>1. n \in Nat /\ m \in Nat /\ ~(m < m)
      OBVIOUS
    <3>2. \A x \in T : x \in Nat /\ (m < x => n < x)
      BY <1>4, <3>1
    <3>3. QED
      BY <1>4, <3>1, <3>2 DEF Above
  <2>2. Above(T, m) # Above(T, n)
    BY <2>1
  <2>3. /\ Cardinality(Above(T, m)) <= Cardinality(Above(T, n))
        /\ Cardinality(Above(T, m)) # Cardinality(Above(T, n))
    BY <1>1, <2>1, <2>2, FS_Subset
  <2>4. c <= Cardinality(Above(T, m))
    BY <1>2
  <2>5. QED
    BY <1>1, <1>3, <2>3, <2>4
<1>5. QED
  BY <1>4

LEMMA NowIsNat == ASSUME pageClock \in Nat PROVE Now \in Nat
BY MsIsNat, MsOfTick DEF Now

\* A new message is a millisecond or more after those there are.
LEMMA MessageTimeIsLater ==
    ASSUME ListInv
    PROVE  MessageTime \in Nat /\ \A r \in listed["messages"] : Ms(r.at) < Ms(MessageTime)
<1> DEFINE M == listed["messages"]
           f == [r \in M |-> (Ms(r.at) + 1) * Tick]
           floor == {f[r] : r \in M}
           F == floor \cup {Now}
<1>1. M \in SUBSET Row /\ IsFiniteSet(M) /\ Now \in Nat
  BY NowIsNat DEF ListInv, ListTypes, Collections
<1>2. MessageTime = CHOOSE t \in F : \A s \in F : s <= t
  <2>1. {(Ms(t) + 1) * Tick : t \in {r.at : r \in M}} = floor
    OBVIOUS
  <2>2. QED
    BY <2>1 DEF MessageTime
<1>3. \A r \in M : Ms(r.at) \in Nat /\ f[r] \in Nat /\ Ms(f[r]) = Ms(r.at) + 1
  <2>1. \A r \in M : Ms(r.at) \in Nat /\ Ms(r.at) + 1 \in Nat
    BY <1>1, MsIsNat DEF Row
  <2>2. QED
    BY <2>1, MsOfTick
<1> HIDE DEF f
<1>4. IsFiniteSet(floor)
  <2>1. f \in Surjection(M, floor)
    BY DEF Surjection, f
  <2>2. QED
    BY <1>1, <2>1, FS_Surjection
<1>5. F \in SUBSET Nat /\ F # {} /\ IsFiniteSet(F)
  <2>1. F \in SUBSET Nat /\ F # {}
    BY <1>1, <1>3
  <2> HIDE DEF floor
  <2>2. IsFiniteSet(F)
    BY <1>4, FS_AddElement
  <2>3. QED
    BY <2>1, <2>2
<1>6. \A r \in M : f[r] \in F
  OBVIOUS
<1> HIDE DEF F, floor, M
<1>7. \E t \in F : \A s \in F : s <= t
  BY <1>5, GreatestNat
<1>8. MessageTime \in F /\ \A s \in F : s <= MessageTime
  BY <1>2, <1>7
<1>9. MessageTime \in Nat /\ \A r \in M : f[r] <= MessageTime
  BY <1>5, <1>6, <1>8
<1>10. ASSUME NEW r \in M PROVE Ms(r.at) < Ms(MessageTime)
  <2>1. Ms(f[r]) <= Ms(MessageTime) /\ Ms(MessageTime) \in Nat
    BY <1>3, <1>9, MsGrows, MsIsNat
  <2>2. QED
    BY <1>3, <2>1
<1>11. QED
  BY <1>9, <1>10 DEF M

\* What a call writes in the place of its row.
LEMMA PutRowFits ==
    ASSUME ListInv, NEW coll \in Collections, NEW row \in Row
    PROVE  /\ PutRow(coll, row) \in SUBSET Row /\ IsFiniteSet(PutRow(coll, row))
           /\ OneRowPerId(PutRow(coll, row))
<1>1. listed[coll] \in SUBSET Row /\ IsFiniteSet(listed[coll]) /\ OneRowPerId(listed[coll])
  BY DEF ListInv, ListTypes
<1>2. IsFiniteSet({r \in listed[coll] : r.id # row.id})
  BY <1>1, FS_Subset
<1>3. IsFiniteSet(PutRow(coll, row))
  BY <1>2, FS_AddElement DEF PutRow
<1>4. QED
  BY <1>1, <1>3 DEF PutRow, OneRowPerId

LEMMA Standing ==
    ASSUME ListInv
    PROVE  /\ walk = [walk EXCEPT !.first = walk.first]
           /\ listed = [listed EXCEPT ![listing.of] = listed[listing.of]]
           /\ walk.first \subseteq listed[listing.of] /\ listing.of \in Collections
<1>1. walk = [walk EXCEPT !.first = walk.first]
  BY DEF ListInv, ListTypes
<1>2. listed = [listed EXCEPT ![listing.of] = listed[listing.of]]
  BY DEF ListInv, ListTypes
<1>3. QED
  BY <1>1, <1>2 DEF ListInv, ListTypes, WalkFits

LEMMA WriteRowInv ==
    ASSUME ListInv, ~OfMessages, NEW row \in Row, WriteRow(listing.of, row), UNCHANGED <<listing, pageClock, snap>>
    PROVE  ListInv'
<1>1. /\ listing.of \in Collections /\ uncommitted \in SUBSET Txn
      /\ \A w \in uncommitted : w.coll = listing.of /\ ~w.version
  BY DEF ListInv, ListTypes, TxnsFit
<1>2. CASE /\ listed' = [listed EXCEPT ![listing.of] = PutRow(listing.of, row)]
           /\ Unsettles({row.id}) /\ UNCHANGED uncommitted
  <2> DEFINE f == {r \in walk.first : r.id \notin {row.id}}
  <2>1. walk' = [walk EXCEPT !.first = f] /\ f \in SUBSET walk.first
    BY <1>2 DEF Unsettles
  <2>2. f \subseteq PutRow(listing.of, row)
    BY Standing DEF PutRow
  <2> HIDE DEF f
  <2>3. QED
    BY <1>1, <1>2, <2>1, <2>2, PutRowFits, OtherRowsInv
<1>3. CASE /\ uncommitted' = uncommitted \cup {[coll |-> listing.of, row |-> row, version |-> FALSE]}
           /\ UNCHANGED <<listed, walk>>
  <2> DEFINE w == [coll |-> listing.of, row |-> row, version |-> FALSE]
  <2>1. w \in Txn /\ w.coll = listing.of /\ ~w.version
    BY <1>1 DEF Txn
  <2>2. uncommitted' \in SUBSET Txn /\ \A u \in uncommitted' : u.coll = listing.of /\ ~u.version
    BY <1>1, <1>3, <2>1
  <2>3. /\ listed[listing.of] \in SUBSET Row /\ IsFiniteSet(listed[listing.of])
        /\ OneRowPerId(listed[listing.of])
    BY <1>1 DEF ListInv, ListTypes
  <2>4. QED
    BY <1>3, <2>2, <2>3, Standing, OtherRowsInv
<1>4. QED
  BY <1>2, <1>3 DEF WriteRow

LEMMA NewRowIsRow == ASSUME NEW id \in RowId, NEW at \in Nat PROVE NewRow(id, at) \in Row /\ NewRow(id, at).id = id
                                                                   /\ NewRow(id, at).by = id /\ NewRow(id, at).at = at
BY ListingsAssumption DEF NewRow, Row

LEMMA OtherWritesInv == ASSUME ListInv, WriteChat \/ HideChat \/ CreateDesignEvaluation PROVE ListInv'
<1>1. Now \in Nat
  BY NowIsNat DEF ListInv, ListTypes
<1>2. CASE WriteChat
  <2>1. PICK id \in RowId : WriteRow("chats", NewRow(id, Now))
    BY <1>2 DEF WriteChat
  <2>2. listing.of = "chats" /\ ~OfMessages /\ UNCHANGED <<listing, pageClock, snap>>
    BY <1>2 DEF WriteChat, OfMessages
  <2>3. QED
    BY <1>1, <2>1, <2>2, NewRowIsRow, WriteRowInv
<1>3. CASE CreateDesignEvaluation
  <2>1. PICK id \in RowId : WriteRow("evaluations", NewRow(id, Now))
    BY <1>3 DEF CreateDesignEvaluation
  <2>2. listing.of = "evaluations" /\ ~OfMessages /\ UNCHANGED <<listing, pageClock, snap>>
    BY <1>3 DEF CreateDesignEvaluation, OfMessages
  <2>3. QED
    BY <1>1, <2>1, <2>2, NewRowIsRow, WriteRowInv
<1>4. CASE HideChat
  <2>1. PICK r \in listed["chats"] :
          listed' = [listed EXCEPT !["chats"] = listed["chats"] \ {r}] /\ Unsettles({r.id})
    BY <1>4 DEF HideChat
  <2>2. listing.of = "chats" /\ ~OfMessages /\ UNCHANGED <<listing, pageClock, snap, uncommitted>>
    BY <1>4 DEF HideChat, OfMessages
  <2> DEFINE f == {s \in walk.first : s.id \notin {r.id}}
             rows == listed["chats"] \ {r}
  <2>3. walk' = [walk EXCEPT !.first = f] /\ f \in SUBSET walk.first
    BY <2>1 DEF Unsettles
  <2>4. rows \in SUBSET Row /\ OneRowPerId(rows) /\ IsFiniteSet(rows)
    <3>1. listed["chats"] \in SUBSET Row /\ OneRowPerId(listed["chats"]) /\ IsFiniteSet(listed["chats"])
      BY DEF ListInv, ListTypes, Collections
    <3>2. QED
      BY <3>1, FS_Subset DEF OneRowPerId
  <2>5. f \subseteq rows
    BY <2>2, Standing
  <2>6. uncommitted \in SUBSET Txn /\ \A w \in uncommitted : w.coll = listing.of /\ ~w.version
    BY <2>2 DEF ListInv, ListTypes, TxnsFit
  <2> HIDE DEF f
  <2>7. QED
    BY <2>1, <2>2, <2>3, <2>4, <2>5, <2>6, OtherRowsInv
<1>5. QED
  BY <1>2, <1>3, <1>4

LEMMA PutNewRow ==
    ASSUME NEW coll, NEW row, \A r \in listed[coll] : r.id # row.id
    PROVE  PutRow(coll, row) = listed[coll] \cup {row}
BY DEF PutRow

LEMMA InsertMessageInv == ASSUME ListInv, InsertMessage PROVE ListInv'
<1>1. PICK id \in RowId \ Ids("messages"), makes \in BOOLEAN :
        IF listing.repo = "memory"
        THEN /\ listed' = [listed EXCEPT
                             !["messages"] = PutRow("messages", NewRow(id, MessageTime)),
                             !["versions"] = @ \cup WithVersion(makes, id)]
             /\ UNCHANGED uncommitted
        ELSE /\ uncommitted' = {[coll |-> "messages", row |-> NewRow(id, MessageTime), version |-> makes]}
             /\ UNCHANGED listed
  BY Zenon DEF InsertMessage
<1>2. UNCHANGED <<listing, pageClock, walk, snap>> /\ OfMessages /\ ~ChatIsLocked
  BY DEF InsertMessage, OfMessages
<1>3. uncommitted = {}
  BY <1>2 DEF ListInv, TxnsFit, ChatIsLocked
<1> DEFINE row == NewRow(id, MessageTime)
<1>4. /\ row \in Row /\ row.id = id /\ row.by = id
      /\ \A r \in listed["messages"] : Ms(r.at) < Ms(row.at) /\ r.id # row.id
  BY <1>1, NewRowIsRow, MessageTimeIsLater DEF Ids
<1> HIDE DEF row
<1>5. PutRow("messages", row) = listed["messages"] \cup {row}
  BY <1>4, PutNewRow
<1>6. CASE listing.repo = "memory"
  <2>1. listed' = [listed EXCEPT !["messages"] = @ \cup {row}, !["versions"] = @ \cup WithVersion(makes, row.id)]
        /\ uncommitted' = {}
    BY <1>1, <1>3, <1>4, <1>5, <1>6 DEF row
  <2>2. QED
    BY <1>2, <1>4, <2>1, Standing, NewMessageInv
<1>7. CASE listing.repo # "memory"
  <2> DEFINE w == [coll |-> "messages", row |-> row, version |-> makes]
  <2>1. uncommitted' = {w} /\ UNCHANGED listed
    BY <1>1, <1>7 DEF row
  <2>2. w \in Txn /\ w.coll = "messages" /\ w.row = row
    BY <1>4 DEF Txn, Collections
  <2> HIDE DEF w
  <2>3. ListTypes'
    BY <1>2, <2>1, <2>2 DEF ListInv, ListTypes
  <2>4. TxnsFit'
    BY <1>2, <1>4, <2>1, <2>2 DEF TxnsFit, OfMessages
  <2>5. VersionsFit' /\ MessagesFit' /\ WalkFits' /\ SnapFits'
    BY <1>2, <2>1 DEF ListInv, VersionsFit, MessagesFit, WalkFits, SnapFits, AllRead
  <2>6. PagesAreFaithful'
    BY <1>2, <2>1 DEF ListInv, PagesAreFaithful, WalkKeepsOrder, StandingRowsAreRead, NoMessageIsPassed,
                      SnapshotIsWhole, AllRead
  <2>7. QED
    BY <2>3, <2>4, <2>5, <2>6 DEF ListInv
<1>8. QED
  BY <1>6, <1>7

LEMMA CommitRowsInv == ASSUME ListInv, CommitRows PROVE ListInv'
<1>1. PICK w \in uncommitted :
        /\ listed' = [listed EXCEPT ![w.coll] = PutRow(w.coll, w.row),
                                    !["versions"] = @ \cup WithVersion(w.version, w.row.by)]
        /\ uncommitted' = uncommitted \ {w}
        /\ Unsettles(IF w.coll = listing.of THEN {w.row.id} ELSE {})
  BY DEF CommitRows
<1>2. UNCHANGED <<listing, pageClock, snap>>
  BY DEF CommitRows
<1>3. w.coll \in Collections /\ w.row \in Row /\ w.version \in BOOLEAN /\ uncommitted' \in SUBSET Txn
  BY <1>1 DEF ListInv, ListTypes, Txn
<1> DEFINE ids == IF w.coll = listing.of THEN {w.row.id} ELSE {}
           f == {r \in walk.first : r.id \notin ids}
<1>4. walk' = [walk EXCEPT !.first = f] /\ f \in SUBSET walk.first
  BY <1>1 DEF Unsettles
<1>5. CASE OfMessages
  <2>1. /\ w.coll = "messages" /\ w.row.by = w.row.id /\ uncommitted' = {}
        /\ \A r \in listed["messages"] : Ms(r.at) < Ms(w.row.at) /\ r.id # w.row.id
    BY <1>1, <1>5 DEF ListInv, TxnsFit
  <2>2. PutRow("messages", w.row) = listed["messages"] \cup {w.row}
    BY <2>1, PutNewRow
  <2>3. listed' = [listed EXCEPT !["messages"] = @ \cup {w.row},
                                 !["versions"] = @ \cup WithVersion(w.version, w.row.id)]
    BY <1>1, <2>1, <2>2
  <2> HIDE DEF f
  <2>4. QED
    BY <1>2, <1>3, <1>4, <1>5, <2>1, <2>3, NewMessageInv
<1>6. CASE ~OfMessages
  <2>1. w.coll = listing.of /\ ~w.version /\ \A u \in uncommitted' : u.coll = listing.of /\ ~u.version
    BY <1>1, <1>6 DEF ListInv, TxnsFit
  <2>2. WithVersion(w.version, w.row.by) = {} /\ listing.of # "versions"
    BY <1>6, <2>1 DEF WithVersion, OfMessages
  <2>3. listed' = [listed EXCEPT ![listing.of] = PutRow(listing.of, w.row)]
    <3>1. listed' = [listed EXCEPT ![listing.of] = PutRow(listing.of, w.row), !["versions"] = @ \cup {}]
      BY <1>1, <2>1, <2>2
    <3>2. listed \in [Collections -> SUBSET Row] /\ listing.of \in Collections /\ "versions" \in Collections
      BY <1>3, <2>1 DEF ListInv, ListTypes, Collections
    <3>3. QED
      BY <2>2, <3>1, <3>2
  <2>4. f \subseteq PutRow(listing.of, w.row)
    BY <2>1, Standing DEF PutRow
  <2> HIDE DEF f
  <2>5. QED
    BY <1>2, <1>3, <1>4, <1>6, <2>1, <2>3, <2>4, PutRowFits, OtherRowsInv
<1>7. QED
  BY <1>5, <1>6

LEMMA RestInv == ASSUME ListInv, RollBackRows \/ TimePasses \/ UNCHANGED lsVars PROVE ListInv'
<1>1. /\ UNCHANGED <<listing, listed, walk, snap>> /\ pageClock' \in Nat
      /\ uncommitted' \subseteq uncommitted
  BY DEF RollBackRows, TimePasses, lsVars, ListInv, ListTypes
<1>2. ListTypes'
  BY <1>1 DEF ListInv, ListTypes
<1>3. TxnsFit'
  BY <1>1 DEF ListInv, TxnsFit, OfMessages
<1>4. VersionsFit' /\ MessagesFit' /\ WalkFits' /\ SnapFits'
  BY <1>1 DEF ListInv, VersionsFit, MessagesFit, WalkFits, SnapFits, AllRead
<1>5. PagesAreFaithful'
  BY <1>1 DEF ListInv, PagesAreFaithful, WalkKeepsOrder, StandingRowsAreRead, NoMessageIsPassed,
              SnapshotIsWhole, AllRead
<1>6. QED
  BY <1>2, <1>3, <1>4, <1>5 DEF ListInv

LEMMA ListNextInv == ASSUME ListInv, [ListingsNext]_lsVars PROVE ListInv'
BY OpenWalkInv, ReadNextPageInv, ReadSnapshotInv, OtherWritesInv, InsertMessageInv, CommitRowsInv, RestInv
   DEF ListingsNext

\* Whatever is written while a reader pages through a chat's rows, in whatever order it commits: no
\* page takes up again what an earlier one has passed, a row that stands where it was is read, a
\* message that commits late is not behind the cursor, and a whole snapshot shows a version exactly
\* with its message (list*Page, insertMessage, readChatSnapshot).
THEOREM PagesAlwaysFaithful == ListingsSpec => []PagesAreFaithful
<1>1. ListingsSpec => []ListInv
  BY ListInitInv, ListNextInv, PTL DEF ListingsSpec
<1>2. ListInv => PagesAreFaithful
  BY DEF ListInv
<1>3. QED
  BY <1>1, <1>2, PTL

=============================================================================
