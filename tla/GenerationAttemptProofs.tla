---------------------- MODULE GenerationAttemptProofs -----------------------
(***************************************************************************)
(* Theorems about the attempts of a generation: the rows tell its history, *)
(* a new attempt overwrites no older one, and a task belongs to the attempt *)
(* that asked.  They follow from the four ways in which a step can change  *)
(* the attempt rows of one generation.  Then: who may end an attempt, and  *)
(* deleted chats.                                                          *)
(***************************************************************************)
EXTENDS GenerationLifecycleProofs

\* The inductive invariant: the history, and no row before the generation is created.
History(h) ==
    /\ status[h] = "absent" => active[h] = 1 /\ count[h] = 0
    /\ status[h] # "absent" => active[h] = count[h] /\ Current(h).status = status[h]
    /\ \A n \in AttemptNumber :
         /\ n > count[h] => attempts[h][n] = NoAttempt
         /\ n < count[h] => attempts[h][n].status \in Succession[attempts[h][n + 1].reason]

Histories == \A h \in Generation : History(h)

RowsKept(h) ==
    /\ status'[h] = status[h] /\ active'[h] = active[h] /\ count'[h] = count[h]
    /\ attempts'[h] = attempts[h]

RowCreated(h) ==
    /\ status[h] = "absent" /\ status'[h] = "queued" /\ active'[h] = 1 /\ count'[h] = 1
    /\ attempts'[h] = [attempts[h] EXCEPT ![1] = QueuedAttempt("initial")]

\* The active attempt moves on together with its generation; one that waits is cancelled.
RowMoved(h, a) ==
    /\ status[h] \in Open /\ status'[h] = a.status /\ a.status \in Open \cup Terminal
    /\ status[h] = "waiting" => a.status = "cancelled"
    /\ a.reason = Current(h).reason
    /\ active'[h] = active[h] /\ count'[h] = count[h]
    /\ attempts'[h] = [attempts[h] EXCEPT ![active[h]] = a]

\* A new attempt; the old one keeps its ending or, if it has none, is given one.
RowAdded(h, s, r) ==
    /\ status[h] # "absent" /\ status'[h] = "queued"
    /\ r \in {"retry", "resume", "task_resolution"} /\ s \in Succession[r]
    /\ s = Current(h).status \/ Current(h).status \in {"queued", "running"}
    /\ count[h] < MaxAttempts /\ active'[h] = count[h] + 1 /\ count'[h] = count[h] + 1
    /\ attempts'[h] = [attempts[h] EXCEPT ![active[h]] = WithStatus(@, s),
                                          ![count[h] + 1] = QueuedAttempt(r)]

RowStep(h) ==
    RowsKept(h) \/ RowCreated(h) \/ (\E a \in AttemptRow : RowMoved(h, a))
                \/ (\E s \in AttemptStatus, r \in AttemptReason : RowAdded(h, s, r))

\* Settle moves the attempt of its own generation and keeps every other row.
LEMMA SettleMoves ==
    ASSUME TypeOK, NEW g \in Generation, NEW s \in Open \cup Terminal, Settle(g, s),
           status[g] = "running", active' = active, count' = count,
           NEW h \in Generation
    PROVE  RowStep(h)
<1>1. CASE h = g
  <2> DEFINE a == WithStatus(Current(g), s)
  <2>1. a \in AttemptRow /\ a.status = s /\ a.reason = Current(g).reason
    BY DEF TypeOK, Current, WithStatus, AttemptRow, AttemptStatus, GenerationStatus
  <2>2. attempts'[g] = [attempts[g] EXCEPT ![active[g]] = a] /\ status'[g] = s
    BY DEF TypeOK, Settle, Current
  <2>3. RowMoved(g, a)
    BY <2>1, <2>2 DEF RowMoved, Open
  <2>4. QED
    BY <1>1, <2>1, <2>3 DEF RowStep
<1>2. CASE h # g
  BY <1>2 DEF TypeOK, Settle, RowStep, RowsKept
<1>3. QED
  BY <1>1, <1>2

\* AppendAttempt adds to its own generation and keeps every other row.
LEMMA AppendAdds ==
    ASSUME TypeOK, NEW g \in Generation, status[g] # "absent",
           NEW r \in {"retry", "resume", "task_resolution"}, NEW s \in Succession[r],
           s = Current(g).status \/ Current(g).status \in {"queued", "running"},
           AppendAttempt(g, s, r), NEW h \in Generation
    PROVE  RowStep(h)
<1>1. s \in AttemptStatus /\ r \in AttemptReason
  BY DEF Succession, AttemptStatus, GenerationStatus, Open, Terminal, AttemptReason
<1>2. CASE h = g
  <2>1. RowAdded(g, s, r)
    BY DEF TypeOK, AppendAttempt, RowAdded
  <2>2. QED
    BY <1>1, <1>2, <2>1 DEF RowStep
<1>3. CASE h # g
  BY <1>3 DEF TypeOK, AppendAttempt, RowStep, RowsKept
<1>4. QED
  BY <1>2, <1>3

\* The cases of the lemma below, with their place in the code: creation, cancellation, a new
\* attempt, a claim, the ends of a run, and time.
LEMMA StepOnRows ==
    ASSUME TypeOK, Histories, [Next]_vars, NEW h \in Generation
    PROVE  RowStep(h)
<1> DEFINE Kept == status' = status /\ active' = active /\ count' = count /\ attempts' = attempts
<1>0. Kept => RowStep(h)
  BY DEF RowStep, RowsKept
<1>1. ASSUME NEW g \in Generation, NEW op \in {"change", "inspect"},
             NEW b \in 0..Len(versions), NEW p \in Generation \cup {NoGeneration},
             CreateGeneration(g, op, b, p)
      PROVE RowStep(h)
  <2>1. CASE h = g
    BY <1>1, <2>1 DEF TypeOK, CreateGeneration, RowStep, RowCreated
  <2>2. CASE h # g
    BY <1>1, <2>2 DEF TypeOK, CreateGeneration, RowStep, RowsKept
  <2>3. QED
    BY <2>1, <2>2
<1>2. ASSUME NEW g \in Generation, CancelGeneration(g)
      PROVE RowStep(h)
  <2>1. Current(g).status = status[g] /\ status[g] \in Open
    BY <1>2 DEF CancelGeneration, Histories, History, Open
  <2>2. attempts' = [attempts EXCEPT ![g][active[g]] = WithStatus(@, "cancelled")]
    BY <1>2, <2>1 DEF CancelGeneration
  <2>3. CASE h = g
    <3> DEFINE a == WithStatus(Current(g), "cancelled")
    <3>1. a \in AttemptRow /\ a.status = "cancelled" /\ a.reason = Current(g).reason
      BY DEF TypeOK, Current, WithStatus, AttemptRow, AttemptStatus, GenerationStatus, Terminal
    <3>2. attempts'[g] = [attempts[g] EXCEPT ![active[g]] = a] /\ status'[g] = "cancelled"
      BY <1>2, <2>2 DEF TypeOK, CancelGeneration, Current
    <3>3. RowMoved(g, a)
      BY <1>2, <2>1, <3>1, <3>2 DEF RowMoved, CancelGeneration, Terminal
    <3>4. QED
      BY <2>3, <3>1, <3>3 DEF RowStep
  <2>4. CASE h # g
    BY <1>2, <2>2, <2>4 DEF TypeOK, CancelGeneration, RowStep, RowsKept
  <2>5. QED
    BY <2>3, <2>4
<1>3. ASSUME NEW g \in Generation, Retry(g) \/ Resume(g)
      PROVE RowStep(h)
  <2>1. Current(g).status = status[g]
    BY <1>3 DEF Retry, Resume, Histories, History
  <2>2. CASE status[g] \in {"failed", "cancelled"}
    <3>1. PICK r \in {"retry", "resume"} : AppendAttempt(g, Current(g).status, r)
      BY <1>3, <2>2 DEF Retry, Resume
    <3>2. Current(g).status \in Succession[r]
      BY <2>1, <2>2 DEF Succession
    <3>3. QED
      BY <2>2, <3>1, <3>2, AppendAdds
  <2>3. CASE status[g] \in {"queued", "running"}
    <3>1. AppendAttempt(g, "interrupted", "resume")
      BY <1>3, <2>3 DEF Retry, Resume
    <3>2. "interrupted" \in Succession["resume"]
      BY DEF Succession
    <3>3. QED
      BY <2>1, <2>3, <3>1, <3>2, AppendAdds
  <2>4. QED
    BY <1>3, <2>2, <2>3 DEF Retry, Resume
<1>4. ASSUME NEW g \in Generation, NEW n \in AttemptNumber, ResolveTask(g, n)
      PROVE RowStep(h)
  <2>1. Current(g).status = status[g] /\ status[g] = "waiting"
    BY <1>4 DEF ResolveTask, Histories, History
  <2>2. "waiting" \in Succession["task_resolution"]
    BY DEF Succession
  <2>3. AppendAttempt(g, "waiting", "task_resolution")
    BY <1>4, <2>1 DEF ResolveTask
  <2>4. QED
    BY <2>1, <2>2, <2>3, AppendAdds
<1>5. ASSUME NEW w \in Lane, NEW g \in Generation, Claim(w, g)
      PROVE RowStep(h)
  <2>1. CASE h = g
    <3> DEFINE a == [status |-> "running", reason |-> Current(g).reason, owner |-> w,
                     lease |-> "live"]
    <3>1. a \in AttemptRow
      BY DEF TypeOK, Current, AttemptRow, AttemptStatus, GenerationStatus, Open
    <3>2. attempts'[g] = [attempts[g] EXCEPT ![active[g]] = a] /\ status'[g] = "running"
      BY <1>5 DEF TypeOK, Claim, Current
    <3>3. RowMoved(g, a)
      BY <1>5, <3>2 DEF RowMoved, Claim, Open
    <3>4. QED
      BY <2>1, <3>1, <3>3 DEF RowStep
  <2>2. CASE h # g
    BY <1>5, <2>2 DEF TypeOK, Claim, RowStep, RowsKept
  <2>3. QED
    BY <2>1, <2>2
<1>6. ASSUME NEW w \in Lane, Complete(w) \/ CompleteResponse(w) \/ Pause(w) \/ Fail(w)
      PROVE RowStep(h)
  <2>1. PICK g \in Generation : g = run[w].generation
    BY <1>6, HolderRuns DEF Complete, CompleteResponse, Pause, Fail, CanSettle
  <2>2. status[g] = "running" /\ active' = active /\ count' = count
    BY <1>6, <2>1 DEF Complete, CompleteResponse, Pause, Fail, CanSettle, HoldsLease
  <2>3. \E s \in {"succeeded", "waiting", "failed"} : Settle(g, s)
    BY <1>6, <2>1 DEF Complete, CompleteResponse, Pause, Fail
  <2>4. {"succeeded", "waiting", "failed"} \subseteq Open \cup Terminal
    BY DEF Open, Terminal
  <2>5. QED
    BY <2>2, <2>3, <2>4, SettleMoves
<1>7. ASSUME NEW w \in Lane, Repair(w)
      PROVE RowStep(h)
  <2>1. PICK g \in Generation : g = run[w].generation
    BY <1>7, HolderRuns DEF Repair
  <2>2. status[g] = "running" /\ Current(g).status = "running"
    BY <1>7, <2>1 DEF Repair, HoldsLease
  <2>3. AppendAttempt(g, "failed", "retry") /\ "failed" \in Succession["retry"]
    BY <1>7, <2>1 DEF Repair, Succession
  <2>4. QED
    BY <2>2, <2>3, AppendAdds
<1>8. CASE Time
  <2>1. PICK g \in Generation : ExpireLease(g)
    BY <1>8 DEF Time, LeaseRunsOut, HeartbeatTooLate
  <2>2. CASE h = g
    <3> DEFINE a == [status |-> "running", reason |-> Current(g).reason,
                     owner |-> Current(g).owner, lease |-> "expired"]
    <3>1. a \in AttemptRow
      BY DEF TypeOK, Current, AttemptRow, AttemptStatus, GenerationStatus, Open
    <3>2. attempts'[g] = [attempts[g] EXCEPT ![active[g]] = a] /\ status'[g] = "running"
      BY <2>1 DEF TypeOK, ExpireLease, Current
    <3>3. RowMoved(g, a)
      BY <2>1, <3>2 DEF RowMoved, ExpireLease, Open
    <3>4. QED
      BY <2>2, <3>1, <3>3 DEF RowStep
  <2>3. CASE h # g
    BY <2>1, <2>3 DEF TypeOK, ExpireLease, RowStep, RowsKept
  <2>4. QED
    BY <2>2, <2>3
<1>9. \/ \E g \in Generation, op \in {"change", "inspect"}, b \in 0..Len(versions),
            p \in Generation \cup {NoGeneration} : CreateGeneration(g, op, b, p)
      \/ \E g \in Generation : CancelGeneration(g) \/ Retry(g) \/ Resume(g)
      \/ \E g \in Generation, n \in AttemptNumber : ResolveTask(g, n)
      \/ \E w \in Lane, g \in Generation : Claim(w, g)
      \/ \E w \in Lane : Complete(w) \/ CompleteResponse(w) \/ Pause(w) \/ Fail(w) \/ Repair(w)
      \/ Time
      \/ Kept
  BY DEF Next, HostStep, LaneStep, LaneSettles, CreateSourceVersion, CreateSteering, DeleteChat,
         RestoreChat, CheckSteeringLease, ApplySteering, RestartForSteering, Abandon, Crash,
         vars, genVars
<1>10. QED
  BY <1>0, <1>1, <1>2, <1>3, <1>4, <1>5, <1>6, <1>7, <1>8, <1>9

\* Each of the four keeps the history of its generation.
LEMMA HistoryStep ==
    ASSUME TypeOK, Histories, [Next]_vars, NEW h \in Generation
    PROVE  History(h)'
<1> USE BoundAssumption DEF AttemptNumber
<1>0. /\ History(h)
      /\ active[h] \in AttemptNumber /\ count[h] \in 0..MaxAttempts
      /\ attempts[h] \in [AttemptNumber -> AttemptRow]
  BY DEF TypeOK, Histories
<1>1. CASE RowsKept(h)
  BY <1>0, <1>1 DEF RowsKept, History, Current
<1>2. CASE RowCreated(h)
  BY <1>0, <1>2 DEF RowCreated, History, Current, QueuedAttempt
<1>3. ASSUME NEW a \in AttemptRow, RowMoved(h, a)
      PROVE History(h)'
  <2>1. status[h] # "absent" /\ status'[h] # "absent" /\ active[h] = count[h]
    BY <1>0, <1>3 DEF RowMoved, History, Open, Terminal
  <2>2. /\ attempts'[h][active[h]] = a
        /\ \A n \in AttemptNumber : n # active[h] => attempts'[h][n] = attempts[h][n]
        /\ \A n \in AttemptNumber : attempts'[h][n].reason = attempts[h][n].reason
    BY <1>0, <1>3 DEF RowMoved, Current
  <2>3. \A n \in AttemptNumber : n < count[h] => n + 1 \in AttemptNumber
    BY <1>0
  <2>4. QED
    BY <1>0, <1>3, <2>1, <2>2, <2>3 DEF RowMoved, History, Current
<1>4. ASSUME NEW s \in AttemptStatus, NEW r \in AttemptReason, RowAdded(h, s, r)
      PROVE History(h)'
  <2>1. active[h] = count[h] /\ status'[h] = "queued" /\ count'[h] = count[h] + 1
    BY <1>0, <1>4 DEF RowAdded, History
  <2>2. /\ attempts'[h][count[h] + 1] = QueuedAttempt(r)
        /\ attempts'[h][count[h]] = WithStatus(attempts[h][count[h]], s)
        /\ \A n \in AttemptNumber :
             n \notin {count[h], count[h] + 1} => attempts'[h][n] = attempts[h][n]
    BY <1>0, <1>4, <2>1 DEF RowAdded
  <2>3. /\ \A n \in AttemptNumber :
             n # count[h] + 1 => attempts'[h][n].reason = attempts[h][n].reason
        /\ attempts'[h][count[h] + 1].reason = r
        /\ attempts'[h][count[h] + 1].status = "queued"
        /\ attempts'[h][count[h]].status = s
    BY <2>2 DEF QueuedAttempt, WithStatus
  <2>4. ASSUME NEW n \in AttemptNumber, n < count[h] + 1
        PROVE attempts'[h][n].status \in Succession[attempts'[h][n + 1].reason]
    <3>1. CASE n = count[h]
      BY <1>4, <2>3, <3>1 DEF RowAdded
    <3>2. CASE n < count[h]
      <4>1. n + 1 \in AttemptNumber /\ n + 1 # count[h] + 1
        BY <1>0, <3>2
      <4>2. attempts[h][n].status \in Succession[attempts[h][n + 1].reason]
        BY <1>0, <3>2 DEF History
      <4>3. attempts'[h][n] = attempts[h][n]
        BY <1>0, <2>2, <3>2
      <4>4. attempts'[h][n + 1].reason = attempts[h][n + 1].reason
        BY <2>3, <4>1
      <4>5. QED
        BY <4>2, <4>3, <4>4
    <3>3. QED
      BY <1>0, <2>4, <3>1, <3>2
  <2>5. \A n \in AttemptNumber : n > count[h] + 1 => attempts'[h][n] = NoAttempt
    BY <1>0, <2>2 DEF History
  <2>6. active'[h] = count[h] + 1
    BY <1>4 DEF RowAdded
  <2>7. QED
    BY <2>1, <2>3, <2>4, <2>5, <2>6 DEF History, Current
<1>5. QED
  BY <1>1, <1>2, <1>3, <1>4, StepOnRows DEF RowStep

\* The history holds in every reachable state.
LEMMA HistoriesHold == Spec => []Histories
<1>1. Init => Histories
  BY BoundAssumption DEF Init, Histories, History, AttemptNumber
<1>2. TypeOK /\ Histories /\ [Next]_vars => Histories'
  BY HistoryStep DEF Histories
<1>3. QED
  BY <1>1, <1>2, TypeCorrect, PTL DEF Spec

\* The active attempt is the newest and has the generation's status; every older one ended in
\* the way that the reason of the next one says.
THEOREM HistoryIsTold == Spec => []AttemptsTellTheHistory
<1>1. Histories => AttemptsTellTheHistory
  BY DEF Histories, History, AttemptsTellTheHistory
<1>2. QED
  BY <1>1, HistoriesHold, PTL

\* Retry, resume, resolution, repair and late workers never overwrite an attempt that has
\* ended, and only cancellation changes one that waits.
THEOREM AttemptsAreImmutable == Spec => OlderAttemptsImmutable
<1> DEFINE Fixed(g, n) == \/ n < active[g]
                          \/ attempts[g][n].status \in Terminal \cup {"interrupted"}
                          \/ attempts[g][n].status = "waiting" /\ status'[g] # "cancelled"
<1>1. ASSUME TypeOK, Histories, [Next]_vars, NEW g \in Generation, NEW n \in AttemptNumber,
             Fixed(g, n)
      PROVE  attempts'[g][n] = attempts[g][n]
  <2> USE BoundAssumption DEF AttemptNumber
  <2>0. /\ History(g)
        /\ active[g] \in AttemptNumber /\ count[g] \in 0..MaxAttempts
        /\ attempts[g] \in [AttemptNumber -> AttemptRow]
    BY <1>1 DEF TypeOK, Histories
  <2>1. CASE RowCreated(g)
    BY <1>1, <2>0, <2>1 DEF RowCreated, History, NoAttempt, Terminal
  <2>2. ASSUME NEW a \in AttemptRow, RowMoved(g, a)
        PROVE  attempts'[g][n] = attempts[g][n]
    <3>1. n # active[g]
      BY <1>1, <2>0, <2>2 DEF RowMoved, History, Current, Open, Terminal
    <3>2. QED
      BY <2>0, <2>2, <3>1 DEF RowMoved
  <2>3. ASSUME NEW s \in AttemptStatus, NEW r \in AttemptReason, RowAdded(g, s, r)
        PROVE  attempts'[g][n] = attempts[g][n]
    <3>1. active[g] = count[g] /\ n # count[g] + 1
      BY <1>1, <2>0, <2>3 DEF RowAdded, History, NoAttempt, Terminal
    <3>2. CASE n # active[g]
      BY <2>0, <2>3, <3>1, <3>2 DEF RowAdded
    <3>3. CASE n = active[g]
      <4>1. s = attempts[g][n].status
        BY <1>1, <2>0, <2>3, <3>3 DEF RowAdded, Current, Terminal
      <4>2. WithStatus(attempts[g][n], s) = attempts[g][n]
        BY <2>0, <4>1 DEF WithStatus, AttemptRow
      <4>3. attempts'[g][n] = WithStatus(attempts[g][n], s)
        BY <2>0, <2>3, <3>1, <3>3 DEF RowAdded
      <4>4. QED
        BY <4>2, <4>3
    <3>4. QED
      BY <3>2, <3>3
  <2>4. QED
    BY <1>1, <2>1, <2>2, <2>3, StepOnRows DEF RowStep, RowsKept
<1>2. TypeOK /\ Histories /\ [Next]_vars =>
        [\A g \in Generation, n \in AttemptNumber :
           \/ n < active[g]
           \/ attempts[g][n].status \in Terminal \cup {"interrupted"}
           \/ attempts[g][n].status = "waiting" /\ status'[g] # "cancelled"
           => attempts'[g][n] = attempts[g][n]]_vars
  BY <1>1
<1>3. QED
  BY <1>2, TypeCorrect, HistoriesHold, PTL DEF Spec, OlderAttemptsImmutable
----------------------------------------------------------------------------
(* Tasks.  A pause asks, a resolution answers, and no other step touches a task. *)

TasksKept(h)    == tasks'[h] = tasks[h] /\ (status'[h] = "waiting" => status[h] = "waiting")
TaskAsked(h)    == /\ status[h] = "running" /\ status'[h] = "waiting"
                   /\ tasks'[h] = [tasks[h] EXCEPT ![active[h]] = "pending"]
TaskAnswered(h) == /\ status'[h] = "queued"
                   /\ \E n \in AttemptNumber :
                        /\ tasks[h][n] = "pending"
                        /\ tasks'[h] = [tasks[h] EXCEPT ![n] = "resolved"]

\* Only a pause makes a generation wait, and it asks its task in the same transaction.
LEMMA StepOnTasks ==
    ASSUME TypeOK, [Next]_vars, NEW h \in Generation
    PROVE  TasksKept(h) \/ TaskAsked(h) \/ TaskAnswered(h)
<1> DEFINE NobodyWaits == tasks' = tasks /\ \A g \in Generation :
                            status'[g] = "waiting" => status[g] = "waiting"
<1>0. NobodyWaits => TasksKept(h)
  BY DEF TasksKept
<1>1. ASSUME NEW w \in Lane, Pause(w)
      PROVE TasksKept(h) \/ TaskAsked(h)
  <2>1. PICK g \in Generation : g = run[w].generation
    BY <1>1, HolderRuns DEF Pause, CanSettle
  <2>2. /\ status[g] = "running" /\ status' = [status EXCEPT ![g] = "waiting"]
        /\ tasks' = [tasks EXCEPT ![g][active[g]] = "pending"]
    BY <1>1, <2>1 DEF Pause, CanSettle, HoldsLease, Settle
  <2>3. CASE h = g
    BY <2>2, <2>3 DEF TypeOK, TaskAsked
  <2>4. CASE h # g
    BY <2>2, <2>4 DEF TypeOK, TasksKept
  <2>5. QED
    BY <2>3, <2>4
<1>2. ASSUME NEW g \in Generation, NEW n \in AttemptNumber, ResolveTask(g, n)
      PROVE TasksKept(h) \/ TaskAnswered(h)
  <2>1. /\ status' = [status EXCEPT ![g] = "queued"] /\ tasks[g][n] = "pending"
        /\ tasks' = [tasks EXCEPT ![g][n] = "resolved"]
    BY <1>2 DEF ResolveTask, AppendAttempt
  <2>2. CASE h = g
    BY <2>1, <2>2 DEF TypeOK, TaskAnswered
  <2>3. CASE h # g
    BY <2>1, <2>3 DEF TypeOK, TasksKept
  <2>4. QED
    BY <2>2, <2>3
<1>3. ASSUME NEW w \in Lane, Complete(w) \/ CompleteResponse(w) \/ Fail(w) \/ Repair(w)
      PROVE NobodyWaits
  <2>1. \E s \in {"succeeded", "failed", "queued"} :
          status' = [status EXCEPT ![run[w].generation] = s]
    BY <1>3 DEF Complete, CompleteResponse, Fail, Repair, Settle, AppendAttempt
  <2>2. tasks' = tasks
    BY <1>3 DEF Complete, CompleteResponse, Fail, Repair
  <2>3. QED
    BY <2>1, <2>2 DEF TypeOK
<1>4. ASSUME NEW g \in Generation,
             \/ \E op \in {"change", "inspect"}, b \in 0..Len(versions),
                   p \in Generation \cup {NoGeneration} : CreateGeneration(g, op, b, p)
             \/ CancelGeneration(g) \/ Retry(g) \/ Resume(g)
             \/ \E w \in Lane : Claim(w, g)
      PROVE NobodyWaits
  <2>1. \E s \in {"queued", "cancelled", "running"} : status' = [status EXCEPT ![g] = s]
    BY <1>4 DEF CreateGeneration, CancelGeneration, Retry, Resume, Claim, AppendAttempt
  <2>2. tasks' = tasks
    BY <1>4 DEF CreateGeneration, CancelGeneration, Retry, Resume, Claim
  <2>3. QED
    BY <2>1, <2>2 DEF TypeOK
<1>5. \/ \E g \in Generation :
            \/ \E op \in {"change", "inspect"}, b \in 0..Len(versions),
                  p \in Generation \cup {NoGeneration} : CreateGeneration(g, op, b, p)
            \/ CancelGeneration(g) \/ Retry(g) \/ Resume(g)
            \/ \E w \in Lane : Claim(w, g)
      \/ \E g \in Generation, n \in AttemptNumber : ResolveTask(g, n)
      \/ \E w \in Lane : Pause(w)
      \/ \E w \in Lane : Complete(w) \/ CompleteResponse(w) \/ Fail(w) \/ Repair(w)
      \/ tasks' = tasks /\ status' = status
  BY DEF Next, HostStep, LaneStep, LaneSettles, CreateSourceVersion, CreateSteering, DeleteChat,
         RestoreChat, CheckSteeringLease, ApplySteering, RestartForSteering, Abandon, Crash,
         Time, LeaseRunsOut, HeartbeatTooLate, ExpireLease, vars, genVars
<1>6. QED
  BY <1>0, <1>1, <1>2, <1>3, <1>4, <1>5

TaskMatches(h) ==
    /\ status[h] = "waiting" => tasks[h][active[h]] = "pending"
    /\ \A n \in AttemptNumber :
         /\ tasks[h][n] = "pending" => attempts[h][n].status \in {"waiting", "cancelled"}
         /\ tasks[h][n] # "none" => n <= count[h]

\* What rows and tasks may do together keeps them matched.
LEMMA TaskStep ==
    ASSUME TypeOK, Histories, TasksMatchAttempts, [Next]_vars, NEW h \in Generation
    PROVE  TaskMatches(h)'
<1> USE BoundAssumption DEF AttemptNumber
<1>0. /\ History(h) /\ TaskMatches(h)
      /\ active[h] \in AttemptNumber /\ count[h] \in 0..MaxAttempts
      /\ attempts[h] \in [AttemptNumber -> AttemptRow]
      /\ tasks[h] \in [AttemptNumber -> {"none", "pending", "resolved"}]
  BY DEF TypeOK, Histories, TasksMatchAttempts, TaskMatches
<1>t. ASSUME NEW n \in AttemptNumber
      PROVE  \/ tasks'[h][n] = tasks[h][n]
             \/ TaskAsked(h) /\ n = active[h]
             \/ tasks[h][n] = "pending" /\ tasks'[h][n] = "resolved"
  <2>1. CASE TasksKept(h)
    BY <2>1 DEF TasksKept
  <2>2. CASE TaskAsked(h)
    BY <1>0, <2>2 DEF TaskAsked
  <2>3. ASSUME NEW m \in AttemptNumber, tasks[h][m] = "pending",
               tasks'[h] = [tasks[h] EXCEPT ![m] = "resolved"]
        PROVE  tasks'[h][n] = tasks[h][n] \/ (tasks[h][n] = "pending" /\ tasks'[h][n] = "resolved")
    BY <1>0, <2>3
  <2>4. QED
    BY <2>1, <2>2, <2>3, StepOnTasks DEF TaskAnswered
<1>1. status'[h] = "waiting" => tasks'[h][active'[h]] = "pending"
  <2> SUFFICES ASSUME status'[h] = "waiting" PROVE tasks'[h][active'[h]] = "pending"
    OBVIOUS
  <2>1. active'[h] = active[h] /\ (status[h] = "waiting" => RowsKept(h))
    BY StepOnRows DEF RowStep, RowsKept, RowCreated, RowMoved, RowAdded
  <2>2. CASE TasksKept(h)
    BY <1>0, <2>1, <2>2 DEF TasksKept, TaskMatches
  <2>3. CASE TaskAsked(h)
    BY <1>0, <2>1, <2>3 DEF TaskAsked
  <2>4. QED
    BY <2>2, <2>3, StepOnTasks DEF TaskAnswered
<1>2. count'[h] \in Nat /\ count[h] <= count'[h] /\ (status[h] = "running" => active[h] = count[h])
  <2>1. \/ count'[h] = count[h] \/ count'[h] = count[h] + 1
        \/ status[h] = "absent" /\ count'[h] = 1
    BY StepOnRows DEF RowStep, RowsKept, RowCreated, RowMoved, RowAdded
  <2>2. status[h] = "absent" => count[h] = 0
    BY <1>0 DEF History
  <2>3. status[h] = "running" => active[h] = count[h]
    BY <1>0 DEF History
  <2>4. QED
    BY <1>0, <2>1, <2>2, <2>3
<1>3. ASSUME NEW n \in AttemptNumber, tasks'[h][n] # "none"
      PROVE  n <= count'[h]
  <2>1. tasks[h][n] # "none" \/ (status[h] = "running" /\ n = active[h])
    BY <1>3, <1>t DEF TaskAsked
  <2>2. n <= count[h]
    BY <1>0, <1>2, <2>1 DEF TaskMatches
  <2>3. QED
    BY <1>0, <1>2, <2>2
<1>4. ASSUME NEW n \in AttemptNumber, tasks'[h][n] = "pending"
      PROVE  attempts'[h][n].status \in {"waiting", "cancelled"}
  <2>1. CASE tasks[h][n] = "pending"
    <3>1. attempts[h][n].status \in {"waiting", "cancelled"} /\ n <= count[h]
      BY <1>0, <2>1 DEF TaskMatches
    <3>2. CASE RowsKept(h)
      BY <3>1, <3>2 DEF RowsKept
    <3>3. CASE RowCreated(h)
      BY <1>0, <3>1, <3>3 DEF RowCreated, History
    <3>4. ASSUME NEW a \in AttemptRow, RowMoved(h, a)
          PROVE  attempts'[h][n].status \in {"waiting", "cancelled"}
      <4>1. CASE n = active[h]
        <5>1. status[h] = "waiting"
          BY <1>0, <3>1, <3>4, <4>1 DEF RowMoved, History, Current, Open
        <5>2. QED
          BY <1>0, <3>4, <4>1, <5>1 DEF RowMoved
      <4>2. CASE n # active[h]
        BY <1>0, <3>1, <3>4, <4>2 DEF RowMoved
      <4>3. QED
        BY <4>1, <4>2
    <3>5. ASSUME NEW s \in AttemptStatus, NEW r \in AttemptReason, RowAdded(h, s, r)
          PROVE  attempts'[h][n].status \in {"waiting", "cancelled"}
      <4>1. n # count[h] + 1 /\ active[h] = count[h]
        BY <1>0, <3>1, <3>5 DEF RowAdded, History
      <4>2. CASE n = active[h]
        <5>1. s = attempts[h][n].status
          BY <3>1, <3>5, <4>2 DEF RowAdded, Current
        <5>2. attempts'[h][n] = WithStatus(attempts[h][n], s)
          BY <1>0, <3>5, <4>1, <4>2 DEF RowAdded
        <5>3. QED
          BY <3>1, <5>1, <5>2 DEF WithStatus
      <4>3. CASE n # active[h]
        BY <1>0, <3>1, <3>5, <4>1, <4>3 DEF RowAdded
      <4>4. QED
        BY <4>2, <4>3
    <3>6. QED
      BY <3>2, <3>3, <3>4, <3>5, StepOnRows DEF RowStep
  <2>2. CASE tasks[h][n] # "pending"
    <3>1. TaskAsked(h) /\ n = active[h]
      BY <1>4, <1>t, <2>2
    <3>2. PICK a \in AttemptRow : RowMoved(h, a)
      BY <3>1, StepOnRows DEF TaskAsked, RowStep, RowsKept, RowCreated, RowAdded
    <3>3. a.status = "waiting" /\ attempts'[h][n] = a
      BY <1>0, <3>1, <3>2 DEF TaskAsked, RowMoved
    <3>4. QED
      BY <3>3
  <2>3. QED
    BY <2>1, <2>2
<1>5. QED
  BY <1>1, <1>3, <1>4 DEF TaskMatches

\* A waiting generation has the task it waits for, and a task outlives only an attempt that
\* waits or was cancelled while it waited.
THEOREM TasksBelongToAttempts == Spec => []TasksMatchAttempts
<1>1. Init => TasksMatchAttempts
  <2> SUFFICES ASSUME Init, NEW g \in Generation
               PROVE  status[g] = "absent" /\ \A n \in AttemptNumber : tasks[g][n] = "none"
    BY DEF TasksMatchAttempts
  <2>1. QED
    BY DEF Init
<1>2. TypeOK /\ Histories /\ TasksMatchAttempts /\ [Next]_vars => TasksMatchAttempts'
  BY TaskStep DEF TaskMatches, TasksMatchAttempts
<1>3. QED
  BY <1>1, <1>2, TypeCorrect, HistoriesHold, PTL DEF Spec

----------------------------------------------------------------------------
(* The lease fence, and deleted chats *)

\* What the lease fence of a transaction says about the generation whose lease it is.
LEMMA Fence ==
    ASSUME TypeOK, NEW w \in Lane, HoldsLease(w)
    PROVE  \E g \in Generation :
             /\ run[w].generation = g /\ run[w].attempt = active[g]
             /\ LiveLease(g) /\ Current(g).owner = w
BY HolderRuns DEF HoldsLease, LiveLease

\* A run that ends is idle.
LEMMA EndedRun ==
    ASSUME TypeOK, NEW w \in Lane, EndRun(w)
    PROVE  run'[w] = Idle
BY DEF TypeOK, EndRun

\* A step leaves the attempt rows of h and their status alone,
SameRows(h) ==
    status'[h] = status[h] /\ active'[h] = active[h] /\ attempts'[h] = attempts[h]

\* or it is the end of the run that holds the lease,
EndedByHolder(h) ==
    LET w == Current(h).owner IN
    /\ LiveLease(h) /\ w \in Lane
    /\ run[w].generation = h /\ run[w].attempt = active[h] /\ run'[w] = Idle

\* or time,
Expired(h) ==
    /\ status[h] = "running" /\ status'[h] = "running" /\ active'[h] = active[h]
    /\ Current(h)'.status = "running" /\ Current(h)'.lease = "expired"

\* or a cancellation,
Cancelled(h) == status'[h] = "cancelled"

\* or it takes on work that no live lease protects.
TakenOver(h) == ~LiveLease(h) /\ status'[h] \in {"queued", "running"}

\* Settling or replacing the attempt of a generation leaves the others' rows alone.
LEMMA OtherRows ==
    ASSUME TypeOK, NEW g \in Generation, NEW h \in Generation \ {g}
    PROVE  /\ \A s : Settle(g, s) /\ active' = active => SameRows(h)
           /\ \A s, r : AppendAttempt(g, s, r) => SameRows(h)
BY DEF TypeOK, Settle, AppendAttempt, SameRows

\* There is no other way to change an attempt.
LEMMA StepOnLease ==
    ASSUME TypeOK, [Next]_vars, NEW h \in Generation
    PROVE  SameRows(h) \/ EndedByHolder(h) \/ Expired(h) \/ Cancelled(h) \/ TakenOver(h)
<1> DEFINE Goal == SameRows(h) \/ EndedByHolder(h) \/ Expired(h) \/ Cancelled(h) \/ TakenOver(h)
<1>1. ASSUME NEW g \in Generation, NEW op \in {"change", "inspect"},
             NEW b \in 0..Len(versions), NEW p \in Generation \cup {NoGeneration},
             CreateGeneration(g, op, b, p)
      PROVE Goal
  BY <1>1 DEF TypeOK, CreateGeneration, SameRows, TakenOver, LiveLease
<1>2. ASSUME NEW g \in Generation, CancelGeneration(g)
      PROVE Goal
  BY <1>2 DEF TypeOK, CancelGeneration, SameRows, Cancelled
<1>3. ASSUME NEW g \in Generation,
             \/ Retry(g) \/ Resume(g)
             \/ \E n \in AttemptNumber : ResolveTask(g, n)
      PROVE Goal
  <2>1. ~LiveLease(g) /\ \E s, r : AppendAttempt(g, s, r)
    BY <1>3 DEF Retry, Resume, ResolveTask, LiveLease
  <2>2. status'[g] = "queued"
    BY <2>1 DEF TypeOK, AppendAttempt
  <2>3. QED
    BY <2>1, <2>2, OtherRows DEF TakenOver
<1>4. ASSUME NEW w \in Lane, NEW g \in Generation, Claim(w, g)
      PROVE Goal
  BY <1>4 DEF TypeOK, Claim, SameRows, TakenOver, LiveLease
<1>5. ASSUME NEW w \in Lane, LaneSettles(w)
      PROVE Goal
  <2>1. HoldsLease(w) /\ EndRun(w)
    BY <1>5 DEF LaneSettles, Complete, CompleteResponse, Pause, Fail, Repair, CanSettle
  <2>2. PICK g \in Generation :
          /\ run[w].generation = g /\ run[w].attempt = active[g]
          /\ LiveLease(g) /\ Current(g).owner = w
    BY <2>1, Fence
  <2>3. EndedByHolder(g)
    BY <2>1, <2>2, EndedRun DEF EndedByHolder
  <2>4. \/ \E s : Settle(g, s) /\ active' = active
        \/ \E s, r : AppendAttempt(g, s, r)
    BY <1>5, <2>2 DEF LaneSettles, Complete, CompleteResponse, Pause, Fail, Repair
  <2>5. QED
    BY <2>3, <2>4, OtherRows
<1>6. CASE Time
  <2>1. PICK g \in Generation : ExpireLease(g)
    BY <1>6 DEF Time, LeaseRunsOut, HeartbeatTooLate
  <2>2. CASE h = g
    BY <2>1, <2>2 DEF TypeOK, ExpireLease, Expired, Current
  <2>3. CASE h # g
    BY <2>1, <2>3 DEF TypeOK, ExpireLease, SameRows
  <2>4. QED
    BY <2>2, <2>3
<1>7. \/ \E g \in Generation, op \in {"change", "inspect"}, b \in 0..Len(versions),
            p \in Generation \cup {NoGeneration} : CreateGeneration(g, op, b, p)
      \/ \E g \in Generation : CancelGeneration(g)
      \/ \E g \in Generation : \/ Retry(g) \/ Resume(g)
                               \/ \E n \in AttemptNumber : ResolveTask(g, n)
      \/ \E w \in Lane, g \in Generation : Claim(w, g)
      \/ \E w \in Lane : LaneSettles(w)
      \/ Time
      \/ status' = status /\ active' = active /\ attempts' = attempts
  BY DEF Next, HostStep, LaneStep, CreateSourceVersion, CreateSteering, DeleteChat, RestoreChat,
         CheckSteeringLease, ApplySteering, RestartForSteering, Abandon, Crash, vars, genVars
<1>8. QED
  BY <1>1, <1>2, <1>3, <1>4, <1>5, <1>6, <1>7 DEF SameRows

\* A result, a task or a failure comes only from the run of the last claim, under its live
\* lease; whoever lost the lease commits nothing.
THEOREM StaleRunsAreFenced == Spec => StaleRunsNeverCommit
<1>1. ASSUME TypeOK, [Next]_vars, NEW g \in Generation,
             status[g] = "running", Current(g)'.status # "running",
             status'[g] \in {"succeeded", "failed", "waiting"}
      PROVE  EndedByHolder(g)
  BY <1>1, StepOnLease DEF SameRows, Expired, Cancelled, TakenOver
<1>2. TypeOK /\ [Next]_vars =>
        [\A g \in Generation :
           status[g] = "running" /\ Current(g)'.status # "running"
             /\ status'[g] \in {"succeeded", "failed", "waiting"} =>
               LET w == Current(g).owner IN
               /\ LiveLease(g)
               /\ run[w].generation = g /\ run[w].attempt = active[g]
               /\ run'[w] = Idle]_vars
  BY <1>1 DEF EndedByHolder
<1>3. QED
  BY <1>2, TypeCorrect, PTL DEF Spec, StaleRunsNeverCommit

\* Until it expires, a lease is ended by its own run or by a cancellation, and by no claim,
\* retry, resume or resolution.
THEOREM LeasesAreNotStolen == Spec => LeaseNotStolen
<1>1. ASSUME TypeOK, [Next]_vars, NEW g \in Generation, LiveLease(g)
      PROVE  \/ LiveLease(g)' /\ active'[g] = active[g] /\ Current(g)'.owner = Current(g).owner
             \/ active'[g] = active[g] /\ Current(g)'.lease = "expired"
             \/ status'[g] = "cancelled"
             \/ LET w == Current(g).owner IN run[w].generation = g /\ run'[w] = Idle
  <2>1. CASE SameRows(g)
    BY <1>1, <2>1 DEF SameRows, LiveLease, Current
  <2>2. QED
    BY <1>1, <2>1, StepOnLease DEF EndedByHolder, Expired, Cancelled, TakenOver
<1>2. TypeOK /\ [Next]_vars =>
        [\A g \in Generation :
           LiveLease(g) =>
             \/ LiveLease(g)' /\ active'[g] = active[g] /\ Current(g)'.owner = Current(g).owner
             \/ active'[g] = active[g] /\ Current(g)'.lease = "expired"
             \/ status'[g] = "cancelled"
             \/ LET w == Current(g).owner IN run[w].generation = g /\ run'[w] = Idle]_vars
  BY <1>1
<1>3. QED
  BY <1>2, TypeCorrect, PTL DEF Spec, LeaseNotStolen
----------------------------------------------------------------------------
(* Deleted chats.  Whatever would make a generation of the chat wait or succeed, and *)
(* whatever a user would say, inserts a message, which a deleted chat refuses.       *)

Quiet(g) ==
    /\ status'[g] # status[g] => status'[g] \notin {"succeeded", "waiting"}
    /\ status[g] = "absent" => status'[g] = "absent"
    /\ \A s \in Steer : steering[g][s].status = "none" => steering'[g][s].status = "none"
    /\ tasks'[g] = tasks[g]

\* In a deleted chat only cancellation, retry, resumption, claims, failures and repairs are left.
LEMMA DeletedStep ==
    ASSUME TypeOK, [Next]_vars, chat = "deleted", NEW g \in Generation
    PROVE  Quiet(g)
<1> DEFINE Moves(h) == \E s \in {"queued", "running", "failed", "cancelled"} :
                         status' = [status EXCEPT ![h] = s]
<1>1. ASSUME steering' = steering, tasks' = tasks,
             status' = status \/ \E h \in Generation : status[h] # "absent" /\ Moves(h)
      PROVE Quiet(g)
  BY <1>1 DEF TypeOK, Quiet
<1>2. ASSUME NEW h \in Generation,
             \/ CancelGeneration(h) \/ Retry(h) \/ Resume(h)
             \/ \E w \in Lane : Claim(w, h)
      PROVE Quiet(g)
  <2>1. Moves(h) /\ status[h] # "absent" /\ steering' = steering /\ tasks' = tasks
    BY <1>2 DEF CancelGeneration, Retry, Resume, Claim, AppendAttempt, Open
  <2>2. QED
    BY <1>1, <2>1
<1>3. ASSUME NEW w \in Lane, Fail(w) \/ Repair(w)
      PROVE Quiet(g)
  <2>1. PICK h \in Generation : h = run[w].generation
    BY <1>3, HolderRuns DEF Fail, Repair
  <2>2. Moves(h) /\ status[h] # "absent" /\ steering' = steering /\ tasks' = tasks
    BY <1>3, <2>1 DEF Fail, Repair, HoldsLease, Settle, AppendAttempt
  <2>3. QED
    BY <1>1, <2>2
<1>4. ASSUME NEW w \in Lane, ApplySteering(w)
      PROVE Quiet(g)
  <2>1. \A h \in Generation, s \in Steer :
          steering[h][s].status = "none" => steering'[h][s].status = "none"
    BY <1>4 DEF TypeOK, ApplySteering, QueuedSteer
  <2>2. QED
    BY <1>4, <2>1 DEF ApplySteering, Quiet, genVars
<1>5. \/ \E h \in Generation : \/ CancelGeneration(h) \/ Retry(h) \/ Resume(h)
                               \/ \E w \in Lane : Claim(w, h)
      \/ \E w \in Lane : Fail(w) \/ Repair(w) \/ ApplySteering(w)
      \/ steering' = steering /\ tasks' = tasks /\ status' = status
  BY DEF Next, HostStep, LaneStep, LaneSettles, Time, CanInsertMessage, CanSettle, CreateGeneration,
         CreateSourceVersion, CreateSteering, ResolveTask, DeleteChat, RestoreChat, Complete,
         CompleteResponse, Pause, CheckSteeringLease, RestartForSteering, Abandon, Crash,
         LeaseRunsOut, HeartbeatTooLate, ExpireLease, vars, genVars
<1>6. QED
  BY <1>1, <1>2, <1>3, <1>4, <1>5

\* No late worker, retry or steering call adds to a deleted chat.
THEOREM DeletedChatsStayQuiet == Spec => DeletedChatStaysQuiet
<1>1. TypeOK /\ [Next]_vars =>
        [chat = "deleted" =>
           \A g \in Generation :
               /\ status'[g] # status[g] => status'[g] \notin {"succeeded", "waiting"}
               /\ status[g] = "absent" => status'[g] = "absent"
               /\ \A s \in Steer : steering[g][s].status = "none"
                                     => steering'[g][s].status = "none"
               /\ tasks'[g] = tasks[g]]_vars
  BY DeletedStep DEF Quiet
<1>2. QED
  BY <1>1, TypeCorrect, PTL DEF Spec, DeletedChatStaysQuiet

\* Deletion strands nobody: it is refused while something waits, and nothing starts to wait after.
THEOREM NobodyIsStranded == Spec => []NoTaskOpenInDeletedChat
<1>1. Init => NoTaskOpenInDeletedChat
  BY DEF Init, NoTaskOpenInDeletedChat
<1>2. TypeOK /\ NoTaskOpenInDeletedChat /\ [Next]_vars => NoTaskOpenInDeletedChat'
  <2> SUFFICES ASSUME TypeOK, NoTaskOpenInDeletedChat, [Next]_vars, chat' = "deleted",
                      NEW g \in Generation
               PROVE  status'[g] # "waiting"
    BY DEF NoTaskOpenInDeletedChat
  <2>1. CASE chat = "deleted"
    BY <2>1, DeletedStep DEF Quiet, NoTaskOpenInDeletedChat
  <2>2. CASE chat # "deleted"
    <3>1. DeleteChat
      BY <2>2 DEF TypeOK, Next, HostStep, LaneStep, LaneSettles, Time, CreateGeneration,
         CreateSourceVersion, CreateSteering, CancelGeneration, Retry, Resume, ResolveTask,
         RestoreChat, Claim, Complete, CompleteResponse, Pause, Fail, Repair, CheckSteeringLease,
         ApplySteering, RestartForSteering, Abandon, Crash, LeaseRunsOut, HeartbeatTooLate,
         ExpireLease, vars, chatVars
    <3>2. QED
      BY <3>1 DEF DeleteChat, Open, genVars
  <2>3. QED
    BY <2>1, <2>2
<1>3. QED
  BY <1>1, <1>2, TypeCorrect, PTL DEF Spec

=============================================================================
