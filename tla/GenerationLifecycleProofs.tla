--------------------- MODULE GenerationLifecycleProofs ---------------------
(***************************************************************************)
(* Theorems about GenerationLifecycle, for any sets of generations, lanes  *)
(* and steering keys and any value of the bounds.                          *)
(***************************************************************************)
EXTENDS GenerationLifecycle, TLAPS

\* The row inserted for a new attempt is a well-formed attempt row.
LEMMA QueuedAttemptType ==
    ASSUME NEW r \in AttemptReason
    PROVE  QueuedAttempt(r) \in AttemptRow
BY DEF QueuedAttempt, AttemptRow, AttemptStatus, GenerationStatus, Open, Terminal, AttemptReason

\* The effect of AppendAttempt on the attempt rows keeps their type.
LEMMA AppendAttemptType ==
    ASSUME TypeOK, NEW g \in Generation, NEW s \in AttemptStatus, NEW r \in AttemptReason,
           AppendAttempt(g, s, r)
    PROVE  /\ status' \in [Generation -> GenerationStatus]
           /\ active' \in [Generation -> AttemptNumber]
           /\ count' \in [Generation -> 0..MaxAttempts]
           /\ attempts' \in [Generation -> [AttemptNumber -> AttemptRow]]
<1>1. count[g] + 1 \in AttemptNumber
  BY BoundAssumption DEF TypeOK, AppendAttempt, AttemptNumber
<1>2. WithStatus(attempts[g][active[g]], s) \in AttemptRow
  BY DEF TypeOK, AttemptRow, WithStatus
<1>3. QueuedAttempt(r) \in AttemptRow
  BY QueuedAttemptType
<1>4. attempts' \in [Generation -> [AttemptNumber -> AttemptRow]]
  BY <1>1, <1>2, <1>3 DEF TypeOK, AppendAttempt
<1>5. active' \in [Generation -> AttemptNumber] /\ count' \in [Generation -> 0..MaxAttempts]
  BY <1>1 DEF TypeOK, AppendAttempt, AttemptNumber
<1>6. status' \in [Generation -> GenerationStatus]
  BY DEF TypeOK, AppendAttempt, GenerationStatus, Open
<1>7. QED
  BY <1>4, <1>5, <1>6

\* Ending the active attempt together with its generation keeps both typed.
LEMMA SettleType ==
    ASSUME TypeOK, NEW g \in Generation, NEW s \in GenerationStatus, Settle(g, s)
    PROVE  /\ status' \in [Generation -> GenerationStatus]
           /\ attempts' \in [Generation -> [AttemptNumber -> AttemptRow]]
BY DEF TypeOK, Settle, AttemptRow, AttemptStatus, WithStatus

\* Appending a version keeps the version list typed.
LEMMA InsertVersionType ==
    ASSUME TypeOK, NEW g \in Generation \cup {NoGeneration}, NEW p \in Nat, InsertVersion(g, p)
    PROVE  versions' \in Seq(VersionRow)
BY DEF TypeOK, InsertVersion, VersionRow

\* A lane that drops its run is idle, which is a well-formed run.
LEMMA EndRunType ==
    ASSUME TypeOK, NEW w \in Lane, EndRun(w)
    PROVE  run' \in [Lane -> Run]
BY BoundAssumption DEF TypeOK, EndRun, Idle, Run, Running

\* A lane that holds a lease runs an existing generation.
LEMMA HolderRuns ==
    ASSUME TypeOK, NEW w \in Lane, HoldsLease(w)
    PROVE  run[w].generation \in Generation /\ run[w].attempt \in AttemptNumber
BY DEF TypeOK, HoldsLease, Run

\* No transaction and no lane step takes a row, a run or a counter out of its type.
THEOREM TypeCorrect == Spec => []TypeOK
<1>1. Init => TypeOK
  <2> SUFFICES ASSUME Init PROVE TypeOK
    OBVIOUS
  <2>1. versions \in Seq(VersionRow)
    <3>1. [generation |-> NoGeneration, parent |-> 0] \in VersionRow
      BY DEF VersionRow
    <3>2. CASE versions = <<>>
      BY <3>2
    <3>3. CASE versions = <<[generation |-> NoGeneration, parent |-> 0]>>
      BY <3>1, <3>3
    <3>4. QED
      BY <3>2, <3>3 DEF Init
  <2>2. NoAttempt \in AttemptRow /\ 1 \in AttemptNumber
    BY BoundAssumption
       DEF NoAttempt, AttemptRow, AttemptStatus, GenerationStatus, AttemptReason, AttemptNumber
  <2>3. Idle \in Run /\ [status |-> "none", by |-> 0] \in SteeringRow
    BY BoundAssumption DEF Idle, Running, Run, SteeringRow
  <2>4. QED
    BY <2>1, <2>2, <2>3, BoundAssumption DEF Init, TypeOK, GenerationStatus
<1>2. TypeOK /\ [Next]_vars => TypeOK'
  <2> SUFFICES ASSUME TypeOK, [Next]_vars PROVE TypeOK'
    OBVIOUS
  <2>1. ASSUME NEW g \in Generation, NEW op \in {"change", "inspect"},
               NEW b \in 0..Len(versions), NEW p \in Generation \cup {NoGeneration},
               CreateGeneration(g, op, b, p)
        PROVE TypeOK'
    BY <2>1, QueuedAttemptType, BoundAssumption
       DEF TypeOK, CreateGeneration, chatVars, GenerationStatus, Open, AttemptNumber, AttemptReason
  <2>2. ASSUME NEW parent \in 1..Len(versions), CreateSourceVersion(parent)
        PROVE TypeOK'
    <3>1. parent \in Nat
      BY DEF TypeOK
    <3>2. versions' \in Seq(VersionRow)
      BY <2>2, <3>1, InsertVersionType DEF CreateSourceVersion
    <3>3. QED
      BY <2>2, <3>2 DEF TypeOK, CreateSourceVersion, genVars
  <2>3. ASSUME NEW g \in Generation, NEW s \in Steer, CreateSteering(g, s)
        PROVE TypeOK'
    BY <2>3, BoundAssumption DEF TypeOK, CreateSteering, chatVars, genVars, SteeringRow
  <2>4. ASSUME NEW g \in Generation, CancelGeneration(g)
        PROVE TypeOK'
    BY <2>4 DEF TypeOK, CancelGeneration, chatVars, GenerationStatus, AttemptStatus, AttemptRow,
                Terminal, WithStatus
  <2>5. ASSUME NEW g \in Generation, Retry(g)
        PROVE TypeOK'
    BY <2>5, AppendAttemptType DEF TypeOK, Retry, chatVars, Current, AttemptRow, AttemptReason
  <2>6. ASSUME NEW g \in Generation, Resume(g)
        PROVE TypeOK'
    BY <2>6, AppendAttemptType
       DEF TypeOK, Resume, chatVars, Current, AttemptRow, AttemptStatus, AttemptReason
  <2>7. ASSUME NEW g \in Generation, NEW n \in AttemptNumber, ResolveTask(g, n)
        PROVE TypeOK'
    BY <2>7, AppendAttemptType DEF TypeOK, ResolveTask, chatVars, Current, AttemptRow, AttemptReason
  <2>8. CASE DeleteChat \/ RestoreChat
    BY <2>8 DEF TypeOK, DeleteChat, RestoreChat, genVars
  <2>9. ASSUME NEW w \in Lane, NEW g \in Generation, Claim(w, g)
        PROVE TypeOK'
    <3>1. ResolvedBase(g) \in Nat
      BY DEF TypeOK, ResolvedBase, VersionsOf
    <3>2. Running(g, active[g], FALSE, AppliedSteer(g)) \in Run
      BY DEF TypeOK, Run, Running, AppliedSteer, AttemptNumber
    <3>3. [status |-> "running", reason |-> Current(g).reason, owner |-> w, lease |-> "live"]
            \in AttemptRow
      BY DEF TypeOK, Current, AttemptRow, AttemptStatus, GenerationStatus, Open
    <3>4. attempts' \in [Generation -> [AttemptNumber -> AttemptRow]]
      BY <2>9, <3>3 DEF TypeOK, Claim, Current
    <3>5. status' \in [Generation -> GenerationStatus]
      BY <2>9 DEF TypeOK, Claim, GenerationStatus, Open
    <3>6. base' \in [Generation -> Nat] /\ run' \in [Lane -> Run]
      BY <2>9, <3>1, <3>2 DEF TypeOK, Claim
    <3>7. QED
      BY <2>9, <3>4, <3>5, <3>6 DEF TypeOK, Claim, chatVars
  <2>10. ASSUME NEW w \in Lane, CheckSteeringLease(w)
         PROVE TypeOK'
    BY <2>10 DEF TypeOK, CheckSteeringLease, chatVars, genVars, Run, Running
  <2>11. ASSUME NEW w \in Lane, ApplySteering(w)
         PROVE TypeOK'
    <3> DEFINE g == run[w].generation
    <3>1. Running(g, run[w].attempt, FALSE, run[w].seen \cup QueuedSteer(g)) \in Run
      BY DEF TypeOK, Run, Running, QueuedSteer
    <3>2. [status |-> "applied", by |-> run[w].attempt] \in SteeringRow
      BY DEF TypeOK, Run, SteeringRow
    <3>3. run' \in [Lane -> Run]
      BY <2>11, <3>1 DEF TypeOK, ApplySteering
    <3>4. steering' \in [Generation -> [Steer -> SteeringRow]]
      BY <2>11, <3>2 DEF TypeOK, ApplySteering
    <3>5. QED
      BY <2>11, <3>3, <3>4 DEF TypeOK, ApplySteering, chatVars, genVars
  <2>12. ASSUME NEW w \in Lane, RestartForSteering(w)
         PROVE TypeOK'
    BY <2>12 DEF TypeOK, RestartForSteering, chatVars, genVars, Run, Running, AppliedSteer
  <2>13. ASSUME NEW w \in Lane, Complete(w)
         PROVE TypeOK'
    BY <2>13, HolderRuns, SettleType, InsertVersionType, EndRunType
       DEF TypeOK, Complete, CanSettle, GenerationStatus, Terminal
  <2>14. ASSUME NEW w \in Lane, CompleteResponse(w)
         PROVE TypeOK'
    BY <2>14, HolderRuns, SettleType, EndRunType
       DEF TypeOK, CompleteResponse, CanSettle, chatVars, GenerationStatus, Terminal
  <2>15. ASSUME NEW w \in Lane, Pause(w)
         PROVE TypeOK'
    BY <2>15, HolderRuns, SettleType, EndRunType
       DEF TypeOK, Pause, CanSettle, chatVars, GenerationStatus, Open
  <2>16. ASSUME NEW w \in Lane, Fail(w)
         PROVE TypeOK'
    BY <2>16, HolderRuns, SettleType, EndRunType
       DEF TypeOK, Fail, chatVars, GenerationStatus, Terminal
  <2>17. ASSUME NEW w \in Lane, Repair(w)
         PROVE TypeOK'
    BY <2>17, HolderRuns, AppendAttemptType, EndRunType
       DEF TypeOK, Repair, chatVars, AttemptStatus, GenerationStatus, Terminal, AttemptReason
  <2>18. ASSUME NEW w \in Lane, Abandon(w) \/ Crash(w)
         PROVE TypeOK'
    BY <2>18, EndRunType, BoundAssumption DEF TypeOK, Abandon, Crash, chatVars, genVars
  <2>19. ASSUME NEW g \in Generation, LeaseRunsOut(g) \/ HeartbeatTooLate(g)
         PROVE TypeOK'
    <3>1. ExpireLease(g) /\ faults' \in 0..MaxFaults
      BY <2>19, BoundAssumption DEF TypeOK, LeaseRunsOut, HeartbeatTooLate
    <3>2. [status |-> "running", reason |-> Current(g).reason, owner |-> Current(g).owner,
           lease |-> "expired"] \in AttemptRow
      BY DEF TypeOK, Current, AttemptRow, AttemptStatus, GenerationStatus, Open
    <3>3. attempts' \in [Generation -> [AttemptNumber -> AttemptRow]]
      BY <3>1, <3>2 DEF TypeOK, ExpireLease, Current
    <3>4. QED
      BY <3>1, <3>3 DEF TypeOK, ExpireLease, chatVars
  <2>20. CASE UNCHANGED vars
    BY <2>20 DEF TypeOK, vars, chatVars, genVars
  <2>21. QED
    BY <2>1, <2>2, <2>3, <2>4, <2>5, <2>6, <2>7, <2>8, <2>9, <2>10, <2>11, <2>12, <2>13, <2>14,
       <2>15, <2>16, <2>17, <2>18, <2>19, <2>20
       DEF Next, HostStep, LaneStep, LaneSettles, Time
<1>3. QED
  BY <1>1, <1>2, PTL DEF Spec

----------------------------------------------------------------------------
(* No generation succeeds over queued steering.  The invariant is inductive with the *)
(* types alone: what matters is that success is only ever entered through CanSettle  *)
(* and that steering is only accepted by open work.                                  *)

\* Appending an attempt queues its generation and leaves the others' status alone.
LEMMA AppendAttemptStatus ==
    ASSUME TypeOK, NEW g \in Generation, NEW s, NEW r, AppendAttempt(g, s, r)
    PROVE  \A h \in Generation : status'[h] = IF h = g THEN "queued" ELSE status[h]
BY DEF TypeOK, AppendAttempt

\* Settling a generation leaves the others' status alone.
LEMMA SettleStatus ==
    ASSUME TypeOK, NEW g \in Generation, NEW s, Settle(g, s)
    PROVE  \A h \in Generation : status'[h] = IF h = g THEN s ELSE status[h]
BY DEF TypeOK, Settle

\* No generation ever succeeds over an instruction that nobody consumed.
THEOREM NoSteeringLost == Spec => []NoSteeringLeftBehind
<1>1. Init => NoSteeringLeftBehind
  BY DEF Init, NoSteeringLeftBehind
<1>2. TypeOK /\ NoSteeringLeftBehind /\ [Next]_vars => NoSteeringLeftBehind'
  <2> SUFFICES ASSUME TypeOK, NoSteeringLeftBehind, [Next]_vars,
                      NEW h \in Generation, status'[h] = "succeeded"
               PROVE  QueuedSteer(h)' = {}
    BY DEF NoSteeringLeftBehind
  <2> DEFINE Kept == status[h] = "succeeded" /\ steering' = steering
  <2>1. Kept => QueuedSteer(h)' = {}
    BY DEF NoSteeringLeftBehind, QueuedSteer
  <2>2. ASSUME NEW g \in Generation, NEW op \in {"change", "inspect"},
               NEW b \in 0..Len(versions), NEW p \in Generation \cup {NoGeneration},
               CreateGeneration(g, op, b, p)
        PROVE QueuedSteer(h)' = {}
    BY <2>1, <2>2 DEF TypeOK, CreateGeneration
  <2>3. ASSUME NEW parent \in 1..Len(versions), CreateSourceVersion(parent)
        PROVE QueuedSteer(h)' = {}
    BY <2>1, <2>3 DEF CreateSourceVersion, genVars
  <2>4. ASSUME NEW g \in Generation, NEW s \in Steer, CreateSteering(g, s)
        PROVE QueuedSteer(h)' = {}
    <3>1. status' = status /\ g # h
      BY <2>4 DEF CreateSteering, genVars, Open
    <3>2. steering'[h] = steering[h]
      BY <2>4, <3>1 DEF TypeOK, CreateSteering
    <3>3. QED
      BY <3>1, <3>2 DEF NoSteeringLeftBehind, QueuedSteer
  <2>5. ASSUME NEW g \in Generation, CancelGeneration(g)
        PROVE QueuedSteer(h)' = {}
    BY <2>1, <2>5 DEF TypeOK, CancelGeneration
  <2>6. ASSUME NEW g \in Generation, Retry(g) \/ Resume(g)
        PROVE QueuedSteer(h)' = {}
    BY <2>1, <2>6, AppendAttemptStatus DEF Retry, Resume
  <2>7. ASSUME NEW g \in Generation, NEW n \in AttemptNumber, ResolveTask(g, n)
        PROVE QueuedSteer(h)' = {}
    BY <2>1, <2>7, AppendAttemptStatus DEF ResolveTask
  <2>8. CASE DeleteChat \/ RestoreChat
    BY <2>1, <2>8 DEF DeleteChat, RestoreChat, genVars
  <2>9. ASSUME NEW w \in Lane, NEW g \in Generation, Claim(w, g)
        PROVE QueuedSteer(h)' = {}
    BY <2>1, <2>9 DEF TypeOK, Claim
  <2>10. ASSUME NEW w \in Lane, CheckSteeringLease(w) \/ RestartForSteering(w)
         PROVE QueuedSteer(h)' = {}
    BY <2>1, <2>10 DEF CheckSteeringLease, RestartForSteering, genVars
  <2>11. ASSUME NEW w \in Lane, ApplySteering(w)
         PROVE QueuedSteer(h)' = {}
    <3>1. QueuedSteer(h) = {}
      BY <2>11 DEF ApplySteering, genVars, NoSteeringLeftBehind
    <3>2. \A s \in Steer : steering'[h][s].status = "queued" => steering[h][s].status = "queued"
      BY <2>11 DEF TypeOK, ApplySteering, QueuedSteer
    <3>3. QED
      BY <3>1, <3>2 DEF QueuedSteer
  <2>12. ASSUME NEW w \in Lane, Complete(w) \/ CompleteResponse(w) \/ Pause(w)
         PROVE QueuedSteer(h)' = {}
    <3>1. steering' = steering /\ QueuedSteer(run[w].generation) = {}
      BY <2>12 DEF Complete, CompleteResponse, Pause, CanSettle
    <3>2. h = run[w].generation \/ status[h] = "succeeded"
      BY <2>12, HolderRuns, SettleStatus DEF Complete, CompleteResponse, Pause, CanSettle
    <3>3. QED
      BY <2>1, <3>1, <3>2 DEF QueuedSteer
  <2>13. ASSUME NEW w \in Lane, Fail(w)
         PROVE QueuedSteer(h)' = {}
    BY <2>1, <2>13, HolderRuns, SettleStatus DEF Fail
  <2>14. ASSUME NEW w \in Lane, Repair(w)
         PROVE QueuedSteer(h)' = {}
    BY <2>1, <2>14, HolderRuns, AppendAttemptStatus DEF Repair
  <2>15. ASSUME NEW w \in Lane, Abandon(w) \/ Crash(w)
         PROVE QueuedSteer(h)' = {}
    BY <2>1, <2>15 DEF Abandon, Crash, genVars
  <2>16. CASE Time
    BY <2>1, <2>16 DEF Time, LeaseRunsOut, HeartbeatTooLate, ExpireLease
  <2>17. CASE UNCHANGED vars
    BY <2>1, <2>17 DEF vars, genVars
  <2>18. QED
    BY <2>2, <2>3, <2>4, <2>5, <2>6, <2>7, <2>8, <2>9, <2>10, <2>11, <2>12, <2>13, <2>14, <2>15,
       <2>16, <2>17 DEF Next, HostStep, LaneStep, LaneSettles
<1>3. QED
  BY <1>1, <1>2, TypeCorrect, PTL DEF Spec
=============================================================================
