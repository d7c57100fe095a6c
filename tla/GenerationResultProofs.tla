----------------------- MODULE GenerationResultProofs -----------------------
(***************************************************************************)
(* Theorems about the results of generations: one immutable version per    *)
(* succeeded change, follow-ups on the result they were meant for, and the *)
(* refinement: every step of GenerationLifecycle is one step of            *)
(* GenerationContract or none.                                             *)
(***************************************************************************)
EXTENDS GenerationLifecycleProofs

\* Appending a version adds it to its generation's versions and to no other's.
LEMMA InsertedVersion ==
    ASSUME TypeOK, NEW h \in Generation \cup {NoGeneration}, NEW p \in Nat, InsertVersion(h, p),
           NEW g \in Generation
    PROVE  /\ g # h => VersionsOf(g)' = VersionsOf(g)
           /\ g = h => VersionsOf(g)' = VersionsOf(g) \cup {Len(versions) + 1}
           /\ Len(versions') = Len(versions) + 1
           /\ \A v \in 1..Len(versions) : versions'[v] = versions[v]
           /\ versions'[Len(versions) + 1] = [generation |-> h, parent |-> p]
<1>1. /\ Len(versions) \in Nat
      /\ Len(versions') = Len(versions) + 1
      /\ \A v \in 1..Len(versions) : versions'[v] = versions[v]
      /\ versions'[Len(versions) + 1] = [generation |-> h, parent |-> p]
  BY DEF TypeOK, InsertVersion
<1>2. \A v \in 1..Len(versions') : v \in 1..Len(versions) \/ v = Len(versions) + 1
  BY <1>1
<1>3. \A v : v \in VersionsOf(g)' <=> v \in VersionsOf(g) \/ (g = h /\ v = Len(versions) + 1)
  BY <1>1, <1>2 DEF VersionsOf
<1>4. QED
  BY <1>1, <1>3

\* What a step can do to the result of a generation h: nothing, or to complete it.
Untouched(h) ==
    /\ VersionsOf(h)' = VersionsOf(h)
    /\ status'[h] = "succeeded" <=> status[h] = "succeeded"
    /\ status[h] = "succeeded" => operation'[h] = operation[h]

Committed(h) ==
    /\ status[h] = "running" /\ status'[h] = "succeeded"
    /\ operation'[h] = operation[h]
    /\ \/ operation[h] = "change" /\ VersionsOf(h)' = VersionsOf(h) \cup {Len(versions) + 1}
       \/ operation[h] = "inspect" /\ VersionsOf(h)' = VersionsOf(h)

\* A generation's versions depend on nothing but the version list.
LEMMA SameVersions ==
    ASSUME NEW h \in Generation, versions' = versions
    PROVE  VersionsOf(h)' = VersionsOf(h)
BY DEF VersionsOf

\* Completion is the only way into "succeeded" and the only way to a version, and nothing
\* leads out of either.
LEMMA StepOnResult ==
    ASSUME TypeOK, [Next]_vars, NEW h \in Generation
    PROVE  Untouched(h) \/ Committed(h)
<1> DEFINE Still(g) == /\ versions' = versions
                       /\ status'[g] = "succeeded" <=> status[g] = "succeeded"
                       /\ status[g] = "succeeded" => operation'[g] = operation[g]
<1>0. Still(h) => Untouched(h)
  BY SameVersions DEF Untouched
<1>1. ASSUME NEW g \in Generation, NEW op \in {"change", "inspect"},
             NEW b \in 0..Len(versions), NEW p \in Generation \cup {NoGeneration},
             CreateGeneration(g, op, b, p)
      PROVE Untouched(h)
  BY <1>0, <1>1 DEF TypeOK, CreateGeneration, chatVars
<1>2. ASSUME NEW parent \in 1..Len(versions), CreateSourceVersion(parent)
      PROVE Untouched(h)
  <2>1. parent \in Nat
    BY DEF TypeOK
  <2>2. h # NoGeneration /\ InsertVersion(NoGeneration, parent)
    BY <1>2, SentinelAssumption DEF CreateSourceVersion
  <2>3. VersionsOf(h)' = VersionsOf(h)
    BY <2>1, <2>2, InsertedVersion
  <2>4. QED
    BY <1>2, <2>3 DEF Untouched, CreateSourceVersion, genVars
<1>3. ASSUME NEW g \in Generation, NEW s \in Steer, CreateSteering(g, s)
      PROVE Untouched(h)
  BY <1>0, <1>3 DEF CreateSteering, chatVars, genVars
<1>4. ASSUME NEW g \in Generation, CancelGeneration(g)
      PROVE Untouched(h)
  BY <1>0, <1>4 DEF TypeOK, CancelGeneration, chatVars, Open
<1>5. ASSUME NEW g \in Generation, Retry(g) \/ Resume(g)
      PROVE Untouched(h)
  BY <1>0, <1>5, AppendAttemptStatus DEF Retry, Resume, chatVars
<1>6. ASSUME NEW g \in Generation, NEW n \in AttemptNumber, ResolveTask(g, n)
      PROVE Untouched(h)
  BY <1>0, <1>6, AppendAttemptStatus DEF ResolveTask, chatVars
<1>7. CASE DeleteChat \/ RestoreChat
  BY <1>0, <1>7 DEF DeleteChat, RestoreChat, genVars
<1>8. ASSUME NEW w \in Lane, NEW g \in Generation, Claim(w, g)
      PROVE Untouched(h)
  BY <1>0, <1>8 DEF TypeOK, Claim, chatVars
<1>9. ASSUME NEW w \in Lane, CheckSteeringLease(w) \/ ApplySteering(w) \/ RestartForSteering(w)
      PROVE Untouched(h)
  BY <1>0, <1>9 DEF CheckSteeringLease, ApplySteering, RestartForSteering, chatVars, genVars
<1>10. ASSUME NEW w \in Lane, Complete(w)
       PROVE Untouched(h) \/ Committed(h)
  <2> DEFINE g == run[w].generation
  <2>1. /\ g \in Generation /\ status[g] = "running" /\ operation[g] = "change"
        /\ operation' = operation
        /\ base[g] \in Nat /\ InsertVersion(g, base[g]) /\ Settle(g, "succeeded")
    BY <1>10, HolderRuns DEF TypeOK, Complete, CanSettle, HoldsLease
  <2>2. status'[h] = IF h = g THEN "succeeded" ELSE status[h]
    BY <2>1, SettleStatus
  <2>3. CASE h = g
    <3>1. VersionsOf(h)' = VersionsOf(h) \cup {Len(versions) + 1}
      BY <2>1, <2>3, InsertedVersion
    <3>2. QED
      BY <2>1, <2>2, <2>3, <3>1 DEF Committed
  <2>4. CASE h # g
    <3>1. VersionsOf(h)' = VersionsOf(h)
      BY <2>1, <2>4, InsertedVersion
    <3>2. QED
      BY <2>1, <2>2, <2>4, <3>1 DEF Untouched
  <2>5. QED
    BY <2>3, <2>4
<1>11. ASSUME NEW w \in Lane, CompleteResponse(w)
       PROVE Untouched(h) \/ Committed(h)
  <2> DEFINE g == run[w].generation
  <2>1. /\ g \in Generation /\ status[g] = "running" /\ operation[g] = "inspect"
        /\ operation' = operation /\ versions' = versions /\ Settle(g, "succeeded")
    BY <1>11, HolderRuns DEF CompleteResponse, CanSettle, HoldsLease, chatVars
  <2>2. status'[h] = IF h = g THEN "succeeded" ELSE status[h]
    BY <2>1, SettleStatus
  <2>3. QED
    BY <1>0, <2>1, <2>2, SameVersions DEF Committed
<1>12. ASSUME NEW w \in Lane, Pause(w) \/ Fail(w)
       PROVE Untouched(h)
  <2> DEFINE g == run[w].generation
  <2>1. /\ g \in Generation /\ status[g] = "running"
        /\ operation' = operation /\ versions' = versions
        /\ Settle(g, "waiting") \/ Settle(g, "failed")
    BY <1>12, HolderRuns DEF Pause, Fail, CanSettle, HoldsLease, chatVars
  <2>2. QED
    BY <1>0, <2>1, SettleStatus
<1>13. ASSUME NEW w \in Lane, Repair(w)
       PROVE Untouched(h)
  <2> DEFINE g == run[w].generation
  <2>1. /\ g \in Generation /\ status[g] = "running"
        /\ operation' = operation /\ versions' = versions
        /\ AppendAttempt(g, "failed", "retry")
    BY <1>13, HolderRuns DEF Repair, HoldsLease, chatVars
  <2>2. QED
    BY <1>0, <2>1, AppendAttemptStatus
<1>14. ASSUME NEW w \in Lane, Abandon(w) \/ Crash(w)
       PROVE Untouched(h)
  BY <1>0, <1>14 DEF Abandon, Crash, chatVars, genVars
<1>15. CASE Time
  BY <1>0, <1>15 DEF Time, LeaseRunsOut, HeartbeatTooLate, ExpireLease, chatVars
<1>16. CASE UNCHANGED vars
  BY <1>0, <1>16 DEF vars, chatVars, genVars
<1>17. QED
  BY <1>1, <1>2, <1>3, <1>4, <1>5, <1>6, <1>7, <1>8, <1>9, <1>10, <1>11, <1>12, <1>13, <1>14,
     <1>15, <1>16 DEF Next, HostStep, LaneStep, LaneSettles

\* The version a step commits is the only one of its generation, since running work had none.
LEMMA ResultStep ==
    ASSUME TypeOK, ResultCommittedOnce, [Next]_vars
    PROVE  ResultCommittedOnce'
<1> SUFFICES ASSUME NEW h \in Generation
             PROVE  IF status'[h] = "succeeded" /\ operation'[h] = "change"
                      THEN \E v \in 1..Len(versions') : VersionsOf(h)' = {v}
                      ELSE VersionsOf(h)' = {}
  BY DEF ResultCommittedOnce
<1>0. VersionsOf(h)' \subseteq 1..Len(versions')
  BY DEF VersionsOf
<1>1. CASE Untouched(h)
  BY <1>0, <1>1 DEF ResultCommittedOnce, Untouched
<1>2. CASE Committed(h)
  <2>1. VersionsOf(h) = {}
    BY <1>2 DEF ResultCommittedOnce, Committed
  <2>2. QED
    BY <1>0, <1>2, <2>1 DEF Committed
<1>3. QED
  BY <1>1, <1>2, StepOnResult

\* At-least-once execution commits once: one version per succeeded change, none otherwise.
THEOREM CommittedOnce == Spec => []ResultCommittedOnce
<1>1. Init => ResultCommittedOnce
  <2> SUFFICES ASSUME Init, NEW g \in Generation
               PROVE  status[g] # "succeeded" /\ VersionsOf(g) = {}
    BY DEF ResultCommittedOnce
  <2>1. \A v \in 1..Len(versions) : versions[v].generation = NoGeneration
    BY DEF Init
  <2>2. QED
    BY <2>1, SentinelAssumption DEF Init, VersionsOf
<1>2. TypeOK /\ ResultCommittedOnce /\ [Next]_vars => ResultCommittedOnce'
  BY ResultStep
<1>3. QED
  BY <1>1, <1>2, TypeCorrect, PTL DEF Spec
----------------------------------------------------------------------------
(* Follow-ups.  The base of a generation is set when it is created and when it is *)
(* claimed; what a claim reads, the version of a succeeded predecessor, stays.    *)

BaseKept(g) ==
    /\ after'[g] = after[g] /\ base'[g] = base[g]
    /\ status'[g] = "running" => status[g] = "running"

JustCreated(g) == status[g] = "absent" /\ status'[g] = "queued"

JustClaimed(g) ==
    /\ status[g] \in {"queued", "running"} /\ PredecessorReady(g)
    /\ after' = after /\ base'[g] = ResolvedBase(g) /\ versions' = versions

\* Nothing but its own creation and claims sets the base of a generation.
LEMMA StepOnBase ==
    ASSUME TypeOK, [Next]_vars, NEW h \in Generation
    PROVE  BaseKept(h) \/ JustCreated(h) \/ JustClaimed(h)
<1> DEFINE Kept == after' = after /\ base' = base
           Same == Kept /\ status' = status
<1>0. Same => BaseKept(h)
  BY DEF BaseKept
<1>1. ASSUME NEW g \in Generation, NEW op \in {"change", "inspect"},
             NEW b \in 0..Len(versions), NEW p \in Generation \cup {NoGeneration},
             CreateGeneration(g, op, b, p)
      PROVE BaseKept(h) \/ JustCreated(h)
  BY <1>1 DEF TypeOK, CreateGeneration, BaseKept, JustCreated
<1>2. ASSUME NEW parent \in 1..Len(versions), CreateSourceVersion(parent)
      PROVE BaseKept(h)
  BY <1>0, <1>2 DEF CreateSourceVersion, genVars
<1>3. ASSUME NEW g \in Generation, NEW s \in Steer, CreateSteering(g, s)
      PROVE BaseKept(h)
  BY <1>0, <1>3 DEF CreateSteering, genVars
<1>4. ASSUME NEW g \in Generation, CancelGeneration(g)
      PROVE BaseKept(h)
  BY <1>4 DEF TypeOK, CancelGeneration, BaseKept
<1>5. ASSUME NEW g \in Generation, Retry(g) \/ Resume(g)
      PROVE BaseKept(h)
  BY <1>5, AppendAttemptStatus DEF Retry, Resume, BaseKept
<1>6. ASSUME NEW g \in Generation, NEW n \in AttemptNumber, ResolveTask(g, n)
      PROVE BaseKept(h)
  BY <1>6, AppendAttemptStatus DEF ResolveTask, BaseKept
<1>7. CASE DeleteChat \/ RestoreChat
  BY <1>0, <1>7 DEF DeleteChat, RestoreChat, genVars
<1>8. ASSUME NEW w \in Lane, NEW g \in Generation, Claim(w, g)
      PROVE BaseKept(h) \/ JustClaimed(h)
  <2>1. CASE g = h
    BY <1>8, <2>1 DEF TypeOK, Claim, JustClaimed, chatVars
  <2>2. CASE g # h
    BY <1>8, <2>2 DEF TypeOK, Claim, BaseKept
  <2>3. QED
    BY <2>1, <2>2
<1>9. ASSUME NEW w \in Lane, CheckSteeringLease(w) \/ ApplySteering(w) \/ RestartForSteering(w)
      PROVE BaseKept(h)
  BY <1>0, <1>9 DEF CheckSteeringLease, ApplySteering, RestartForSteering, genVars
<1>10. ASSUME NEW w \in Lane, LaneSettles(w)
       PROVE BaseKept(h)
  <2>1. Kept /\ run[w].generation \in Generation
    BY <1>10, HolderRuns
       DEF LaneSettles, Complete, CompleteResponse, Pause, Fail, Repair, CanSettle
  <2>2. status'[h] = "running" => status[h] = "running"
    BY <1>10, <2>1, SettleStatus, AppendAttemptStatus
       DEF LaneSettles, Complete, CompleteResponse, Pause, Fail, Repair
  <2>3. QED
    BY <2>1, <2>2 DEF BaseKept
<1>11. ASSUME NEW w \in Lane, Abandon(w) \/ Crash(w)
       PROVE BaseKept(h)
  BY <1>0, <1>11 DEF Abandon, Crash, genVars
<1>12. CASE Time
  BY <1>0, <1>12 DEF Time, LeaseRunsOut, HeartbeatTooLate, ExpireLease
<1>13. CASE UNCHANGED vars
  BY <1>0, <1>13 DEF vars, genVars
<1>14. QED
  BY <1>1, <1>2, <1>3, <1>4, <1>5, <1>6, <1>7, <1>8, <1>9, <1>10, <1>11, <1>12, <1>13
     DEF Next, HostStep, LaneStep

\* A version is never rewritten, and a generation's new one is the child of its base.
LEMMA StepOnVersions ==
    ASSUME TypeOK, [Next]_vars, NEW h \in Generation, NEW v \in VersionsOf(h)'
    PROVE  (v \in VersionsOf(h) /\ versions'[v] = versions[v]) \/ versions'[v].parent = base[h]
<1> DEFINE Goal == \/ v \in VersionsOf(h) /\ versions'[v] = versions[v]
                   \/ versions'[v].parent = base[h]
<1>0. versions' = versions => Goal
  BY SameVersions
<1>1. ASSUME NEW parent \in 1..Len(versions), CreateSourceVersion(parent)
      PROVE Goal
  <2>1. parent \in Nat /\ h # NoGeneration /\ InsertVersion(NoGeneration, parent)
    BY <1>1, SentinelAssumption DEF TypeOK, CreateSourceVersion
  <2>2. /\ VersionsOf(h)' = VersionsOf(h)
        /\ \A u \in 1..Len(versions) : versions'[u] = versions[u]
    BY <2>1, InsertedVersion
  <2>3. v \in 1..Len(versions)
    BY <2>2 DEF VersionsOf
  <2>4. QED
    BY <2>2, <2>3
<1>2. ASSUME NEW w \in Lane, Complete(w)
      PROVE Goal
  <2> DEFINE g == run[w].generation
  <2>1. g \in Generation /\ base[g] \in Nat /\ InsertVersion(g, base[g])
    BY <1>2, HolderRuns DEF TypeOK, Complete, CanSettle
  <2>2. /\ g # h => VersionsOf(h)' = VersionsOf(h)
        /\ g = h => VersionsOf(h)' = VersionsOf(h) \cup {Len(versions) + 1}
        /\ \A u \in 1..Len(versions) : versions'[u] = versions[u]
        /\ versions'[Len(versions) + 1] = [generation |-> g, parent |-> base[g]]
    BY <2>1, InsertedVersion
  <2>3. CASE v \in VersionsOf(h)
    <3>1. v \in 1..Len(versions)
      BY <2>3 DEF VersionsOf
    <3>2. QED
      BY <2>2, <2>3, <3>1
  <2>4. CASE v \notin VersionsOf(h)
    <3>1. h = g /\ v = Len(versions) + 1
      BY <2>2, <2>4
    <3>2. QED
      BY <2>2, <3>1
  <2>5. QED
    BY <2>3, <2>4
<1>3. \/ \E parent \in 1..Len(versions) : CreateSourceVersion(parent)
      \/ \E w \in Lane : Complete(w)
      \/ versions' = versions
  BY DEF Next, HostStep, LaneStep, LaneSettles, Time, CreateGeneration, CreateSteering,
         CancelGeneration, Retry, Resume, ResolveTask, DeleteChat, RestoreChat, Claim,
         CheckSteeringLease, ApplySteering, RestartForSteering, CompleteResponse, Pause, Fail,
         Repair, Abandon, Crash, LeaseRunsOut, HeartbeatTooLate, ExpireLease, vars, chatVars
<1>4. QED
  BY <1>0, <1>1, <1>2, <1>3

\* A generation with a version has exactly one, and has succeeded.
LEMMA OneVersion ==
    ASSUME ResultCommittedOnce, NEW g \in Generation, VersionsOf(g) # {}
    PROVE  status[g] = "succeeded" /\ \E v \in 1..Len(versions) : VersionsOf(g) = {v}
BY DEF ResultCommittedOnce

\* What a succeeded predecessor has committed stays what it is.
LEMMA SucceededStays ==
    ASSUME TypeOK, [Next]_vars, NEW p \in Generation, status[p] = "succeeded"
    PROVE  status'[p] = "succeeded" /\ VersionsOf(p)' = VersionsOf(p)
BY StepOnResult DEF Untouched, Committed

\* Every step keeps follow-ups on the result they were meant for.
LEMMA FollowUpStep ==
    ASSUME TypeOK, ResultCommittedOnce, FollowUpsEditTheIntendedResult, [Next]_vars
    PROVE  FollowUpsEditTheIntendedResult'
<1> SUFFICES ASSUME NEW g \in Generation
             PROVE  /\ after'[g] # NoGeneration /\ (status'[g] = "running" \/ VersionsOf(g)' # {}) =>
                         status'[after'[g]] = "succeeded" /\ VersionsOf(after[g])' = {base'[g]}
                    /\ \A v \in VersionsOf(g)' : versions'[v].parent = base'[g]
  BY DEF FollowUpsEditTheIntendedResult
<1>1. CASE BaseKept(g)
  <2>1. \A v \in VersionsOf(g)' : versions'[v].parent = base'[g]
    BY <1>1, StepOnVersions DEF BaseKept, FollowUpsEditTheIntendedResult
  <2>2. ASSUME after[g] # NoGeneration, status'[g] = "running" \/ VersionsOf(g)' # {}
        PROVE  status'[after[g]] = "succeeded" /\ VersionsOf(after[g])' = {base[g]}
    <3>1. status[g] = "running" \/ VersionsOf(g) # {}
      BY <1>1, <2>2, StepOnResult DEF BaseKept, Untouched, Committed
    <3>2. PICK p \in Generation : p = after[g]
      BY <2>2 DEF TypeOK
    <3>3. status[p] = "succeeded" /\ VersionsOf(p) = {base[g]}
      BY <2>2, <3>1, <3>2 DEF FollowUpsEditTheIntendedResult
    <3>4. status'[p] = "succeeded" /\ VersionsOf(p)' = {base[g]}
      BY <3>3, SucceededStays
    <3>5. QED
      BY <1>1, <3>2, <3>4 DEF BaseKept, VersionsOf
  <2>3. QED
    BY <1>1, <2>1, <2>2 DEF BaseKept
<1>2. CASE JustCreated(g)
  <2>1. VersionsOf(g)' = {}
    BY <1>2, StepOnResult, OneVersion DEF JustCreated, Untouched, Committed
  <2>2. QED
    BY <1>2, <2>1 DEF JustCreated
<1>3. CASE JustClaimed(g)
  <2>1. VersionsOf(g)' = {}
    BY <1>3, OneVersion, SameVersions DEF JustClaimed
  <2>2. ASSUME after[g] # NoGeneration
        PROVE  status'[after[g]] = "succeeded" /\ VersionsOf(after[g])' = {base'[g]}
    <3>0. PICK p \in Generation : p = after[g]
      BY <2>2 DEF TypeOK
    <3>1. status[p] = "succeeded" /\ VersionsOf(p) # {}
      BY <1>3, <2>2, <3>0 DEF JustClaimed, PredecessorReady
    <3>2. PICK v \in 1..Len(versions) : VersionsOf(p) = {v}
      BY <3>1, OneVersion
    <3>3. base'[g] = v
      BY <1>3, <2>2, <3>0, <3>1, <3>2 DEF JustClaimed, ResolvedBase
    <3>4. status'[p] = "succeeded" /\ VersionsOf(p)' = {base'[g]}
      BY <3>1, <3>2, <3>3, SucceededStays
    <3>5. QED
      BY <1>3, <3>0, <3>4 DEF JustClaimed, VersionsOf
  <2>3. QED
    BY <1>3, <2>1, <2>2 DEF JustClaimed
<1>4. QED
  BY <1>1, <1>2, <1>3, StepOnBase

\* Whatever else is added to the chat, a follow-up runs only on its predecessor's committed
\* result and its version is the child of exactly that one.
THEOREM FollowUpsOnResult == Spec => []FollowUpsEditTheIntendedResult
<1>1. Init => FollowUpsEditTheIntendedResult
  <2> SUFFICES ASSUME Init, NEW g \in Generation
               PROVE  status[g] # "running" /\ VersionsOf(g) = {}
    BY DEF FollowUpsEditTheIntendedResult
  <2>1. \A v \in 1..Len(versions) : versions[v].generation = NoGeneration
    BY DEF Init
  <2>2. QED
    BY <2>1, SentinelAssumption DEF Init, VersionsOf
<1>2. TypeOK /\ ResultCommittedOnce /\ FollowUpsEditTheIntendedResult /\ [Next]_vars
        => FollowUpsEditTheIntendedResult'
  BY FollowUpStep
<1>3. QED
  BY <1>1, <1>2, TypeCorrect, CommittedOnce, PTL DEF Spec

----------------------------------------------------------------------------
(* The durable store and its lanes implement GenerationContract *)

\* What the contract sees of a generation without a version, and with one.
LEMMA ResultOf ==
    ASSUME NEW g \in Generation
    PROVE  /\ VersionsOf(g) = {} => Result[g] = 0
           /\ \A v : VersionsOf(g) = {v} => Result[g] = v
BY DEF Result

\* A step that commits nothing leaves every result as it is.
LEMMA ResultKept ==
    ASSUME \A h \in Generation : VersionsOf(h)' = VersionsOf(h)
    PROVE  Result' = Result
<1> DEFINE R(V) == IF V = {} THEN 0 ELSE CHOOSE v \in V : TRUE
<1>1. /\ Result = [h \in Generation |-> R(VersionsOf(h))]
      /\ Result' = [h \in Generation |-> R(VersionsOf(h)')]
  BY DEF Result
<1> HIDE DEF R
<1>2. \A h \in Generation : R(VersionsOf(h)') = R(VersionsOf(h))
  OBVIOUS
<1>3. QED
  BY <1>1, <1>2

\* Steps that leave the version list alone leave the results alone.
LEMMA ResultOfSameVersions ==
    ASSUME versions' = versions
    PROVE  Result' = Result
<1>1. \A h \in Generation : VersionsOf(h)' = VersionsOf(h)
  BY SameVersions
<1>2. QED
  BY <1>1, ResultKept

\* Ending, pausing or requeueing is the same change of status in both.
LEMMA StatusFunction ==
    ASSUME TypeOK, NEW g \in Generation, NEW s,
           Settle(g, s) \/ (s = "queued" /\ \E t, r : AppendAttempt(g, t, r))
    PROVE  Contract!Become(g, s)
BY DEF Settle, AppendAttempt, Contract!Become

ContractStep == Contract!Next \/ UNCHANGED Contract!vars

\* A completion is the contract's Finish: the new version number is above all others.
LEMMA CompleteFinishes ==
    ASSUME TypeOK, ResultCommittedOnce, FollowUpsEditTheIntendedResult,
           NEW w \in Lane, Complete(w)
    PROVE  ContractStep
<1>1. PICK g \in Generation : g = run[w].generation
  BY HolderRuns DEF Complete, CanSettle
<1>2. /\ status[g] = "running" /\ operation[g] = "change" /\ base[g] \in Nat
      /\ InsertVersion(g, base[g]) /\ Settle(g, "succeeded")
      /\ UNCHANGED <<after, operation>>
  BY <1>1 DEF TypeOK, Complete, CanSettle, HoldsLease
<1> DEFINE n == Len(versions) + 1
<1>3. /\ Len(versions) \in Nat /\ n \in 1..MaxVersions
      /\ \A h \in Generation \ {g} : VersionsOf(h)' = VersionsOf(h)
      /\ VersionsOf(g)' = VersionsOf(g) \cup {n}
  BY <1>2, InsertedVersion, BoundAssumption DEF TypeOK, InsertVersion
<1>4. VersionsOf(g) = {} /\ VersionsOf(g)' = {n}
  BY <1>2, <1>3 DEF ResultCommittedOnce
<1>5. \A h \in Generation : Result[h] < n
  <2> SUFFICES ASSUME NEW h \in Generation PROVE Result[h] < n
    OBVIOUS
  <2>1. CASE VersionsOf(h) = {}
    BY <1>3, <2>1, ResultOf
  <2>2. CASE VersionsOf(h) # {}
    <3>1. PICK v \in 1..Len(versions) : VersionsOf(h) = {v}
      BY <2>2, OneVersion
    <3>2. Result[h] = v
      BY <3>1, ResultOf
    <3>3. QED
      BY <1>3, <3>2
  <2>3. QED
    BY <2>1, <2>2
<1>6. Result' = [Result EXCEPT ![g] = n]
  <2> DEFINE R(V) == IF V = {} THEN 0 ELSE CHOOSE v \in V : TRUE
  <2>1. /\ Result = [h \in Generation |-> R(VersionsOf(h))]
        /\ Result' = [h \in Generation |-> R(VersionsOf(h)')]
    BY DEF Result
  <2>2. R(VersionsOf(g)') = n
    BY <1>4
  <2> HIDE DEF R, n
  <2>3. \A h \in Generation \ {g} : R(VersionsOf(h)') = R(VersionsOf(h))
    BY <1>3
  <2>4. QED
    BY <2>1, <2>2, <2>3
<1>7. Contract!MayRun(g) /\ Result[g] = 0
  BY <1>2, <1>4, ResultOf DEF FollowUpsEditTheIntendedResult, Contract!MayRun
<1>8. Contract!Finish(g)
  BY <1>2, <1>3, <1>5, <1>6, <1>7, StatusFunction DEF Contract!Finish
<1>9. QED
  BY <1>8 DEF ContractStep, Contract!Next

\* Every step of the lifecycle is a step of the contract or a stutter.
LEMMA StepKeepsContract ==
    ASSUME TypeOK, ResultCommittedOnce, FollowUpsEditTheIntendedResult, [Next]_vars
    PROVE  ContractStep
<1> DEFINE Same == UNCHANGED <<after, operation, versions>>
<1>0. Same /\ status' = status => UNCHANGED Contract!vars
  BY ResultOfSameVersions DEF Contract!vars
<1>1. ASSUME NEW g \in Generation, NEW op \in {"change", "inspect"},
             NEW b \in 0..Len(versions), NEW p \in Generation \cup {NoGeneration},
             CreateGeneration(g, op, b, p)
      PROVE ContractStep
  <2>1. Contract!Accept(g, op, p)
    BY <1>1, ResultOfSameVersions
       DEF CreateGeneration, chatVars, Contract!Accept, Contract!Become
  <2>2. QED
    BY <2>1 DEF ContractStep, Contract!Next
<1>2. ASSUME NEW parent \in 1..Len(versions), CreateSourceVersion(parent)
      PROVE ContractStep
  <2>1. parent \in Nat /\ InsertVersion(NoGeneration, parent)
    BY <1>2 DEF TypeOK, CreateSourceVersion
  <2>2. \A h \in Generation : VersionsOf(h)' = VersionsOf(h)
    BY <2>1, InsertedVersion, SentinelAssumption
  <2>3. UNCHANGED Contract!vars
    BY <1>2, <2>2, ResultKept DEF CreateSourceVersion, genVars, Contract!vars
  <2>4. QED
    BY <2>3 DEF ContractStep
<1>3. ASSUME NEW g \in Generation, NEW s \in Steer, CreateSteering(g, s)
      PROVE ContractStep
  BY <1>0, <1>3 DEF ContractStep, CreateSteering, chatVars, genVars
<1>4. ASSUME NEW g \in Generation, CancelGeneration(g)
      PROVE ContractStep
  <2>1. Contract!Cancel(g)
    BY <1>4, ResultOfSameVersions
       DEF CancelGeneration, chatVars, Open, Contract!Cancel, Contract!Become
  <2>2. QED
    BY <2>1 DEF ContractStep, Contract!Next
<1>5. ASSUME NEW g \in Generation, Same, NEW t, NEW r, AppendAttempt(g, t, r),
             status[g] \in {"running", "waiting", "failed", "cancelled"}
      PROVE ContractStep
  <2>1. Contract!Requeue(g)
    BY <1>5, StatusFunction, ResultOfSameVersions DEF Contract!Requeue
  <2>2. QED
    BY <2>1 DEF ContractStep, Contract!Next
<1>6. ASSUME NEW g \in Generation, Retry(g)
      PROVE ContractStep
  BY <1>5, <1>6 DEF Retry, chatVars
<1>7. ASSUME NEW g \in Generation, Resume(g)
      PROVE ContractStep
  <2>1. CASE status[g] = "queued"
    <3>1. status' = [status EXCEPT ![g] = "queued"] /\ Same
      BY <1>7 DEF Resume, AppendAttempt, chatVars
    <3>2. status' = status
      BY <2>1, <3>1 DEF TypeOK
    <3>3. QED
      BY <1>0, <3>1, <3>2 DEF ContractStep
  <2>2. CASE status[g] # "queued"
    BY <1>5, <1>7, <2>2 DEF Resume, chatVars
  <2>3. QED
    BY <2>1, <2>2
<1>8. ASSUME NEW g \in Generation, NEW n \in AttemptNumber, ResolveTask(g, n)
      PROVE ContractStep
  BY <1>5, <1>8 DEF ResolveTask, chatVars
<1>9. CASE DeleteChat \/ RestoreChat
  BY <1>0, <1>9 DEF ContractStep, DeleteChat, RestoreChat, genVars
<1>10. ASSUME NEW w \in Lane, NEW g \in Generation, Claim(w, g)
       PROVE ContractStep
  <2>1. CASE status[g] = "running"
    <3>1. status' = status /\ Same
      BY <1>10, <2>1 DEF TypeOK, Claim, chatVars
    <3>2. QED
      BY <1>0, <3>1 DEF ContractStep
  <2>2. CASE status[g] = "queued"
    <3>1. Contract!Start(g)
      BY <1>10, <2>2, ResultOfSameVersions
         DEF Claim, PredecessorReady, chatVars, Contract!Start, Contract!MayRun, Contract!Become
    <3>2. QED
      BY <3>1 DEF ContractStep, Contract!Next
  <2>3. QED
    BY <1>10, <2>1, <2>2 DEF Claim
<1>11. ASSUME NEW w \in Lane, CheckSteeringLease(w) \/ ApplySteering(w) \/ RestartForSteering(w)
       PROVE ContractStep
  BY <1>0, <1>11
     DEF ContractStep, CheckSteeringLease, ApplySteering, RestartForSteering, chatVars, genVars
<1>12. ASSUME NEW w \in Lane, Complete(w)
       PROVE ContractStep
  BY <1>12, CompleteFinishes
<1>13. ASSUME NEW w \in Lane, CompleteResponse(w)
       PROVE ContractStep
  <2>1. PICK g \in Generation : g = run[w].generation
    BY <1>13, HolderRuns DEF CompleteResponse, CanSettle
  <2>2. /\ status[g] = "running" /\ operation[g] = "inspect" /\ Same
        /\ Contract!Become(g, "succeeded")
    BY <1>13, <2>1, StatusFunction DEF CompleteResponse, CanSettle, HoldsLease, chatVars
  <2>3. Contract!MayRun(g) /\ Result[g] = 0 /\ Result' = Result
    BY <2>2, ResultOf, ResultOfSameVersions
       DEF ResultCommittedOnce, FollowUpsEditTheIntendedResult, Contract!MayRun
  <2>4. Contract!Finish(g)
    BY <2>2, <2>3 DEF Contract!Finish
  <2>5. QED
    BY <2>4 DEF ContractStep, Contract!Next
<1>14. ASSUME NEW w \in Lane, Pause(w) \/ Fail(w)
       PROVE ContractStep
  <2>1. PICK g \in Generation : g = run[w].generation
    BY <1>14, HolderRuns DEF Pause, Fail, CanSettle
  <2>2. /\ status[g] = "running" /\ Same
        /\ Contract!Become(g, "waiting") \/ Contract!Become(g, "failed")
    BY <1>14, <2>1, StatusFunction DEF Pause, Fail, CanSettle, HoldsLease, chatVars
  <2>3. Contract!Stop(g)
    BY <2>2, ResultOfSameVersions DEF Contract!Stop
  <2>4. QED
    BY <2>3 DEF ContractStep, Contract!Next
<1>15. ASSUME NEW w \in Lane, Repair(w)
       PROVE ContractStep
  <2>1. PICK g \in Generation : g = run[w].generation
    BY <1>15, HolderRuns DEF Repair
  <2>2. status[g] = "running" /\ Same /\ AppendAttempt(g, "failed", "retry")
    BY <1>15, <2>1 DEF Repair, HoldsLease, chatVars
  <2>3. QED
    BY <1>5, <2>2
<1>16. ASSUME NEW w \in Lane, Abandon(w) \/ Crash(w)
       PROVE ContractStep
  BY <1>0, <1>16 DEF ContractStep, Abandon, Crash, chatVars, genVars
<1>17. CASE Time
  BY <1>0, <1>17
     DEF ContractStep, Time, LeaseRunsOut, HeartbeatTooLate, ExpireLease, chatVars
<1>18. CASE UNCHANGED vars
  BY <1>0, <1>18 DEF ContractStep, vars, chatVars, genVars
<1>19. QED
  BY <1>1, <1>2, <1>3, <1>4, <1>6, <1>7, <1>8, <1>9, <1>10, <1>11, <1>12, <1>13, <1>14, <1>15,
     <1>16, <1>17, <1>18 DEF Next, HostStep, LaneStep, LaneSettles

\* A new chat has promised nothing yet.
LEMMA InitKeepsContract ==
    ASSUME Init
    PROVE  Contract!Init
<1>1. \A g \in Generation : VersionsOf(g) = {}
  <2>1. \A v \in 1..Len(versions) : versions[v].generation = NoGeneration
    BY DEF Init
  <2>2. QED
    BY <2>1, SentinelAssumption DEF VersionsOf
<1>2. Result = [g \in Generation |-> 0]
  BY <1>1 DEF Result
<1>3. QED
  BY <1>2 DEF Init, Contract!Init

\* Every behaviour of the store and its lanes is one the contract allows.
THEOREM ImplementsContract == Spec => KeepsContract
<1>1. TypeOK /\ ResultCommittedOnce /\ FollowUpsEditTheIntendedResult /\ [Next]_vars
        => [Contract!Next]_(Contract!vars)
  BY StepKeepsContract DEF ContractStep
<1>2. Init => Contract!Init
  BY InitKeepsContract
<1>3. QED
  BY <1>1, <1>2, TypeCorrect, CommittedOnce, FollowUpsOnResult, PTL
     DEF Spec, KeepsContract, Contract!Spec

=============================================================================
