------------------------- MODULE EmbeddedRunsProofs -------------------------
(***************************************************************************)
(* Embedded runs, for any processes, calls and bounds: whatever is running *)
(* or ready to run is in the hands of some process, unless it is one of    *)
(* the cases recorded in lost.                                             *)
(***************************************************************************)
EXTENDS EmbeddedRuns, TLAPS

LEMMA Bounds ==
    /\ MaxGenerations \in Nat \ {0} /\ MaxAttempts \in Nat \ {0}
    /\ RepairAttempts \in Nat /\ MaxEmbeddedFaults \in Nat
    /\ "none" \notin Process /\ "expired" \notin Process
BY BoundAssumption, ProcessAssumption DEF BoundAssumption, ProcessAssumption

(***************************************************************************)
(* Types                                                                   *)
(***************************************************************************)
Status == {"queued", "running", "absent", "succeeded", "failed", "cancelled"}

EntryRow == [pc: {"none", "claiming", "executing", "listing", "waking", "leaving"},
             attempt: 0..MaxAttempts, aborted: BOOLEAN, ready: SUBSET (ChatGeneration \X Attempt)]

CallRow == [pc: {"asked", "locked", "committed"}, kind: Kind, process: Process,
            generation: ChatGeneration, attempt: 0..MaxAttempts, row: 0..MaxGenerations]

\* A call that may hand work on has committed an attempt of a generation that exists.
CallsTyped ==
    /\ call \in [Call -> CallRow \cup {NoCall}]
    /\ \A c \in Call : call[c].pc = "committed" /\ call[c].kind # "cancel" => call[c].attempt # 0

RowsTyped ==
    /\ after \in [ChatGeneration -> 0..MaxGenerations]
    /\ status \in [ChatGeneration -> Status]
    /\ active \in [ChatGeneration -> 0..MaxAttempts]
    /\ lease \in [ChatGeneration -> Process \cup {"none", "expired"}]
    /\ \A g \in ChatGeneration : status[g] # "absent" => active[g] # 0

\* What a run names and what it lists, at the places where it may.
WellFormed(e) ==
    /\ e \in EntryRow
    /\ e.pc \in {"claiming", "executing"} <=> e.attempt # 0
    /\ e.pc # "waking" => e.ready = {}

EntriesTyped ==
    /\ entry \in [Process -> [ChatGeneration -> EntryRow]]
    /\ \A p \in Process, g \in ChatGeneration : WellFormed(entry[p][g])

MemoryTyped ==
    /\ EntriesTyped
    /\ timers \in [Process -> SUBSET (ChatGeneration \X Attempt)]

CountsTyped == lost \subseteq ChatGeneration /\ faults \in 0..MaxEmbeddedFaults

Types == RowsTyped /\ MemoryTyped /\ CallsTyped /\ CountsTyped

LEMMA TypesAreTypeOK == Types => EmbeddedTypeOK
<1> SUFFICES ASSUME Types PROVE EmbeddedTypeOK
  OBVIOUS
<1>1. \A c \in Call : call[c].pc \in {"idle", "asked", "locked", "committed"}
  BY DEF Types, CallsTyped, CallRow, NoCall
<1>2. Open \cup {"absent", "succeeded", "failed", "cancelled"} = Status
  BY DEF Open, Status
<1>3. QED
  BY <1>1, <1>2 DEF Types, RowsTyped, MemoryTyped, EntriesTyped, WellFormed, CountsTyped, EmbeddedTypeOK, EntryRow

LEMMA NewEntries ==
    /\ WellFormed(NoEntry) /\ WellFormed(Leaving)
    /\ WellFormed([NoEntry EXCEPT !.pc = "listing"])
    /\ \A n \in Attempt : WellFormed(Claiming(n)) /\ Claiming(n).pc = "claiming" /\ Claiming(n).attempt = n
                          /\ Claiming(n).ready = {}
    /\ NoEntry.pc = "none" /\ Leaving.pc = "leaving" /\ [NoEntry EXCEPT !.pc = "listing"].pc = "listing"
    /\ NoEntry.ready = {} /\ Leaving.ready = {} /\ [NoEntry EXCEPT !.pc = "listing"].ready = {}
<1>1. WellFormed(NoEntry)
  BY Bounds DEF WellFormed, NoEntry, EntryRow
<1>2. ASSUME NEW e \in EntryRow, NEW pc \in {"listing", "leaving", "claiming"}
      PROVE  /\ [e EXCEPT !.pc = pc] \in EntryRow /\ [e EXCEPT !.pc = pc].pc = pc
             /\ [e EXCEPT !.pc = pc].attempt = e.attempt /\ [e EXCEPT !.pc = pc].ready = e.ready
  BY DEF EntryRow
<1>3. NoEntry \in EntryRow /\ NoEntry.attempt = 0 /\ NoEntry.ready = {} /\ NoEntry.pc = "none"
  BY Bounds DEF NoEntry, EntryRow
<1>4. /\ WellFormed(Leaving) /\ WellFormed([NoEntry EXCEPT !.pc = "listing"])
      /\ Leaving.pc = "leaving" /\ [NoEntry EXCEPT !.pc = "listing"].pc = "listing"
      /\ Leaving.ready = {} /\ [NoEntry EXCEPT !.pc = "listing"].ready = {}
  BY <1>2, <1>3 DEF WellFormed, Leaving
<1>5. ASSUME NEW n \in Attempt
      PROVE  WellFormed(Claiming(n)) /\ Claiming(n).pc = "claiming" /\ Claiming(n).attempt = n
             /\ Claiming(n).ready = {}
  <2>1. \A e \in EntryRow : /\ [e EXCEPT !.attempt = n] \in EntryRow
                            /\ [e EXCEPT !.attempt = n].attempt = n
                            /\ [e EXCEPT !.attempt = n].ready = e.ready
    BY Bounds DEF EntryRow, Attempt
  <2>2. Claiming(n) = [[NoEntry EXCEPT !.pc = "claiming"] EXCEPT !.attempt = n]
    BY DEF Claiming
  <2>3. Claiming(n).pc = "claiming" /\ n # 0
    BY DEF Claiming, NoEntry, Attempt
  <2>4. [NoEntry EXCEPT !.pc = "claiming"] \in EntryRow
        /\ [NoEntry EXCEPT !.pc = "claiming"].ready = {}
    BY <1>2, <1>3
  <2>5. /\ Claiming(n) \in EntryRow /\ Claiming(n).attempt = n /\ Claiming(n).ready = {}
    BY <2>1, <2>2, <2>4
  <2>6. QED
    BY <2>3, <2>5 DEF WellFormed
<1>6. QED
  BY <1>1, <1>3, <1>4, <1>5

LEMMA EntryStep ==
    ASSUME EntriesTyped, NEW p \in Process, NEW g \in ChatGeneration, NEW e, WellFormed(e),
           SetEntry(p, g, e)
    PROVE  /\ EntriesTyped'
           /\ \A q \in Process, h \in ChatGeneration :
                entry'[q][h] = IF q = p /\ h = g THEN e ELSE entry[q][h]
<1>1. e \in EntryRow
  BY DEF WellFormed
<1>2. entry' \in [Process -> [ChatGeneration -> EntryRow]]
  BY <1>1 DEF EntriesTyped, SetEntry
<1>3. \A q \in Process, h \in ChatGeneration :
        entry'[q][h] = IF q = p /\ h = g THEN e ELSE entry[q][h]
  BY DEF EntriesTyped, SetEntry
<1>4. \A q \in Process, h \in ChatGeneration : WellFormed(entry'[q][h])
  BY <1>3 DEF EntriesTyped
<1>5. QED
  BY <1>2, <1>3, <1>4 DEF EntriesTyped, WellFormed

LEMMA CallStep ==
    ASSUME CallsTyped, NEW c \in Call, NEW r \in CallRow \cup {NoCall}, SetCall(c, r),
           r.pc = "committed" /\ r.kind # "cancel" => r.attempt # 0
    PROVE  CallsTyped' /\ \A d \in Call : call'[d] = IF d = c THEN r ELSE call[d]
BY DEF CallsTyped, SetCall

LEMMA InitTypes == EmbeddedInit => Types
<1> SUFFICES ASSUME EmbeddedInit PROVE Types
  OBVIOUS
<1>1. EntriesTyped
  BY NewEntries DEF EmbeddedInit, EntriesTyped, WellFormed
<1>2. QED
  BY <1>1, Bounds DEF EmbeddedInit, Types, RowsTyped, MemoryTyped, CallsTyped, CountsTyped, Status, NoCall

(* The host's calls *)

LEMMA AskTypes ==
    ASSUME Types, NEW c \in Call, NEW p \in Process, NEW kind \in Kind, NEW g \in ChatGeneration,
           NEW pred \in 0..MaxGenerations, Ask(c, p, kind, g, pred)
    PROVE  Types'
<1> DEFINE r == [pc |-> "asked", kind |-> kind, process |-> p, generation |-> g,
                 attempt |-> 0, row |-> IF kind = "enqueue" THEN pred
                                        ELSE IF kind = "start" THEN 0 ELSE g]
<1>1. r \in CallRow /\ r.pc = "asked"
  BY Bounds DEF CallRow, ChatGeneration
<1>2. SetCall(c, r) /\ UNCHANGED <<database, entry, timers, lost, faults>>
  BY DEF Ask
<1>3. CallsTyped'
  <2> HIDE DEF r
  <2>1. QED
    BY <1>1, <1>2, CallStep DEF Types
<1>4. QED
  BY <1>2, <1>3 DEF database, Types, RowsTyped, MemoryTyped, EntriesTyped, CountsTyped

LEMMA OtherTypes ==
    ASSUME Types, UNCHANGED <<database, entry, timers, lost, faults>>
    PROVE  RowsTyped' /\ MemoryTyped' /\ CountsTyped'
BY DEF database, Types, RowsTyped, MemoryTyped, EntriesTyped, CountsTyped

\* The record of a call that goes on.
LEMMA CallGoesOn ==
    ASSUME Types, NEW c \in Call, call[c].pc # "idle", NEW n \in 0..MaxAttempts
    PROVE  /\ call[c] \in CallRow
           /\ [call[c] EXCEPT !.pc = "locked"] \in CallRow
           /\ [call[c] EXCEPT !.pc = "committed", !.attempt = n] \in CallRow
           /\ [call[c] EXCEPT !.pc = "locked"].pc = "locked"
           /\ [call[c] EXCEPT !.pc = "committed", !.attempt = n].pc = "committed"
           /\ [call[c] EXCEPT !.pc = "committed", !.attempt = n].attempt = n
           /\ [call[c] EXCEPT !.pc = "committed", !.attempt = n].kind = call[c].kind
           /\ [call[c] EXCEPT !.pc = "committed", !.attempt = n].process = call[c].process
           /\ [call[c] EXCEPT !.pc = "committed", !.attempt = n].generation = call[c].generation
           /\ [call[c] EXCEPT !.pc = "locked"].kind = call[c].kind
           /\ [call[c] EXCEPT !.pc = "locked"].generation = call[c].generation
<1>1. call[c] \in CallRow
  BY DEF Types, CallsTyped, NoCall
<1>2. QED
  BY <1>1 DEF CallRow

LEMMA LockTypes ==
    ASSUME Types, NEW c \in Call, Lock(c)
    PROVE  Types'
<1>1. call[c].pc # "idle" /\ SetCall(c, [call[c] EXCEPT !.pc = "locked"])
      /\ UNCHANGED <<database, entry, timers, lost, faults>>
  BY DEF Lock
<1>2. 0 \in 0..MaxAttempts
  BY Bounds
<1>3. CallsTyped'
  BY <1>1, <1>2, CallGoesOn, CallStep DEF Types
<1>4. QED
  BY <1>1, <1>3, OtherTypes DEF Types

LEMMA CommittedTypes ==
    ASSUME Types, NEW c \in Call, call[c].pc # "idle", NEW n \in 0..MaxAttempts,
           call[c].kind = "cancel" \/ n # 0, Committed(c, n)
    PROVE  /\ CallsTyped'
           /\ \A d \in Call : d # c => call'[d] = call[d]
           /\ call'[c].pc = "committed" /\ call'[c].kind = call[c].kind
           /\ call'[c].process = call[c].process /\ call'[c].generation = call[c].generation
           /\ call'[c].attempt = n
<1> DEFINE r == [call[c] EXCEPT !.pc = "committed", !.attempt = n]
<1>1. /\ r \in CallRow /\ r.pc = "committed" /\ r.kind = call[c].kind /\ r.attempt = n
      /\ r.process = call[c].process /\ r.generation = call[c].generation
  BY CallGoesOn
<1>2. SetCall(c, r)
  BY DEF Committed
<1> HIDE DEF r
<1>3. CallsTyped' /\ \A d \in Call : call'[d] = IF d = c THEN r ELSE call[d]
  BY <1>1, <1>2, CallStep DEF Types
<1>4. QED
  BY <1>1, <1>3

LEMMA CreateStep ==
    ASSUME Types, NEW c \in Call, CommitCreate(c), NEW g, g = call[c].generation
    PROVE  /\ g \in ChatGeneration /\ RowsTyped' /\ CallsTyped'
           /\ status'[g] = "queued" /\ active'[g] = 1 /\ lease'[g] = lease[g]
           /\ \A h \in ChatGeneration \ {g} :
                /\ after'[h] = after[h] /\ status'[h] = status[h]
                /\ active'[h] = active[h] /\ lease'[h] = lease[h]
           /\ \A d \in Call : d # c => call'[d] = call[d]
           /\ call'[c].pc = "committed" /\ call'[c].kind = call[c].kind
           /\ call'[c].process = call[c].process /\ call'[c].generation = g
           /\ call'[c].attempt = 1 /\ call[c].process \in Process
<1>1. /\ call[c].pc = "locked" /\ call[c].kind \in {"start", "enqueue"} /\ Committed(c, 1)
      /\ after' = [after EXCEPT ![g] = call[c].row] /\ status' = [status EXCEPT ![g] = "queued"]
      /\ active' = [active EXCEPT ![g] = 1] /\ UNCHANGED lease
  BY DEF CommitCreate
<1>2. call[c] \in CallRow /\ 1 \in 0..MaxAttempts /\ "queued" \in Status
  <2>1. 1 \in 0..MaxAttempts /\ call[c].pc # "idle" /\ "queued" \in Status
    BY <1>1, Bounds DEF Status
  <2>2. QED
    BY <2>1, CallGoesOn
<1>3. g \in ChatGeneration /\ call[c].row \in 0..MaxGenerations /\ call[c].process \in Process
  BY <1>2 DEF CallRow
<1>4. lease[g] \in Process \cup {"none", "expired"} /\ lease' = [lease EXCEPT ![g] = lease[g]]
  BY <1>1, <1>3 DEF Types, RowsTyped
<1>5. /\ RowsTyped' /\ status'[g] = "queued" /\ active'[g] = 1 /\ lease'[g] = lease[g]
      /\ \A h \in ChatGeneration \ {g} :
            /\ after'[h] = after[h] /\ status'[h] = status[h]
            /\ active'[h] = active[h] /\ lease'[h] = lease[h]
  BY <1>1, <1>2, <1>3, <1>4 DEF Types, RowsTyped
<1>6. QED
  BY <1>1, <1>2, <1>3, <1>5, CommittedTypes

\* AppendRow and Settle, for whichever operation.
LEMMA AppendStep ==
    ASSUME RowsTyped, NEW g \in ChatGeneration, AppendRow(g)
    PROVE  /\ RowsTyped' /\ status'[g] = "queued" /\ active'[g] = active[g] + 1
           /\ lease'[g] = "none" /\ active[g] + 1 \in Attempt /\ active[g] + 1 \in 0..MaxAttempts
           /\ UNCHANGED after
           /\ \A h \in ChatGeneration \ {g} :
                /\ status'[h] = status[h] /\ active'[h] = active[h] /\ lease'[h] = lease[h]
<1>1. active[g] + 1 \in Attempt /\ active[g] + 1 \in 0..MaxAttempts /\ active[g] + 1 # 0
  BY Bounds DEF RowsTyped, AppendRow, Attempt
<1>2. after' = [after EXCEPT ![g] = after[g]] /\ after[g] \in 0..MaxGenerations
  BY DEF RowsTyped, AppendRow
<1>3. QED
  <2>1. /\ status' = [status EXCEPT ![g] = "queued"] /\ active' = [active EXCEPT ![g] = active[g] + 1]
        /\ lease' = [lease EXCEPT ![g] = "none"] /\ UNCHANGED after
        /\ "queued" \in Status
    BY DEF AppendRow, RowsTyped, Status
  <2>2. QED
    BY <1>1, <1>2, <2>1 DEF RowsTyped

LEMMA SettleStep ==
    ASSUME RowsTyped, NEW g \in ChatGeneration, NEW s \in {"succeeded", "failed", "cancelled"},
           Settle(g, s), status[g] # "absent"
    PROVE  /\ RowsTyped' /\ status'[g] = s /\ lease'[g] = "none" /\ UNCHANGED <<after, active>>
           /\ \A h \in ChatGeneration \ {g} : status'[h] = status[h] /\ lease'[h] = lease[h]
<1>1. /\ after' = [after EXCEPT ![g] = after[g]] /\ after[g] \in 0..MaxGenerations
      /\ active' = [active EXCEPT ![g] = active[g]] /\ active[g] \in 0..MaxAttempts
      /\ active[g] # 0
  BY DEF RowsTyped, Settle
<1>2. QED
  <2>1. status' = [status EXCEPT ![g] = s] /\ lease' = [lease EXCEPT ![g] = "none"] /\ s \in Status
        /\ UNCHANGED <<after, active>>
    BY DEF Settle, Status
  <2>2. QED
    BY <1>1, <2>1 DEF RowsTyped

(***************************************************************************)
(* The inductive invariant                                                 *)
(***************************************************************************)
Creating(c) == call[c].pc \in {"asked", "locked"} /\ call[c].kind \in {"start", "enqueue"}

\* Nobody else meets the row a call is about to insert.
FreshRows ==
    \A c \in Call : Creating(c) =>
        /\ status[call[c].generation] = "absent"
        /\ \A d \in Call \ {c} : call[d].pc # "idle" => call[d].generation # call[c].generation

LeasesRun == \A g \in ChatGeneration : status[g] # "running" => lease[g] \notin Process

\* A list of dependents names one attempt of each.
OneEach(ready) == \A d, e \in ready : d[1] = e[1] => d = e
OneAttemptEach == \A p \in Process, g \in ChatGeneration : OneEach(entry[p][g].ready)

\* InHand for work that is queued.
Handed(p, g) ==
    \/ entry[p][g].pc = "claiming" /\ entry[p][g].attempt = active[g]
    \/ <<g, active[g]>> \in timers[p]
    \/ \E c \in Call : /\ call[c].pc = "committed" /\ call[c].process = p
                       /\ call[c].kind \notin {"cancel", "steer"}
                       /\ call[c].generation = g /\ call[c].attempt = active[g]
    \/ /\ after[g] # 0
       /\ \/ entry[p][after[g]].pc = "listing"
          \/ <<g, active[g]>> \in entry[p][after[g]].ready

SomebodyHas(g) == \E p \in Process : Handed(p, g)

HandedOn ==
    \A g \in ChatGeneration : status[g] = "queued" /\ Ready(g) => SomebodyHas(g) \/ g \in lost

Inv == /\ Types /\ FreshRows /\ LeasesRun /\ OneAttemptEach
       /\ RunningIsOwned /\ HandedOn

LEMMA InvIsEnough == Inv => RunsAreInHand
BY DEF Inv, HandedOn, SomebodyHas, Handed, RunsAreInHand, ReadyWorkInHand, InHand

LEMMA InitInv == EmbeddedInit => Inv
<1> SUFFICES ASSUME EmbeddedInit PROVE Inv
  OBVIOUS
<1>1. Types
  BY InitTypes
<1>2. FreshRows /\ RunningIsOwned /\ HandedOn
  BY DEF EmbeddedInit, FreshRows, Creating, NoCall, RunningIsOwned, HandedOn
<1>3. LeasesRun /\ OneAttemptEach
  BY Bounds, NewEntries DEF EmbeddedInit, LeasesRun, OneAttemptEach, OneEach
<1>4. QED
  BY <1>1, <1>2, <1>3 DEF Inv

(* What a step keeps when it leaves the rows of the database alone *)

\* Calls that were under way stay on their generation, and none begins.
CallsGoOn ==
    \A c \in Call : call'[c].pc # "idle" =>
        /\ call[c].pc # "idle" /\ call'[c].generation = call[c].generation
        /\ Creating(c)' => Creating(c)

LEMMA FreshStays ==
    ASSUME Types, FreshRows, CallsGoOn,
           \A c \in Call : Creating(c)' /\ status[call[c].generation] = "absent" =>
             status'[call[c].generation] = "absent"
    PROVE  FreshRows'
<1> SUFFICES ASSUME NEW c \in Call, Creating(c)'
             PROVE  /\ status'[call'[c].generation] = "absent"
                    /\ \A d \in Call \ {c} :
                         call'[d].pc # "idle" => call'[d].generation # call'[c].generation
  BY DEF FreshRows
<1>1. call'[c].pc # "idle"
  BY DEF Creating
<1>2. Creating(c) /\ call'[c].generation = call[c].generation
  BY <1>1 DEF CallsGoOn
<1>3. QED
  BY <1>2 DEF FreshRows, CallsGoOn

HandedOver(g) == SomebodyHas(g)' \/ g \in lost'

LEMMA HandedStays ==
    ASSUME HandedOn, UNCHANGED database, lost \subseteq lost',
           \A g \in ChatGeneration, p \in Process :
             status[g] = "queued" /\ Ready(g) /\ Handed(p, g) => HandedOver(g)
    PROVE  HandedOn'
BY DEF HandedOn, SomebodyHas, HandedOver, Ready, database

LEMMA OwnedStays ==
    ASSUME RunningIsOwned, UNCHANGED database, lost \subseteq lost',
           \A g \in ChatGeneration, p \in Process : HoldsLease(p, g) => HoldsLease(p, g)' \/ g \in lost'
    PROVE  RunningIsOwned'
BY DEF RunningIsOwned, database

\* A step that replaces one entry of a registry.
LEMMA EntryInv ==
    ASSUME Inv, UNCHANGED database, NEW p \in Process, NEW g \in ChatGeneration, NEW e,
           WellFormed(e), OneEach(e.ready), SetEntry(p, g, e),
           timers' \in [Process -> SUBSET (ChatGeneration \X Attempt)],
           CallsTyped', CallsGoOn, CountsTyped', lost \subseteq lost',
           HoldsLease(p, g) => \/ e.pc = "executing" /\ e.attempt = entry[p][g].attempt
                               \/ g \in lost',
           \A h \in ChatGeneration, q \in Process :
             status[h] = "queued" /\ Ready(h) /\ Handed(q, h) => HandedOver(h)
    PROVE  Inv'
<1>1. /\ EntriesTyped'
      /\ \A q \in Process, h \in ChatGeneration :
           entry'[q][h] = IF q = p /\ h = g THEN e ELSE entry[q][h]
  BY EntryStep DEF Inv, Types, MemoryTyped
<1>2. Types'
  BY <1>1 DEF Inv, Types, RowsTyped, MemoryTyped, database
<1>3. FreshRows' /\ LeasesRun'
  BY FreshStays DEF Inv, LeasesRun, database
<1>4. OneAttemptEach'
  BY <1>1 DEF Inv, OneAttemptEach
<1>5. RunningIsOwned'
  <2>1. \A h \in ChatGeneration, q \in Process : HoldsLease(q, h) => HoldsLease(q, h)' \/ h \in lost'
    BY <1>1 DEF HoldsLease, Executing, database
  <2>2. QED
    BY <2>1, OwnedStays DEF Inv
<1>6. HandedOn'
  BY HandedStays DEF Inv
<1>7. QED
  BY <1>2, <1>3, <1>4, <1>5, <1>6 DEF Inv

\* An entry is replaced, and with it go at most one call and one timer.
LEMMA EntryHanded ==
    ASSUME Types, UNCHANGED database, NEW p \in Process, NEW g \in ChatGeneration,
           NEW e, WellFormed(e), SetEntry(p, g, e),
           \A d \in Call, h \in ChatGeneration :
             call[d].pc = "committed" /\ call[d].kind \notin {"cancel", "steer"}
             /\ call[d].generation = h /\ call[d].attempt = active[h] =>
               call'[d] = call[d] \/ HandedOver(h),
           \A q \in Process, h \in ChatGeneration :
             <<h, active[h]>> \in timers[q] => <<h, active[h]>> \in timers'[q] \/ HandedOver(h),
           status[g] = "queued" /\ Ready(g) /\ entry[p][g].pc = "claiming"
             /\ entry[p][g].attempt = active[g] =>
               (e.pc = "claiming" /\ e.attempt = active[g]) \/ g \in lost',
           \A h \in ChatGeneration :
             status[h] = "queued" /\ after[h] = g
             /\ (entry[p][g].pc = "listing" \/ <<h, active[h]>> \in entry[p][g].ready) =>
               e.pc = "listing" \/ <<h, active[h]>> \in e.ready \/ h \in lost'
    PROVE  \A h \in ChatGeneration, q \in Process :
             status[h] = "queued" /\ Ready(h) /\ Handed(q, h) => HandedOver(h)
<1> SUFFICES ASSUME NEW h \in ChatGeneration, NEW q \in Process, status[h] = "queued", Ready(h),
                    Handed(q, h)
             PROVE  HandedOver(h)
  OBVIOUS
<1>1. \A r \in Process, f \in ChatGeneration :
        entry'[r][f] = IF r = p /\ f = g THEN e ELSE entry[r][f]
  BY EntryStep DEF Types, MemoryTyped
<1>2. /\ active' = active /\ after' = after
      /\ after[h] # 0 => after[h] \in ChatGeneration
  BY Bounds DEF database, Types, RowsTyped, ChatGeneration
<1>3. Handed(q, h)' => HandedOver(h)
  BY DEF HandedOver, SomebodyHas
<1>4. CASE entry[q][h].pc = "claiming" /\ entry[q][h].attempt = active[h]
  <2>1. \/ h \in lost'
        \/ entry'[q][h].pc = "claiming" /\ entry'[q][h].attempt = active[h]
    BY <1>1, <1>4
  <2>2. QED
    BY <1>2, <1>3, <2>1 DEF Handed, HandedOver
<1>5. CASE <<h, active[h]>> \in timers[q]
  BY <1>2, <1>3, <1>5 DEF Handed
<1>6. CASE \E d \in Call : /\ call[d].pc = "committed" /\ call[d].process = q
                           /\ call[d].kind \notin {"cancel", "steer"}
                           /\ call[d].generation = h /\ call[d].attempt = active[h]
  <2>1. PICK d \in Call : /\ call[d].pc = "committed" /\ call[d].process = q
                          /\ call[d].kind \notin {"cancel", "steer"}
                          /\ call[d].generation = h /\ call[d].attempt = active[h]
    BY <1>6
  <2>2. call'[d] = call[d] \/ HandedOver(h)
    BY <2>1
  <2>3. call'[d] = call[d] => Handed(q, h)'
    BY <1>2, <2>1 DEF Handed
  <2>4. QED
    BY <1>3, <2>2, <2>3
<1>7. CASE /\ after[h] # 0
           /\ \/ entry[q][after[h]].pc = "listing"
              \/ <<h, active[h]>> \in entry[q][after[h]].ready
  <2>1. \/ h \in lost'
        \/ entry'[q][after[h]].pc = "listing"
        \/ <<h, active[h]>> \in entry'[q][after[h]].ready
    BY <1>1, <1>2, <1>7
  <2>2. QED
    BY <1>2, <1>3, <1>7, <2>1 DEF Handed, HandedOver
<1>8. QED
  BY <1>4, <1>5, <1>6, <1>7 DEF Handed

\* A run that goes on by itself.
LEMMA RunInv ==
    ASSUME Inv, UNCHANGED <<database, timers, call>>, NEW p \in Process, NEW g \in ChatGeneration,
           NEW e, WellFormed(e), OneEach(e.ready), SetEntry(p, g, e),
           faults' \in 0..MaxEmbeddedFaults, lost \subseteq lost', lost' \subseteq ChatGeneration,
           HoldsLease(p, g) => \/ e.pc = "executing" /\ e.attempt = entry[p][g].attempt
                               \/ g \in lost',
           status[g] = "queued" /\ Ready(g) /\ entry[p][g].pc = "claiming"
             /\ entry[p][g].attempt = active[g] =>
               (e.pc = "claiming" /\ e.attempt = active[g]) \/ g \in lost',
           \A h \in ChatGeneration :
             status[h] = "queued" /\ after[h] = g
             /\ (entry[p][g].pc = "listing" \/ <<h, active[h]>> \in entry[p][g].ready) =>
               e.pc = "listing" \/ <<h, active[h]>> \in e.ready \/ h \in lost'
    PROVE  Inv'
<1>1. \A h \in ChatGeneration, q \in Process :
        status[h] = "queued" /\ Ready(h) /\ Handed(q, h) => HandedOver(h)
  BY EntryHanded DEF Inv
<1>2. CallsTyped' /\ CallsGoOn /\ CountsTyped'
      /\ timers' \in [Process -> SUBSET (ChatGeneration \X Attempt)]
  BY DEF Inv, Types, CallsTyped, CallsGoOn, Creating, CountsTyped, MemoryTyped
<1>3. QED
  BY <1>1, <1>2, EntryInv

(***************************************************************************)
(* Calls before their commit                                               *)
(***************************************************************************)
\* A step that changes a call which has committed nothing.
LEMMA CallInv ==
    ASSUME Inv, CallsTyped', FreshRows', UNCHANGED <<database, entry, timers, lost, faults>>,
           \A c \in Call : call[c].pc = "committed" => call'[c] = call[c]
    PROVE  Inv'
<1>1. Types'
  BY OtherTypes DEF Inv, Types
<1>2. LeasesRun' /\ OneAttemptEach'
  BY DEF Inv, LeasesRun, OneAttemptEach, database
<1>3. RunningIsOwned'
  BY OwnedStays DEF Inv, HoldsLease, Executing, database
<1>4. \A g \in ChatGeneration, p \in Process : Handed(p, g) => Handed(p, g)'
  BY DEF Handed, database
<1>5. HandedOn'
  BY <1>4, HandedStays DEF Inv, HandedOver, SomebodyHas
<1>6. QED
  BY <1>1, <1>2, <1>3, <1>5 DEF Inv

LEMMA AskInv ==
    ASSUME Inv, NEW c \in Call, NEW p \in Process, NEW kind \in Kind, NEW g \in ChatGeneration,
           NEW pred \in 0..MaxGenerations, Ask(c, p, kind, g, pred)
    PROVE  Inv'
<1>1. CallsTyped'
  BY AskTypes DEF Inv, Types
<1>2. /\ call[c].pc = "idle" /\ call'[c].pc = "asked" /\ call'[c].kind = kind
      /\ call'[c].generation = g /\ \A d \in Call \ {c} : call'[d] = call[d]
      /\ UNCHANGED <<database, entry, timers, lost, faults>>
  BY DEF Ask, NoCall, SetCall, Inv, Types, CallsTyped
<1>3. \A d \in Call : Creating(d) => call[d].generation # g
  <2> SUFFICES ASSUME NEW d \in Call, Creating(d), call[d].generation = g PROVE FALSE
    OBVIOUS
  <2>1. status[g] = "absent" /\ call[d].pc # "idle"
    BY DEF Inv, FreshRows, Creating
  <2>2. NewGeneration(g)
    BY <2>1 DEF Ask, Open
  <2>3. QED
    BY <2>1, <2>2 DEF NewGeneration
<1>4. FreshRows'
  <2> SUFFICES ASSUME NEW b \in Call, Creating(b)'
               PROVE  /\ status'[call'[b].generation] = "absent"
                      /\ \A d \in Call \ {b} :
                           call'[d].pc # "idle" => call'[d].generation # call'[b].generation
    BY DEF FreshRows
  <2>1. CASE b # c
    <3>1. Creating(b) /\ call'[b] = call[b]
      BY <1>2, <2>1 DEF Creating
    <3>2. QED
      BY <1>2, <1>3, <3>1 DEF Inv, FreshRows, database
  <2>2. CASE b = c
    <3>1. NewGeneration(g)
      BY <1>2, <2>2 DEF Ask, Creating
    <3>2. QED
      BY <1>2, <2>2, <3>1 DEF NewGeneration, database
  <2>3. QED
    BY <2>1, <2>2
<1>5. QED
  BY <1>1, <1>2, <1>4, CallInv

LEMMA LockInv ==
    ASSUME Inv, NEW c \in Call, Lock(c) PROVE Inv'
<1>1. CallsTyped'
  BY LockTypes DEF Inv, Types
<1>2. /\ call[c].pc = "asked" /\ SetCall(c, [call[c] EXCEPT !.pc = "locked"])
      /\ UNCHANGED <<database, entry, timers, lost, faults>> /\ 0 \in 0..MaxAttempts
  BY Bounds DEF Lock
<1>3. /\ call'[c].pc = "locked" /\ call'[c].kind = call[c].kind
      /\ call'[c].generation = call[c].generation /\ \A d \in Call \ {c} : call'[d] = call[d]
  BY <1>2, CallGoesOn DEF SetCall, Inv, Types, CallsTyped
<1>4. CallsGoOn
  BY <1>2, <1>3 DEF CallsGoOn, Creating
<1>5. FreshRows'
  BY <1>2, <1>4, FreshStays DEF Inv, database
<1>6. QED
  BY <1>1, <1>2, <1>3, <1>5, CallInv

\* A call that is over.
LEMMA OverStep ==
    ASSUME Types, NEW c \in Call, SetCall(c, NoCall)
    PROVE  /\ CallsTyped' /\ CallsGoOn /\ call'[c].pc = "idle"
           /\ \A d \in Call \ {c} : call'[d] = call[d]
<1>1. NoCall.pc = "idle"
  BY DEF NoCall
<1>2. CallsTyped' /\ \A d \in Call : call'[d] = IF d = c THEN NoCall ELSE call[d]
  BY <1>1, CallStep DEF Types
<1>3. QED
  BY <1>1, <1>2 DEF CallsGoOn, Creating

LEMMA NothingInv ==
    ASSUME Inv, NEW c \in Call, CommitNothing(c) PROVE Inv'
<1>1. call[c].pc = "locked" /\ SetCall(c, NoCall) /\ UNCHANGED <<database, entry, timers, lost, faults>>
  BY DEF CommitNothing
<1>2. CallsTyped' /\ CallsGoOn /\ \A d \in Call \ {c} : call'[d] = call[d]
  BY <1>1, OverStep DEF Inv
<1>3. FreshRows'
  BY <1>1, <1>2, FreshStays DEF Inv, database
<1>4. QED
  BY <1>1, <1>2, <1>3, CallInv

(***************************************************************************)
(* Steps that leave the rows alone                                         *)
(***************************************************************************)
LEMMA ScheduleInv ==
    ASSUME Inv, NEW c \in Call, ScheduleCommitted(c) PROVE Inv'
<1>1. /\ call[c].pc = "committed" /\ call[c].kind # "cancel" /\ SetCall(c, NoCall)
      /\ UNCHANGED <<database, timers, faults>>
  BY DEF ScheduleCommitted
<1>2. PICK p \in Process, g \in ChatGeneration, n \in Attempt :
        p = call[c].process /\ g = call[c].generation /\ n = call[c].attempt
  <2>1. call[c] \in CallRow /\ call[c].attempt # 0
    BY <1>1 DEF Inv, Types, CallsTyped, NoCall
  <2>2. QED
    BY <2>1, Bounds DEF CallRow, Attempt
<1>3. CallsTyped' /\ CallsGoOn /\ \A d \in Call \ {c} : call'[d] = call[d]
  BY <1>1, OverStep DEF Inv
<1>4. CASE CanStart(p, g) /\ SetEntry(p, g, Claiming(n)) /\ UNCHANGED lost
  <2> DEFINE e == Claiming(n)
  <2>1. /\ WellFormed(e) /\ e.pc = "claiming" /\ e.attempt = n /\ OneEach(e.ready)
    BY <1>2, NewEntries DEF OneEach
  <2> HIDE DEF e
  <2>2. entry[p][g].pc = "none" /\ entry[p][g].ready = {}
    BY <1>2, <1>4 DEF CanStart, Has, Inv, Types, MemoryTyped, EntriesTyped, WellFormed
  <2>3. SetEntry(p, g, e) /\ UNCHANGED <<database, timers>>
    BY <1>1, <1>4 DEF e
  <2>4. \A h \in ChatGeneration, q \in Process :
          status[h] = "queued" /\ Ready(h) /\ Handed(q, h) => HandedOver(h)
    <3>1. entry'[p][g] = e /\ active' = active
      BY <1>2, <2>1, <2>3, EntryStep DEF Inv, Types, MemoryTyped, database
    <3>2. n = active[g] => HandedOver(g)
      BY <2>1, <3>1 DEF Handed, HandedOver, SomebodyHas
    <3>3. \A d \in Call, h \in ChatGeneration :
            call[d].generation = h /\ call[d].attempt = active[h] =>
              call'[d] = call[d] \/ HandedOver(h)
      BY <1>2, <1>3, <3>2
    <3>4. QED
      BY <1>2, <2>1, <2>2, <2>3, <3>3, EntryHanded DEF Inv
  <2>5. HoldsLease(p, g) => FALSE
    BY <2>2 DEF HoldsLease, Executing
  <2>6. CountsTyped' /\ timers' \in [Process -> SUBSET (ChatGeneration \X Attempt)]
    BY <1>1, <1>4 DEF Inv, Types, CountsTyped, MemoryTyped
  <2>7. QED
    BY <1>2, <1>3, <1>4, <2>1, <2>3, <2>4, <2>5, <2>6, EntryInv
<1>5. CASE lost' = lost \cup Astray({<<g, n>>}) /\ UNCHANGED entry
  <2>1. Types'
    <3>1. Astray({<<g, n>>}) \subseteq ChatGeneration
      BY DEF Astray
    <3>2. QED
      BY <1>1, <1>3, <1>5, <3>1
      DEF Inv, Types, RowsTyped, MemoryTyped, EntriesTyped, CountsTyped, database
  <2>2. FreshRows' /\ LeasesRun' /\ OneAttemptEach'
    BY <1>1, <1>3, <1>5, FreshStays DEF Inv, LeasesRun, OneAttemptEach, database
  <2>3. RunningIsOwned'
    BY <1>1, <1>5, OwnedStays DEF Inv, HoldsLease, Executing, database
  <2>4. ASSUME NEW h \in ChatGeneration, NEW q \in Process, Handed(q, h), h \notin lost'
        PROVE  Handed(q, h)'
    <3>1. ~(g = h /\ n = active[h])
      BY <1>5, <2>4 DEF Astray
    <3>2. \A d \in Call : call[d].generation = h /\ call[d].attempt = active[h] => d # c
      BY <1>2, <3>1
    <3>3. QED
      BY <1>1, <1>3, <1>5, <2>4, <3>2 DEF Handed, database
  <2>5. HandedOn'
    BY <1>1, <1>5, <2>4, HandedStays DEF Inv, HandedOver, SomebodyHas
  <2>6. QED
    BY <2>1, <2>2, <2>3, <2>5 DEF Inv
<1>6. QED
  BY <1>2, <1>4, <1>5 DEF ScheduleCommitted

\* What a call has committed and cannot hand on any more is lost.
LEMMA AnswerLostInv ==
    ASSUME Inv, NEW c \in Call, AnswerLost(c) PROVE Inv'
<1>1. /\ call[c].pc = "committed" /\ SetCall(c, NoCall)
      /\ UNCHANGED <<database, entry, timers>> /\ faults' \in 0..MaxEmbeddedFaults
      /\ lost' = lost \cup Astray({<<call[c].generation, call[c].attempt>>})
  BY Bounds DEF AnswerLost, EmbeddedFault, Inv, Types, CountsTyped
<1>2. CallsTyped' /\ CallsGoOn /\ \A d \in Call \ {c} : call'[d] = call[d]
  BY <1>1, OverStep DEF Inv
<1>3. Types'
  <2>1. Astray({<<call[c].generation, call[c].attempt>>}) \subseteq ChatGeneration
    BY DEF Astray
  <2>2. QED
    BY <1>1, <1>2, <2>1
    DEF Inv, Types, RowsTyped, MemoryTyped, EntriesTyped, CountsTyped, database
<1>4. FreshRows' /\ LeasesRun' /\ OneAttemptEach'
  BY <1>1, <1>2, FreshStays DEF Inv, LeasesRun, OneAttemptEach, database
<1>5. RunningIsOwned'
  BY <1>1, OwnedStays DEF Inv, HoldsLease, Executing, database
<1>6. ASSUME NEW h \in ChatGeneration, NEW q \in Process, Handed(q, h), h \notin lost'
      PROVE  Handed(q, h)'
  <2>1. ~(call[c].generation = h /\ call[c].attempt = active[h])
    BY <1>1, <1>6 DEF Astray
  <2>2. \A d \in Call : call[d].generation = h /\ call[d].attempt = active[h] => d # c
    BY <2>1
  <2>3. QED
    BY <1>1, <1>2, <1>6, <2>2 DEF Handed, database
<1>7. HandedOn'
  BY <1>1, <1>6, HandedStays DEF Inv, HandedOver, SomebodyHas
<1>8. QED
  BY <1>3, <1>4, <1>5, <1>7 DEF Inv

\* What the entry of a run is, where the row's own lease and attempt do not matter.
LEMMA EntryIs ==
    ASSUME Types, NEW p \in Process, NEW g \in ChatGeneration
    PROVE  /\ WellFormed(entry[p][g])
           /\ entry[p][g].pc \notin {"waking"} => entry[p][g].ready = {}
           /\ entry[p][g].pc # "executing" => ~HoldsLease(p, g)
           /\ OneEach({})
BY DEF Types, MemoryTyped, EntriesTyped, WellFormed, HoldsLease, Executing, OneEach

LEMMA ClaimFailsInv ==
    ASSUME Inv, NEW p \in Process, NEW g \in ChatGeneration, ClaimNothing(p, g) \/ ClaimLost(p, g)
    PROVE  Inv'
<1>1. /\ entry[p][g].pc = "claiming" /\ SetEntry(p, g, Leaving)
      /\ UNCHANGED <<database, timers, call>>
      /\ lost \subseteq lost' /\ lost' \subseteq ChatGeneration /\ faults' \in 0..MaxEmbeddedFaults
  BY Bounds DEF ClaimNothing, ClaimLost, EmbeddedFault, Inv, Types, CountsTyped
<1>2. status[g] = "queued" /\ Ready(g) /\ entry[p][g].attempt = active[g] => g \in lost'
  BY DEF ClaimNothing, ClaimLost, MayClaim, Inv, LeasesRun
<1>3. ~HoldsLease(p, g) /\ entry[p][g].ready = {} /\ OneEach({})
  BY <1>1, EntryIs DEF Inv
<1>4. WellFormed(Leaving) /\ Leaving.ready = {} /\ Leaving.pc = "leaving"
  BY NewEntries
<1>5. OneEach(Leaving.ready) /\ \A x : x \notin entry[p][g].ready
  BY <1>3, <1>4
<1>6. entry[p][g].pc # "listing"
  BY <1>1
<1>7. QED
  BY <1>1, <1>2, <1>3, <1>4, <1>5, <1>6, RunInv

LEMMA LeaveInv ==
    ASSUME Inv, NEW p \in Process, NEW g \in ChatGeneration, Leave(p, g) \/ LoseRun(p, g)
    PROVE  Inv'
<1>1. PICK e \in {NoEntry, Leaving} :
        /\ SetEntry(p, g, e) /\ UNCHANGED <<database, timers, call, lost, faults>>
  BY DEF Leave, LoseRun
<1>2. entry[p][g].pc \in {"leaving", "executing"} /\ ~HoldsLease(p, g)
  BY DEF Leave, LoseRun, HoldsLease, Executing
<1>3. entry[p][g].ready = {} /\ OneEach({})
  BY <1>2, EntryIs DEF Inv
<1>4. WellFormed(e) /\ OneEach(e.ready) /\ \A x : x \notin entry[p][g].ready
  BY <1>3, NewEntries
<1>5. lost' \subseteq ChatGeneration /\ faults' \in 0..MaxEmbeddedFaults
  BY <1>1 DEF Inv, Types, CountsTyped
<1>6. QED
  BY <1>1, <1>2, <1>3, <1>4, <1>5, RunInv

\* A run may go although its lease is good.
LEMMA AbandonInv ==
    ASSUME Inv, NEW p \in Process, NEW g \in ChatGeneration, AbandonRun(p, g)
    PROVE  Inv'
<1>1. /\ HoldsLease(p, g) /\ SetEntry(p, g, Leaving) /\ UNCHANGED <<database, timers, call>>
      /\ lost' = lost \cup {g} /\ faults' \in 0..MaxEmbeddedFaults
  BY Bounds DEF AbandonRun, EmbeddedFault, Inv, Types, CountsTyped
<1>2. entry[p][g].pc = "executing"
  BY <1>1 DEF HoldsLease, Executing
<1>3. entry[p][g].ready = {} /\ OneEach({})
  BY <1>2, EntryIs DEF Inv
<1>4. WellFormed(Leaving) /\ OneEach(Leaving.ready) /\ \A x : x \notin entry[p][g].ready
  BY <1>3, NewEntries
<1>5. lost \subseteq lost' /\ lost' \subseteq ChatGeneration /\ g \in lost'
  BY <1>1 DEF Inv, Types, CountsTyped
<1>6. QED
  BY <1>1, <1>2, <1>4, <1>5, RunInv

LEMMA ReadyAreDependents ==
    ASSUME Types, NEW g \in ChatGeneration
    PROVE  /\ ReadyDependents(g) \in SUBSET (ChatGeneration \X Attempt)
           /\ OneEach(ReadyDependents(g))
           /\ \A h \in ChatGeneration :
                status[h] = "queued" /\ after[h] = g => <<h, active[h]>> \in ReadyDependents(g)
<1>1. \A h \in ChatGeneration : status[h] = "queued" => active[h] \in Attempt
  BY Bounds DEF Types, RowsTyped, Attempt
<1>2. QED
  BY <1>1 DEF ReadyDependents, OneEach

LEMMA ListInv ==
    ASSUME Inv, NEW p \in Process, NEW g \in ChatGeneration, List(p, g)
    PROVE  Inv'
<1> DEFINE e == [NoEntry EXCEPT !.pc = "waking", !.ready = ReadyDependents(g)]
<1>1. /\ entry[p][g].pc = "listing" /\ SetEntry(p, g, e)
      /\ UNCHANGED <<database, timers, call, lost, faults>>
  BY DEF List
<1>2. e.pc = "waking" /\ e.ready = ReadyDependents(g) /\ e.attempt = 0 /\ WellFormed(e)
  <2>1. ReadyDependents(g) \in SUBSET (ChatGeneration \X Attempt)
    BY ReadyAreDependents DEF Inv
  <2>2. NoEntry \in EntryRow /\ NoEntry.attempt = 0
    BY NewEntries DEF WellFormed, NoEntry
  <2>3. e \in EntryRow /\ e.pc = "waking" /\ e.ready = ReadyDependents(g) /\ e.attempt = 0
    BY <2>1, <2>2 DEF EntryRow
  <2>4. QED
    BY <2>3 DEF WellFormed
<1>3. entry[p][g].ready = {} /\ ~HoldsLease(p, g)
  BY <1>1, EntryIs DEF Inv
<1>4. lost' \subseteq ChatGeneration /\ faults' \in 0..MaxEmbeddedFaults
  BY <1>1 DEF Inv, Types, CountsTyped
<1> HIDE DEF e
<1>5. QED
  BY <1>1, <1>2, <1>3, <1>4, ReadyAreDependents, RunInv DEF Inv

\* Whose attempt is on the list is recorded as lost.
LEMMA AstrayAre ==
    ASSUME NEW ready, NEW h \in ChatGeneration, <<h, active[h]>> \in ready
    PROVE  h \in Astray(ready)
BY DEF Astray

LEMMA ListFailsInv ==
    ASSUME Inv, NEW p \in Process, NEW g \in ChatGeneration, ListFails(p, g)
    PROVE  Inv'
<1>1. /\ entry[p][g].pc = "listing" /\ SetEntry(p, g, Leaving)
      /\ UNCHANGED <<database, timers, call>> /\ lost' = lost \cup Astray(ReadyDependents(g))
      /\ faults < MaxEmbeddedFaults /\ faults' = faults + 1
  BY DEF ListFails, EmbeddedFault
<1>2. /\ lost \subseteq lost' /\ lost' \subseteq ChatGeneration /\ faults' \in 0..MaxEmbeddedFaults
  BY <1>1, Bounds DEF Astray, Inv, Types, CountsTyped
<1>3. \A h \in ChatGeneration : status[h] = "queued" /\ after[h] = g => h \in lost'
  BY <1>1, ReadyAreDependents, AstrayAre DEF Inv
<1>4. entry[p][g].ready = {} /\ ~HoldsLease(p, g) /\ OneEach({})
  BY <1>1, EntryIs DEF Inv
<1>5. WellFormed(Leaving) /\ OneEach(Leaving.ready) /\ \A x : x \notin entry[p][g].ready
  BY <1>4, NewEntries
<1>6. QED
  BY <1>1, <1>2, <1>3, <1>4, <1>5, RunInv

LEMMA AbortInv ==
    ASSUME Inv, NEW c \in Call, AbortCommitted(c) PROVE Inv'
<1>1. /\ call[c].pc = "committed" /\ call[c].kind = "cancel" /\ SetCall(c, NoCall)
      /\ UNCHANGED <<database, timers, lost, faults>>
  BY DEF AbortCommitted
<1>2. PICK p \in Process, g \in ChatGeneration : p = call[c].process /\ g = call[c].generation
  BY <1>1 DEF Inv, Types, CallsTyped, NoCall, CallRow
<1>3. CallsTyped' /\ CallsGoOn /\ \A d \in Call \ {c} : call'[d] = call[d]
  BY <1>1, OverStep DEF Inv
<1>4. \E e : /\ WellFormed(e) /\ SetEntry(p, g, e) /\ e.pc = entry[p][g].pc
             /\ e.attempt = entry[p][g].attempt /\ e.ready = entry[p][g].ready
  <2>1. WellFormed(entry[p][g])
    BY <1>2, EntryIs DEF Inv
  <2>2. CASE UNCHANGED entry
    <3>1. SetEntry(p, g, entry[p][g])
      BY <2>2, <1>2 DEF SetEntry, Inv, Types, MemoryTyped, EntriesTyped
    <3>2. QED
      BY <2>1, <3>1
  <2>3. CASE SetEntry(p, g, [entry[p][g] EXCEPT !.aborted = TRUE])
    <3>1. \A e \in EntryRow : /\ [e EXCEPT !.aborted = TRUE] \in EntryRow
                              /\ [e EXCEPT !.aborted = TRUE].pc = e.pc
                              /\ [e EXCEPT !.aborted = TRUE].attempt = e.attempt
                              /\ [e EXCEPT !.aborted = TRUE].ready = e.ready
      BY DEF EntryRow
    <3>2. WellFormed([entry[p][g] EXCEPT !.aborted = TRUE])
      BY <2>1, <3>1 DEF WellFormed
    <3>3. QED
      BY <2>1, <2>3, <3>1, <3>2 DEF WellFormed
  <2>4. QED
    BY <1>2, <2>2, <2>3 DEF AbortCommitted
<1>5. PICK e : /\ WellFormed(e) /\ SetEntry(p, g, e) /\ e.pc = entry[p][g].pc
               /\ e.attempt = entry[p][g].attempt /\ e.ready = entry[p][g].ready
  BY <1>4
<1>6. \A d \in Call : call[d].kind \notin {"cancel", "steer"} => call'[d] = call[d]
  BY <1>1, <1>3
<1>7. \A h \in ChatGeneration, q \in Process :
        status[h] = "queued" /\ Ready(h) /\ Handed(q, h) => HandedOver(h)
  BY <1>1, <1>2, <1>5, <1>6, EntryHanded DEF Inv
<1>8. HoldsLease(p, g) => e.pc = "executing"
  BY <1>5 DEF HoldsLease, Executing
<1>9. OneEach(e.ready) /\ CountsTyped' /\ timers' \in [Process -> SUBSET (ChatGeneration \X Attempt)]
  BY <1>1, <1>2, <1>5 DEF Inv, OneAttemptEach, Types, CountsTyped, MemoryTyped
<1>10. QED
  BY <1>1, <1>2, <1>3, <1>5, <1>7, <1>8, <1>9, EntryInv

\* What Wake makes of the registry: dependents that can start claim the attempt listed.
WokenBy(p, g) == {d \in entry[p][g].ready :
                    \A e \in entry[p][g].ready : e[1] <= d[1] => CanStart(p, e[1])}

LEMMA WakeEntries ==
    ASSUME Inv, NEW p \in Process, NEW g \in ChatGeneration, Wake(p, g)
    PROVE  /\ entry' \in [Process -> [ChatGeneration -> EntryRow]]
           /\ entry'[p][g] = Leaving
           /\ \A q \in Process \ {p} : entry'[q] = entry[q]
           /\ \A h \in ChatGeneration \ {g} :
                \/ /\ entry'[p][h] = entry[p][h]
                   /\ \A n \in Attempt : <<h, n>> \notin WokenBy(p, g)
                \/ /\ entry[p][h].pc = "none"
                   /\ \E n \in Attempt : <<h, n>> \in WokenBy(p, g) /\ entry'[p][h] = Claiming(n)
<1> DEFINE woken == WokenBy(p, g)
           first(h) == CHOOSE d \in woken : d[1] = h
           row == [h \in ChatGeneration |->
                     IF h = g THEN Leaving
                     ELSE IF \E d \in woken : d[1] = h THEN Claiming(first(h)[2])
                     ELSE entry[p][h]]
<1>1. woken \subseteq ChatGeneration \X Attempt
  BY DEF Inv, Types, MemoryTyped, EntriesTyped, EntryRow, WokenBy
<1>2. \A d \in ChatGeneration \X Attempt : d = <<d[1], d[2]>> /\ d[1] \in ChatGeneration /\ d[2] \in Attempt
  OBVIOUS
<1>3. \A d \in woken : CanStart(p, d[1])
  <2> SUFFICES ASSUME NEW d \in woken PROVE CanStart(p, d[1])
    OBVIOUS
  <2>1. d[1] \in ChatGeneration
    BY <1>1, <1>2
  <2>2. d[1] <= d[1]
    BY <2>1, Bounds DEF ChatGeneration
  <2>3. QED
    BY <2>2 DEF WokenBy
<1>4. entry' = [entry EXCEPT ![p] = row]
  BY DEF Wake, WokenBy
<1>5. entry'[p] = row /\ \A q \in Process \ {p} : entry'[q] = entry[q]
  <2> HIDE DEF row
  <2>1. QED
    BY <1>4 DEF Inv, Types, MemoryTyped, EntriesTyped
<1>6. entry'[p][g] = Leaving
  BY <1>5
<1>7. ASSUME NEW h \in ChatGeneration \ {g}
      PROVE  \/ /\ entry'[p][h] = entry[p][h] /\ \A n \in Attempt : <<h, n>> \notin woken
             \/ /\ entry[p][h].pc = "none"
                /\ \E n \in Attempt : <<h, n>> \in woken /\ entry'[p][h] = Claiming(n)
  <2>1. CASE \E d \in woken : d[1] = h
    <3>1. first(h) \in woken /\ first(h)[1] = h
      BY <2>1
    <3>2. entry'[p][h] = Claiming(first(h)[2])
      BY <1>5, <2>1
    <3> HIDE DEF first, woken
    <3>3. first(h) = <<h, first(h)[2]>> /\ first(h)[2] \in Attempt /\ CanStart(p, h)
      BY <1>1, <1>2, <1>3, <3>1
    <3>4. entry[p][h].pc = "none"
      BY <3>3 DEF CanStart, Has
    <3>5. QED
      BY <3>1, <3>2, <3>3, <3>4
  <2>2. CASE ~ \E d \in woken : d[1] = h
    <3>1. entry'[p][h] = entry[p][h]
      BY <1>5, <2>2
    <3> HIDE DEF woken
    <3>2. \A n \in Attempt : <<h, n>>[1] = h
      OBVIOUS
    <3>3. QED
      BY <2>2, <3>1, <3>2
  <2>3. QED
    BY <2>1, <2>2
<1>8. \A h \in ChatGeneration : row[h] \in EntryRow
  <2>1. (\A n \in Attempt : Claiming(n) \in EntryRow) /\ Leaving \in EntryRow
    BY NewEntries DEF WellFormed
  <2>2. \A h \in ChatGeneration : entry[p][h] \in EntryRow
    BY DEF Inv, Types, MemoryTyped, EntriesTyped
  <2> HIDE DEF row
  <2>3. QED
    BY <1>5, <1>6, <1>7, <2>1, <2>2
<1>9. entry' \in [Process -> [ChatGeneration -> EntryRow]]
  <2>1. row \in [ChatGeneration -> EntryRow]
    BY <1>8
  <2> HIDE DEF row
  <2>2. QED
    BY <1>4, <2>1 DEF Inv, Types, MemoryTyped, EntriesTyped
<1>10. QED
  BY <1>5, <1>6, <1>7, <1>9

LEMMA WakeInv ==
    ASSUME Inv, NEW p \in Process, NEW g \in ChatGeneration, Wake(p, g)
    PROVE  Inv'
<1> DEFINE ready == entry[p][g].ready
           woken == WokenBy(p, g)
<1>1. /\ entry[p][g].pc = "waking" /\ lost' = lost \cup Astray(ready \ woken)
      /\ UNCHANGED <<database, timers, call, faults>>
  BY DEF Wake, WokenBy
<1>2. /\ entry' \in [Process -> [ChatGeneration -> EntryRow]]
      /\ entry'[p][g] = Leaving
      /\ \A q \in Process \ {p} : entry'[q] = entry[q]
      /\ \A h \in ChatGeneration \ {g} :
           \/ /\ entry'[p][h] = entry[p][h] /\ \A n \in Attempt : <<h, n>> \notin woken
           \/ /\ entry[p][h].pc = "none"
              /\ \E n \in Attempt : <<h, n>> \in woken /\ entry'[p][h] = Claiming(n)
  BY WakeEntries
<1>3. woken \subseteq ready /\ ready \in SUBSET (ChatGeneration \X Attempt) /\ OneEach(ready)
  BY DEF WokenBy, Inv, Types, MemoryTyped, EntriesTyped, EntryRow, OneAttemptEach
<1>4. \A q \in Process, h \in ChatGeneration : WellFormed(entry'[q][h]) /\ OneEach(entry'[q][h].ready)
  <2> SUFFICES ASSUME NEW q \in Process, NEW h \in ChatGeneration
               PROVE  WellFormed(entry'[q][h]) /\ OneEach(entry'[q][h].ready)
    OBVIOUS
  <2>1. WellFormed(entry[q][h]) /\ OneEach(entry[q][h].ready) /\ OneEach({})
    BY DEF Inv, Types, MemoryTyped, EntriesTyped, OneAttemptEach, OneEach
  <2>2. \/ entry'[q][h] = entry[q][h] \/ entry'[q][h] = Leaving
        \/ \E n \in Attempt : entry'[q][h] = Claiming(n)
    BY <1>2
  <2>3. QED
    BY <2>1, <2>2, NewEntries
<1> HIDE DEF ready, woken
<1>5. Types' /\ OneAttemptEach'
  <2>1. Astray(ready \ woken) \subseteq ChatGeneration
    BY DEF Astray
  <2>2. EntriesTyped'
    BY <1>2, <1>4 DEF EntriesTyped, WellFormed
  <2>3. OneAttemptEach'
    BY <1>4 DEF OneAttemptEach, OneEach
  <2>4. QED
    BY <1>1, <2>1, <2>2, <2>3
    DEF Inv, Types, RowsTyped, MemoryTyped, CallsTyped, CountsTyped, database
<1>6. FreshRows' /\ LeasesRun'
  BY <1>1 DEF Inv, FreshRows, Creating, LeasesRun, database
<1>7. \A h \in ChatGeneration, q \in Process :
        entry[q][h].pc \notin {"none", "waking"} => entry'[q][h] = entry[q][h]
  BY <1>1, <1>2
<1>8. RunningIsOwned'
  <2>1. \A h \in ChatGeneration, q \in Process : HoldsLease(q, h) => HoldsLease(q, h)'
    BY <1>1, <1>7 DEF HoldsLease, Executing, database
  <2>2. QED
    BY <1>1, <2>1, OwnedStays DEF Inv
<1>9. HandedOn'
  <2>1. ASSUME NEW h \in ChatGeneration, NEW q \in Process, Handed(q, h), h \notin lost'
        PROVE  SomebodyHas(h)'
    <3>1. /\ UNCHANGED <<after, active, timers, call>>
          /\ after[h] # 0 => after[h] \in ChatGeneration
      BY <1>1, Bounds DEF database, Inv, Types, RowsTyped, ChatGeneration
    <3>2. Handed(q, h)' => SomebodyHas(h)'
      BY DEF SomebodyHas
    <3>3. CASE entry[q][h].pc = "claiming" /\ entry[q][h].attempt = active[h]
      <4>1. entry'[q][h] = entry[q][h]
        BY <1>7, <3>3
      <4>2. QED
        BY <3>1, <3>2, <3>3, <4>1 DEF Handed
    <3>4. CASE \/ <<h, active[h]>> \in timers[q]
               \/ \E c \in Call : /\ call[c].pc = "committed" /\ call[c].process = q
                                  /\ call[c].kind \notin {"cancel", "steer"}
                                  /\ call[c].generation = h /\ call[c].attempt = active[h]
      BY <3>1, <3>2, <3>4 DEF Handed
    <3>5. CASE /\ after[h] # 0 /\ (q # p \/ after[h] # g)
               /\ \/ entry[q][after[h]].pc = "listing"
                  \/ <<h, active[h]>> \in entry[q][after[h]].ready
      <4>1. entry[q][after[h]].pc \in {"listing", "waking"}
        BY <3>1, <3>5 DEF Inv, Types, MemoryTyped, EntriesTyped, WellFormed
      <4>2. entry'[q][after[h]] = entry[q][after[h]]
        BY <1>2, <3>1, <3>5, <4>1
      <4>3. QED
        BY <3>1, <3>2, <3>5, <4>2 DEF Handed
    <3>6. CASE q = p /\ after[h] = g /\ <<h, active[h]>> \in ready
      <4>1. <<h, active[h]>> \in woken
        BY <1>1, <2>1, <3>6, AstrayAre
      <4>2. active[h] \in Attempt
        <5>1. <<h, active[h]>> \in ChatGeneration \X Attempt
          BY <1>3, <3>6
        <5>2. QED
          BY <5>1
      <4>3. h # g
        <5>1. entry[p][g].pc # "none"
          BY <1>1
        <5>2. h <= h
          BY Bounds DEF ChatGeneration
        <5>3. CanStart(p, h)
          BY <4>1, <5>2 DEF woken, WokenBy
        <5>4. QED
          BY <5>1, <5>3 DEF CanStart, Has
      <4>4. PICK n \in Attempt : <<h, n>> \in woken /\ entry'[p][h] = Claiming(n)
        BY <1>2, <4>1, <4>2, <4>3
      <4>5. <<h, n>> \in ready /\ <<h, n>>[1] = <<h, active[h]>>[1]
        BY <1>3, <4>4
      <4>6. <<h, n>> = <<h, active[h]>>
        BY <1>3, <3>6, <4>5 DEF OneEach
      <4>7. n = active[h]
        BY <4>6
      <4>8. entry'[p][h].pc = "claiming" /\ entry'[p][h].attempt = active'[h]
        BY <3>1, <4>4, <4>7, NewEntries
      <4>9. QED
        BY <3>2, <3>6, <4>8 DEF Handed
    <3>7. CASE q = p /\ after[h] = g /\ entry[p][g].pc = "listing"
      BY <1>1, <3>7
    <3>8. QED
      BY <2>1, <3>3, <3>4, <3>5, <3>6, <3>7 DEF Handed, ready
  <2>2. QED
    BY <1>1, <2>1, HandedStays DEF Inv, HandedOver
<1>10. QED
  BY <1>5, <1>6, <1>8, <1>9 DEF Inv

(* Processes come and go *)

LEMMA ForgetInv ==
    ASSUME Inv, NEW p \in Process, Forget(p), faults' \in 0..MaxEmbeddedFaults PROVE Inv'
<1>1. /\ UNCHANGED database /\ lost' = lost \cup {g \in ChatGeneration : InHand(p, g)}
      /\ \A g \in ChatGeneration : entry'[p][g] = NoEntry
      /\ \A q \in Process \ {p} : entry'[q] = entry[q] /\ timers'[q] = timers[q]
      /\ timers' \in [Process -> SUBSET (ChatGeneration \X Attempt)]
  BY DEF Forget, Inv, Types, MemoryTyped, EntriesTyped
<1>2. entry' \in [Process -> [ChatGeneration -> EntryRow]]
  <2>1. NoEntry \in EntryRow
    BY NewEntries DEF WellFormed
  <2>2. [g \in ChatGeneration |-> NoEntry] \in [ChatGeneration -> EntryRow]
    BY <2>1
  <2>3. QED
    BY <2>2 DEF Forget, Inv, Types, MemoryTyped, EntriesTyped
<1>3. \A d \in Call : call'[d] = call[d] \/ call'[d] = NoCall
  BY DEF Forget
<1>4. \A d \in Call : call[d].pc # "idle" /\ call[d].process # p => call'[d] = call[d]
  BY DEF Forget
<1>5. CallsTyped'
  <2>1. call' \in [Call -> CallRow \cup {NoCall}]
    <3>1. \A d \in Call : call'[d] \in CallRow \cup {NoCall}
      BY <1>3 DEF Inv, Types, CallsTyped
    <3>2. QED
      BY <3>1 DEF Forget
  <2>2. NoCall.pc = "idle"
    BY DEF NoCall
  <2>3. QED
    BY <1>3, <2>1, <2>2 DEF Inv, Types, CallsTyped
<1>6. \A q \in Process, h \in ChatGeneration : WellFormed(entry'[q][h]) /\ OneEach(entry'[q][h].ready)
  <2>1. \A q \in Process, h \in ChatGeneration : WellFormed(entry[q][h]) /\ OneEach(entry[q][h].ready)
    BY DEF Inv, Types, MemoryTyped, EntriesTyped, OneAttemptEach
  <2>2. WellFormed(NoEntry) /\ OneEach(NoEntry.ready)
    BY NewEntries DEF OneEach
  <2>3. QED
    BY <1>1, <2>1, <2>2
<1>7. Types' /\ OneAttemptEach'
  <2>1. EntriesTyped'
    BY <1>2, <1>6 DEF EntriesTyped, WellFormed
  <2>2. OneAttemptEach'
    BY <1>6 DEF OneAttemptEach, OneEach
  <2>3. QED
    BY <1>1, <1>5, <2>1, <2>2 DEF Inv, Types, RowsTyped, MemoryTyped, CountsTyped, database
<1>8. FreshRows' /\ LeasesRun'
  <2>1. CallsGoOn
    BY <1>3 DEF CallsGoOn, Creating, NoCall
  <2>2. QED
    BY <1>1, <2>1, FreshStays DEF Inv, LeasesRun, database
<1>9. RunningIsOwned'
  <2>1. \A h \in ChatGeneration, q \in Process : HoldsLease(q, h) => HoldsLease(q, h)' \/ h \in lost'
    <3>1. \A h \in ChatGeneration : HoldsLease(p, h) => h \in lost'
      BY <1>1 DEF InHand
    <3>2. QED
      BY <1>1, <3>1 DEF HoldsLease, Executing, database
  <2>2. QED
    BY <1>1, <2>1, OwnedStays DEF Inv
<1>10. HandedOn'
  <2>1. ASSUME NEW h \in ChatGeneration, NEW q \in Process, Handed(q, h)
        PROVE  SomebodyHas(h)' \/ h \in lost'
    <3>1. CASE q = p
      BY <1>1, <2>1, <3>1 DEF Handed, InHand
    <3>2. CASE q # p
      <4>1. \A d \in Call : call[d].pc = "committed" /\ call[d].process = q => call'[d] = call[d]
        BY <1>4, <3>2
      <4>2. Handed(q, h)'
        BY <1>1, <2>1, <3>2, <4>1 DEF Handed, database
      <4>3. QED
        BY <4>2 DEF SomebodyHas
    <3>3. QED
      BY <3>1, <3>2
  <2>2. QED
    BY <1>1, <2>1, HandedStays DEF Inv, HandedOver
<1>11. QED
  BY <1>7, <1>8, <1>9, <1>10 DEF Inv

LEMMA TimerInv ==
    ASSUME Inv, NEW p \in Process, NEW t \in timers[p], FireTimer(p, t) PROVE Inv'
<1>1. PICK g \in ChatGeneration, n \in Attempt : t = <<g, n>>
  BY DEF Inv, Types, MemoryTyped
<1>2. CASE /\ CanStart(p, g) /\ SetEntry(p, g, Claiming(n))
           /\ timers' = [timers EXCEPT ![p] = @ \ {t}]
           /\ UNCHANGED <<database, call, lost, faults>>
  <2> DEFINE e == Claiming(n)
  <2>1. /\ WellFormed(e) /\ e.pc = "claiming" /\ e.attempt = n /\ OneEach(e.ready)
    BY NewEntries DEF OneEach
  <2> HIDE DEF e
  <2>2. entry[p][g].pc = "none" /\ entry[p][g].ready = {}
    BY <1>2 DEF CanStart, Has, Inv, Types, MemoryTyped, EntriesTyped, WellFormed
  <2>3. SetEntry(p, g, e)
    BY <1>2 DEF e
  <2>4. \A h \in ChatGeneration, q \in Process :
          status[h] = "queued" /\ Ready(h) /\ Handed(q, h) => HandedOver(h)
    <3>1. entry'[p][g] = e /\ active' = active
      BY <1>2, <2>1, <2>3, EntryStep DEF Inv, Types, MemoryTyped, database
    <3>2. n = active[g] => HandedOver(g)
      BY <2>1, <3>1 DEF Handed, HandedOver, SomebodyHas
    <3>3. \A q \in Process, h \in ChatGeneration :
            <<h, active[h]>> \in timers[q] => <<h, active[h]>> \in timers'[q] \/ HandedOver(h)
      <4> SUFFICES ASSUME NEW q \in Process, NEW h \in ChatGeneration, <<h, active[h]>> \in timers[q],
                          <<h, active[h]>> \notin timers'[q]
                   PROVE  HandedOver(h)
        OBVIOUS
      <4>1. <<h, active[h]>> = <<g, n>>
        BY <1>1, <1>2 DEF Inv, Types, MemoryTyped
      <4>2. h = g /\ n = active[g]
        BY <4>1
      <4>3. QED
        BY <3>2, <4>2
    <3>4. UNCHANGED database /\ \A d \in Call : call'[d] = call[d]
      BY <1>2
    <3>5. QED
      BY <2>1, <2>2, <2>3, <3>3, <3>4, EntryHanded DEF Inv
  <2>5. HoldsLease(p, g) => FALSE
    BY <2>2 DEF HoldsLease, Executing
  <2>6. CountsTyped' /\ timers' \in [Process -> SUBSET (ChatGeneration \X Attempt)]
    BY <1>2 DEF Inv, Types, CountsTyped, MemoryTyped
  <2>7. CallsTyped' /\ CallsGoOn
    BY <1>2 DEF Inv, Types, CallsTyped, CallsGoOn, Creating
  <2>8. QED
    BY <1>2, <2>1, <2>3, <2>4, <2>5, <2>6, <2>7, EntryInv
<1>3. CASE Forget(p) /\ UNCHANGED faults
  BY <1>3, ForgetInv DEF Inv, Types, CountsTyped
<1>4. QED
  BY <1>1, <1>2, <1>3 DEF FireTimer

(***************************************************************************)
(* Steps that write the row of one generation                              *)
(***************************************************************************)
SameRow(h) == /\ after'[h] = after[h] /\ status'[h] = status[h]
              /\ active'[h] = active[h] /\ lease'[h] = lease[h]

\* The follow-ups of g become ready with its success only.
LEMMA RowInv ==
    ASSUME Inv, NEW g \in ChatGeneration, Types', FreshRows', OneAttemptEach',
           \A h \in ChatGeneration \ {g} : SameRow(h),
           lost \ {g} \subseteq lost',
           status'[g] # "running" => lease'[g] \notin Process,
           \A q \in Process :
             status'[g] = "running" /\ lease'[g] = q => HoldsLease(q, g)' \/ g \in lost',
           status'[g] = "queued" => SomebodyHas(g)' \/ g \in lost',
           \A h \in ChatGeneration \ {g}, p \in Process : entry'[p][h] = entry[p][h],
           \A h \in ChatGeneration \ {g}, p \in Process :
             status[h] = "queued" /\ after[h] # g /\ Handed(p, h) => SomebodyHas(h)',
           \A h \in ChatGeneration \ {g} :
             status[h] = "queued" /\ after[h] = g /\ status'[g] = "succeeded" =>
               SomebodyHas(h)' \/ h \in lost'
    PROVE  Inv'
<1>1. LeasesRun'
  BY DEF Inv, LeasesRun, SameRow
<1>2. RunningIsOwned'
  <2> SUFFICES ASSUME NEW h \in ChatGeneration, NEW q \in Process, status'[h] = "running", lease'[h] = q
               PROVE  HoldsLease(q, h)' \/ h \in lost'
    BY DEF RunningIsOwned, HoldsLease, Executing
  <2>1. CASE h = g
    BY <2>1
  <2>2. CASE h # g
    <3>1. HoldsLease(q, h) \/ h \in lost
      BY <2>2 DEF Inv, RunningIsOwned, SameRow
    <3>2. HoldsLease(q, h) => HoldsLease(q, h)'
      BY <2>2 DEF HoldsLease, Executing, SameRow
    <3>3. QED
      BY <2>2, <3>1, <3>2
  <2>3. QED
    BY <2>1, <2>2
<1>3. HandedOn'
  <2> SUFFICES ASSUME NEW h \in ChatGeneration, status'[h] = "queued", Ready(h)'
               PROVE  SomebodyHas(h)' \/ h \in lost'
    BY DEF HandedOn
  <2>1. CASE h = g
    BY <2>1
  <2>2. CASE h # g /\ after[h] = g
    <3>1. status'[g] = "succeeded"
      BY <2>2, Bounds DEF Ready, SameRow, ChatGeneration
    <3>2. QED
      BY <2>2, <3>1 DEF SameRow
  <2>3. CASE h # g /\ after[h] # g
    <3>1. after[h] # 0 => after[h] \in ChatGeneration
      <4>1. after[h] \in 0..MaxGenerations
        BY DEF Inv, Types, RowsTyped
      <4>2. QED
        BY <4>1, Bounds DEF ChatGeneration
    <3>2. status[h] = "queued" /\ Ready(h)
      BY <2>3, <3>1 DEF Ready, SameRow
    <3>3. SomebodyHas(h) \/ h \in lost
      BY <3>2 DEF Inv, HandedOn
    <3>4. SomebodyHas(h) => SomebodyHas(h)'
      <4>1. SomebodyHas(h) => \E p \in Process : Handed(p, h)
        BY DEF SomebodyHas
      <4>2. QED
        BY <2>3, <3>2, <4>1
    <3>5. QED
      BY <2>3, <3>3, <3>4
  <2>4. QED
    BY <2>1, <2>2, <2>3
<1>4. QED
  BY <1>1, <1>2, <1>3 DEF Inv

(* By a call, which commits *)

LEMMA CallRowInv ==
    ASSUME Inv, NEW g \in ChatGeneration, NEW c \in Call, RowsTyped', CallsTyped',
           call[c].pc = "locked", call[c].generation = g, call'[c].pc = "committed",
           call'[c].generation = g,
           \A d \in Call : d # c => call'[d] = call[d],
           UNCHANGED <<entry, timers, faults>>,
           \A h \in ChatGeneration \ {g} : SameRow(h),
           status[g] = "absent" => Creating(c),
           lost \ {g} \subseteq lost', lost' \subseteq ChatGeneration,
           lease'[g] \notin Process, status'[g] \in {"queued", "cancelled"},
           status'[g] = "queued" => SomebodyHas(g)'
    PROVE  Inv'
<1>1. Types'
  BY DEF Inv, Types, MemoryTyped, EntriesTyped, CountsTyped
<1>2. OneAttemptEach'
  BY DEF Inv, OneAttemptEach
<1>3. CallsGoOn
  BY DEF CallsGoOn, Creating
<1>4. FreshRows'
  <2>1. ASSUME NEW d \in Call, Creating(d)', status[call[d].generation] = "absent"
        PROVE  status'[call[d].generation] = "absent"
    <3>1. d # c
      BY <2>1 DEF Creating
    <3>2. Creating(d) /\ call[d].pc # "idle"
      BY <2>1, <3>1 DEF Creating
    <3>3. call[d].generation # g
      BY <2>1, <3>1, <3>2 DEF Inv, FreshRows
    <3>4. call[d].generation \in ChatGeneration
      BY <3>2 DEF Inv, Types, CallsTyped, NoCall, CallRow
    <3>5. QED
      BY <2>1, <3>3, <3>4 DEF SameRow
  <2>2. QED
    BY <1>3, <2>1, FreshStays DEF Inv
<1>5. \A h \in ChatGeneration \ {g}, p \in Process : Handed(p, h) => Handed(p, h)'
  <2> SUFFICES ASSUME NEW h \in ChatGeneration \ {g}, NEW p \in Process, Handed(p, h)
               PROVE  Handed(p, h)'
    OBVIOUS
  <2>1. after'[h] = after[h] /\ active'[h] = active[h]
    BY DEF SameRow
  <2>2. \A d \in Call : call[d].generation = h => call'[d] = call[d]
    OBVIOUS
  <2>3. QED
    BY <2>1, <2>2 DEF Handed
<1>6. \A h \in ChatGeneration \ {g}, p \in Process : Handed(p, h) => SomebodyHas(h)'
  BY <1>5 DEF SomebodyHas
<1>7. QED
  BY <1>1, <1>2, <1>4, <1>6, RowInv

\* The attempt a call has committed is that call's.
LEMMA CommittedIsHanded ==
    ASSUME NEW c \in Call, NEW g \in ChatGeneration, call'[c].pc = "committed",
           call'[c].process \in Process, call'[c].kind \notin {"cancel", "steer"},
           call'[c].generation = g, call'[c].attempt = active'[g]
    PROVE  SomebodyHas(g)'
BY DEF SomebodyHas, Handed

LEMMA CreateInv ==
    ASSUME Inv, NEW c \in Call, CommitCreate(c) PROVE Inv'
<1>1. PICK g : g = call[c].generation
  OBVIOUS
<1>2. /\ call[c].pc = "locked" /\ call[c].kind \in {"start", "enqueue"}
      /\ UNCHANGED <<lease, entry, timers, lost, faults>>
  BY DEF CommitCreate
<1>3. /\ g \in ChatGeneration /\ RowsTyped' /\ CallsTyped'
      /\ status'[g] = "queued" /\ active'[g] = 1 /\ lease'[g] = lease[g]
      /\ \A h \in ChatGeneration \ {g} : SameRow(h)
      /\ \A d \in Call : d # c => call'[d] = call[d]
      /\ call'[c].pc = "committed" /\ call'[c].kind = call[c].kind
      /\ call'[c].process = call[c].process /\ call'[c].generation = g
      /\ call'[c].attempt = 1 /\ call[c].process \in Process
  BY <1>1, CreateStep DEF Inv, SameRow
<1>4. lease[g] \notin Process /\ Creating(c)
  <2>1. Creating(c)
    BY <1>2 DEF Creating
  <2>2. status[g] = "absent"
    BY <1>1, <2>1 DEF Inv, FreshRows
  <2>3. QED
    BY <1>3, <2>1, <2>2 DEF Inv, LeasesRun
<1>5. SomebodyHas(g)'
  BY <1>2, <1>3, CommittedIsHanded
<1>6. lost' \subseteq ChatGeneration
  BY <1>2 DEF Inv, Types, CountsTyped
<1>7. QED
  BY <1>1, <1>2, <1>3, <1>4, <1>5, <1>6, CallRowInv

LEMMA AttemptInv ==
    ASSUME Inv, NEW c \in Call, CommitAttempt(c) PROVE Inv'
<1>1. PICK g : g = call[c].generation
  OBVIOUS
<1>2. /\ call[c].pc = "locked" /\ MayAppend(call[c].kind, g) /\ AppendAttempt(g)
      /\ Committed(c, active[g] + 1) /\ UNCHANGED <<entry, timers, faults>>
  BY <1>1 DEF CommitAttempt
<1>3. call[c] \in CallRow /\ g \in ChatGeneration /\ call[c].process \in Process
  <2>1. call[c] \in CallRow
    BY <1>2 DEF Inv, Types, CallsTyped, NoCall
  <2>2. QED
    BY <1>1, <2>1 DEF CallRow
<1>4. /\ RowsTyped' /\ status'[g] = "queued" /\ active'[g] = active[g] + 1
      /\ lease'[g] = "none" /\ active[g] + 1 \in Attempt /\ active[g] + 1 \in 0..MaxAttempts
      /\ lost' = lost \ {g} /\ \A h \in ChatGeneration \ {g} : SameRow(h)
  BY <1>2, <1>3, AppendStep DEF AppendAttempt, Inv, Types, SameRow
<1>5. /\ CallsTyped' /\ \A d \in Call : d # c => call'[d] = call[d]
      /\ call'[c].pc = "committed" /\ call'[c].kind = call[c].kind
      /\ call'[c].process = call[c].process /\ call'[c].generation = g
      /\ call'[c].attempt = active[g] + 1
  <2>1. active[g] + 1 # 0 /\ call[c].pc # "idle"
    BY <1>2, <1>4 DEF Attempt
  <2>2. QED
    BY <1>1, <1>2, <1>4, <2>1, CommittedTypes DEF Inv
<1>6. call[c].kind \in {"retry", "resume"} /\ status[g] # "absent"
  BY <1>2 DEF MayAppend
<1>7. SomebodyHas(g)'
  BY <1>3, <1>4, <1>5, <1>6, CommittedIsHanded
<1>8. lost' \subseteq ChatGeneration /\ lease'[g] \notin Process
  BY <1>4, Bounds DEF Inv, Types, CountsTyped
<1>9. QED
  BY <1>1, <1>2, <1>3, <1>4, <1>5, <1>6, <1>7, <1>8, CallRowInv

LEMMA CancelInv ==
    ASSUME Inv, NEW c \in Call, CommitCancel(c) PROVE Inv'
<1>1. PICK g : g = call[c].generation
  OBVIOUS
<1>2. /\ call[c].pc = "locked" /\ call[c].kind = "cancel" /\ CancelRow(g)
      /\ Committed(c, 0) /\ UNCHANGED <<entry, timers, lost, faults>>
  BY <1>1 DEF CommitCancel
<1>3. g \in ChatGeneration
  BY <1>1, <1>2 DEF Inv, Types, CallsTyped, NoCall, CallRow
<1>4. status[g] # "absent" /\ Settle(g, "cancelled")
  BY <1>2 DEF CancelRow, Open
<1>5. /\ RowsTyped' /\ status'[g] = "cancelled" /\ lease'[g] = "none"
      /\ \A h \in ChatGeneration \ {g} : SameRow(h)
  BY <1>3, <1>4, SettleStep DEF Inv, Types, SameRow
<1>6. /\ CallsTyped' /\ \A d \in Call : d # c => call'[d] = call[d]
      /\ call'[c].pc = "committed" /\ call'[c].generation = g
  <2>1. 0 \in 0..MaxAttempts /\ call[c].pc # "idle"
    BY <1>2, Bounds
  <2>2. QED
    BY <1>1, <1>2, <2>1, CommittedTypes DEF Inv
<1>7. lost' \subseteq ChatGeneration /\ lease'[g] \notin Process
  BY <1>2, <1>5, Bounds DEF Inv, Types, CountsTyped
<1>8. QED
  BY <1>1, <1>2, <1>3, <1>4, <1>5, <1>6, <1>7, CallRowInv

(* By a run *)

LEMMA RunRowInv ==
    ASSUME Inv, NEW p \in Process, NEW g \in ChatGeneration, NEW e, WellFormed(e), OneEach(e.ready),
           SetEntry(p, g, e), RowsTyped', UNCHANGED <<after, call>>,
           faults' \in 0..MaxEmbeddedFaults, lost \ {g} \subseteq lost', lost' \subseteq ChatGeneration,
           timers' \in [Process -> SUBSET (ChatGeneration \X Attempt)],
           \A q \in Process : timers[q] \subseteq timers'[q],
           \A h \in ChatGeneration \ {g} : SameRow(h), status[g] # "absent",
           status'[g] # "running" => lease'[g] \notin Process,
           \A q \in Process :
             status'[g] = "running" /\ lease'[g] = q => HoldsLease(q, g)' \/ g \in lost',
           status'[g] = "queued" => SomebodyHas(g)' \/ g \in lost',
           status'[g] = "succeeded" =>
             \/ e.pc = "listing"
             \/ \A h \in ChatGeneration : status[h] = "queued" /\ after[h] = g => h \in lost'
    PROVE  Inv'
<1>1. /\ EntriesTyped'
      /\ \A q \in Process, h \in ChatGeneration :
           entry'[q][h] = IF q = p /\ h = g THEN e ELSE entry[q][h]
  BY EntryStep DEF Inv, Types, MemoryTyped
<1>2. Types'
  BY <1>1 DEF Inv, Types, MemoryTyped, CallsTyped, CountsTyped
<1>3. OneAttemptEach'
  BY <1>1 DEF Inv, OneAttemptEach
<1>4. FreshRows'
  <2>1. CallsGoOn
    BY DEF CallsGoOn, Creating
  <2>2. \A d \in Call : Creating(d)' => call[d].generation \in ChatGeneration
    BY DEF Creating, Inv, Types, CallsTyped, NoCall, CallRow
  <2>3. QED
    BY <2>1, <2>2, FreshStays DEF Inv, SameRow
<1>5. ASSUME NEW h \in ChatGeneration \ {g}, NEW q \in Process, after[h] # g, Handed(q, h)
      PROVE  SomebodyHas(h)'
  <2>1. after'[h] = after[h] /\ active'[h] = active[h] /\ call' = call
    BY DEF SameRow
  <2>2. after[h] # 0 => after[h] \in ChatGeneration
    BY Bounds DEF Inv, Types, RowsTyped, ChatGeneration
  <2>3. entry'[q][h] = entry[q][h] /\ (after[h] # 0 => entry'[q][after[h]] = entry[q][after[h]])
    BY <1>1, <1>5, <2>2
  <2>4. Handed(q, h)'
    BY <1>5, <2>1, <2>3 DEF Handed
  <2>5. QED
    BY <2>4 DEF SomebodyHas
<1>6. ASSUME NEW h \in ChatGeneration \ {g}, status[h] = "queued", after[h] = g,
             status'[g] = "succeeded"
      PROVE  SomebodyHas(h)' \/ h \in lost'
  <2>1. CASE e.pc = "listing"
    <3>1. after'[h] = g /\ g # 0 /\ entry'[p][g].pc = "listing"
      BY <1>1, <1>6, <2>1, Bounds DEF SameRow, ChatGeneration
    <3>2. Handed(p, h)'
      BY <3>1 DEF Handed
    <3>3. QED
      BY <3>2 DEF SomebodyHas
  <2>2. QED
    BY <1>6, <2>1
<1>7. \A h \in ChatGeneration \ {g}, q \in Process : entry'[q][h] = entry[q][h]
  BY <1>1
<1>8. QED
  BY <1>2, <1>3, <1>4, <1>5, <1>6, <1>7, RowInv

LEMMA ClaimInv ==
    ASSUME Inv, NEW p \in Process, NEW g \in ChatGeneration, Claim(p, g) PROVE Inv'
<1> DEFINE e == [entry[p][g] EXCEPT !.pc = "executing"]
<1>1. /\ entry[p][g].pc = "claiming" /\ MayClaim(g, entry[p][g].attempt)
      /\ status' = [status EXCEPT ![g] = "running"] /\ lease' = [lease EXCEPT ![g] = p]
      /\ SetEntry(p, g, e) /\ lost' = lost \ {g}
      /\ UNCHANGED <<after, active, timers, call, faults>>
  BY DEF Claim
<1>2. /\ WellFormed(e) /\ e.pc = "executing" /\ e.attempt = entry[p][g].attempt
      /\ e.ready = {} /\ OneEach({})
  <2>1. WellFormed(entry[p][g]) /\ entry[p][g].ready = {} /\ OneEach({})
    BY <1>1, EntryIs DEF Inv
  <2>2. \A x \in EntryRow : /\ [x EXCEPT !.pc = "executing"] \in EntryRow
                            /\ [x EXCEPT !.pc = "executing"].pc = "executing"
                            /\ [x EXCEPT !.pc = "executing"].attempt = x.attempt
                            /\ [x EXCEPT !.pc = "executing"].ready = x.ready
    BY DEF EntryRow
  <2>3. entry[p][g] \in EntryRow
    BY <2>1 DEF WellFormed
  <2>4. /\ e \in EntryRow /\ e.pc = "executing" /\ e.attempt = entry[p][g].attempt
        /\ e.ready = entry[p][g].ready
    BY <2>2, <2>3
  <2>5. QED
    BY <1>1, <2>1, <2>4 DEF WellFormed
<1> HIDE DEF e
<1>3. status[g] \in Open /\ active[g] = entry[p][g].attempt
  BY <1>1 DEF MayClaim, Open
<1>4. /\ RowsTyped' /\ status'[g] = "running" /\ lease'[g] = p
      /\ \A h \in ChatGeneration \ {g} : SameRow(h)
  BY <1>1, <1>3 DEF Inv, Types, RowsTyped, SameRow, Status, Open
<1>5. HoldsLease(p, g)'
  <2>1. entry'[p][g] = e
    BY <1>1, <1>2, EntryStep DEF Inv, Types, MemoryTyped
  <2>2. QED
    BY <1>1, <1>2, <1>3, <1>4, <2>1 DEF HoldsLease, Executing
<1>6. /\ lost' \subseteq ChatGeneration /\ faults' \in 0..MaxEmbeddedFaults
      /\ timers' \in [Process -> SUBSET (ChatGeneration \X Attempt)]
  BY <1>1 DEF Inv, Types, CountsTyped, MemoryTyped
<1>7. /\ OneEach(e.ready) /\ status[g] # "absent" /\ lost \ {g} \subseteq lost'
      /\ \A q \in Process : lease'[g] = q => HoldsLease(q, g)'
      /\ \A q \in Process : timers[q] \subseteq timers'[q]
  BY <1>1, <1>2, <1>3, <1>4, <1>5 DEF Open
<1>8. QED
  BY <1>1, <1>2, <1>4, <1>6, <1>7, RunRowInv

LEMMA ClaimUnheardInv ==
    ASSUME Inv, NEW p \in Process, NEW g \in ChatGeneration, ClaimUnheard(p, g) PROVE Inv'
<1>1. /\ entry[p][g].pc = "claiming" /\ MayClaim(g, entry[p][g].attempt)
      /\ status' = [status EXCEPT ![g] = "running"] /\ lease' = [lease EXCEPT ![g] = p]
      /\ SetEntry(p, g, Leaving) /\ lost' = lost \cup {g}
      /\ UNCHANGED <<after, active, timers, call>> /\ faults' \in 0..MaxEmbeddedFaults
  BY Bounds DEF ClaimUnheard, EmbeddedFault, Inv, Types, CountsTyped
<1>2. status[g] \in Open
  BY <1>1 DEF MayClaim, Open
<1>3. /\ RowsTyped' /\ status'[g] = "running" /\ lease'[g] = p
      /\ \A h \in ChatGeneration \ {g} : SameRow(h)
  BY <1>1, <1>2 DEF Inv, Types, RowsTyped, SameRow, Status, Open
<1>4. /\ lost' \subseteq ChatGeneration /\ lost \ {g} \subseteq lost' /\ g \in lost'
      /\ timers' \in [Process -> SUBSET (ChatGeneration \X Attempt)]
      /\ \A q \in Process : timers[q] \subseteq timers'[q]
  BY <1>1 DEF Inv, Types, CountsTyped, MemoryTyped
<1>5. WellFormed(Leaving) /\ OneEach(Leaving.ready) /\ status[g] # "absent"
  BY <1>2, NewEntries DEF OneEach, Open
<1>6. QED
  BY <1>1, <1>3, <1>4, <1>5, RunRowInv

LEMMA FinishUnheardInv ==
    ASSUME Inv, NEW p \in Process, NEW g \in ChatGeneration, FinishUnheard(p, g) PROVE Inv'
<1>1. /\ HoldsLease(p, g) /\ Settle(g, "succeeded") /\ SetEntry(p, g, Leaving)
      /\ lost' = lost \cup Astray(ReadyDependents(g))
      /\ UNCHANGED <<timers, call>> /\ faults' \in 0..MaxEmbeddedFaults
  BY Bounds DEF FinishUnheard, CanSettle, EmbeddedFault, Inv, Types, CountsTyped
<1>2. status[g] # "absent"
  BY <1>1 DEF HoldsLease
<1>3. /\ RowsTyped' /\ status'[g] = "succeeded" /\ lease'[g] = "none" /\ UNCHANGED after
      /\ \A h \in ChatGeneration \ {g} : SameRow(h)
  BY <1>1, <1>2, SettleStep DEF Inv, Types, SameRow
<1>4. \A h \in ChatGeneration : status[h] = "queued" /\ after[h] = g => h \in lost'
  BY <1>1, ReadyAreDependents, AstrayAre DEF Inv
<1>5. /\ lost' \subseteq ChatGeneration /\ lost \ {g} \subseteq lost'
      /\ timers' \in [Process -> SUBSET (ChatGeneration \X Attempt)]
      /\ \A q \in Process : timers[q] \subseteq timers'[q]
  BY <1>1 DEF Astray, Inv, Types, CountsTyped, MemoryTyped
<1>6. WellFormed(Leaving) /\ OneEach(Leaving.ready)
  BY NewEntries DEF OneEach
<1>7. QED
  BY <1>1, <1>2, <1>3, <1>4, <1>5, <1>6, Bounds, RunRowInv

\* FinishRun, Fail and the cancellation of an aborted run.
LEMMA SettleInv ==
    ASSUME Inv, NEW p \in Process, NEW g \in ChatGeneration,
           NEW s \in {"succeeded", "failed", "cancelled"}, Settle(g, s), status[g] # "absent",
           NEW e \in {Leaving, [NoEntry EXCEPT !.pc = "listing"]}, SetEntry(p, g, e),
           s = "succeeded" => e.pc = "listing",
           UNCHANGED <<timers, call, lost, faults>>
    PROVE  Inv'
<1>1. /\ RowsTyped' /\ status'[g] = s /\ lease'[g] = "none" /\ UNCHANGED <<after, active>>
      /\ \A h \in ChatGeneration \ {g} : SameRow(h)
  BY SettleStep DEF Inv, Types, SameRow
<1>2. WellFormed(e) /\ OneEach(e.ready)
  BY NewEntries DEF OneEach
<1>3. /\ lost' \subseteq ChatGeneration /\ faults' \in 0..MaxEmbeddedFaults
      /\ timers' \in [Process -> SUBSET (ChatGeneration \X Attempt)]
  BY DEF Inv, Types, CountsTyped, MemoryTyped
<1>4. QED
  BY <1>1, <1>2, <1>3, Bounds, RunRowInv

LEMMA FinishInv ==
    ASSUME Inv, NEW p \in Process, NEW g \in ChatGeneration, FinishRun(p, g) \/ Fail(p, g) PROVE Inv'
<1>1. PICK s \in {"succeeded", "failed"}, e \in {Leaving, [NoEntry EXCEPT !.pc = "listing"]} :
        /\ CanSettle(p, g) /\ Settle(g, s) /\ SetEntry(p, g, e)
        /\ s = "succeeded" => e = [NoEntry EXCEPT !.pc = "listing"]
        /\ UNCHANGED <<timers, call, lost, faults>>
  BY DEF FinishRun, Fail
<1>2. status[g] # "absent" /\ (s = "succeeded" => e.pc = "listing")
  BY <1>1, NewEntries DEF CanSettle, HoldsLease
<1>3. QED
  BY <1>1, <1>2, SettleInv

LEMMA CancelAbortedInv ==
    ASSUME Inv, NEW p \in Process, NEW g \in ChatGeneration, CancelAborted(p, g) PROVE Inv'
<1>1. /\ Executing(p, g) /\ SetEntry(p, g, Leaving) /\ UNCHANGED <<timers, call, lost, faults>>
  BY DEF CancelAborted
<1>2. CASE CancelRow(g)
  <2>1. status[g] # "absent" /\ Settle(g, "cancelled")
    BY <1>2 DEF CancelRow, Open
  <2>2. QED
    BY <1>1, <2>1, SettleInv
<1>3. CASE status[g] \notin Open /\ UNCHANGED database
  <2>1. entry[p][g].pc = "executing" /\ entry[p][g].ready = {} /\ OneEach({})
    BY <1>1, EntryIs DEF Executing, Inv
  <2>2. ~HoldsLease(p, g)
    BY <1>3 DEF HoldsLease, Open
  <2>3. WellFormed(Leaving) /\ OneEach(Leaving.ready) /\ \A x : x \notin entry[p][g].ready
    BY <2>1, NewEntries
  <2>4. lost' \subseteq ChatGeneration /\ faults' \in 0..MaxEmbeddedFaults
    BY <1>1 DEF Inv, Types, CountsTyped
  <2>5. QED
    BY <1>1, <1>3, <2>1, <2>2, <2>3, <2>4, RunInv
<1>4. QED
  BY <1>2, <1>3 DEF CancelAborted

LEMMA RepairInv ==
    ASSUME Inv, NEW p \in Process, NEW g \in ChatGeneration, Repair(p, g) \/ RepairUnheard(p, g)
    PROVE  Inv'
<1>1. /\ HoldsLease(p, g) /\ AppendRow(g) /\ SetEntry(p, g, Leaving) /\ UNCHANGED call
      /\ faults' \in 0..MaxEmbeddedFaults
      /\ \/ /\ timers' = [timers EXCEPT ![p] = @ \cup {<<g, active[g] + 1>>}]
            /\ lost' = lost \ {g}
         \/ UNCHANGED timers /\ lost' = lost \cup {g}
  BY Bounds DEF Repair, RepairUnheard, CanSettle, AppendAttempt, EmbeddedFault, Inv, Types, CountsTyped
<1>2. /\ RowsTyped' /\ status'[g] = "queued" /\ active'[g] = active[g] + 1
      /\ lease'[g] = "none" /\ active[g] + 1 \in Attempt /\ UNCHANGED after
      /\ \A h \in ChatGeneration \ {g} : SameRow(h)
  BY <1>1, AppendStep DEF Inv, Types, SameRow
<1>3. /\ timers' \in [Process -> SUBSET (ChatGeneration \X Attempt)]
      /\ \A q \in Process : timers[q] \subseteq timers'[q]
      /\ <<g, active'[g]>> \in timers'[p] \/ g \in lost'
  BY <1>1, <1>2 DEF Inv, Types, MemoryTyped
<1>4. SomebodyHas(g)' \/ g \in lost'
  BY <1>3 DEF SomebodyHas, Handed
<1>5. WellFormed(Leaving) /\ OneEach(Leaving.ready)
  BY NewEntries DEF OneEach
<1>6. lost \ {g} \subseteq lost' /\ lost' \subseteq ChatGeneration /\ status[g] # "absent"
  BY <1>1 DEF Inv, Types, CountsTyped, HoldsLease
<1>7. QED
  BY <1>1, <1>2, <1>3, <1>4, <1>5, <1>6, Bounds, RunRowInv

LEMMA ExpireInv ==
    ASSUME Inv, NEW g \in ChatGeneration,
           ExpireLease(g) \/ \E p \in Process : OutliveLease(p, g)
    PROVE  Inv'
<1>1. /\ lease[g] \in Process /\ lease' = [lease EXCEPT ![g] = "expired"]
      /\ UNCHANGED <<after, status, active, entry, timers, call, lost>>
      /\ faults' \in 0..MaxEmbeddedFaults
  BY Bounds DEF ExpireLease, OutliveLease, ExpireRow, HoldsLease, EmbeddedFault, Inv, Types, CountsTyped
<1>2. status[g] = "running"
  BY <1>1 DEF Inv, LeasesRun
<1>3. lease'[g] = "expired" /\ Types' /\ \A h \in ChatGeneration \ {g} : SameRow(h)
  BY <1>1 DEF Inv, Types, RowsTyped, MemoryTyped, EntriesTyped, CallsTyped, CountsTyped, SameRow
<1>4. FreshRows' /\ OneAttemptEach'
  BY <1>1 DEF Inv, FreshRows, Creating, OneAttemptEach
<1>5. \A h \in ChatGeneration, p \in Process : Handed(p, h) => SomebodyHas(h)'
  <2>1. \A h \in ChatGeneration, p \in Process : Handed(p, h) => Handed(p, h)'
    BY <1>1 DEF Handed
  <2>2. QED
    BY <2>1 DEF SomebodyHas
<1>6. QED
  BY <1>1, <1>2, <1>3, <1>4, <1>5, Bounds, RowInv

(***************************************************************************)
(* The theorem                                                             *)
(***************************************************************************)
LEMMA NextInv == Inv /\ [EmbeddedNext]_embeddedVars => Inv'
<1> SUFFICES ASSUME Inv, [EmbeddedNext]_embeddedVars PROVE Inv'
  OBVIOUS
<1>1. ASSUME NEW c \in Call, NEW p \in Process, NEW kind \in Kind, NEW g \in ChatGeneration,
             NEW pred \in 0..MaxGenerations, Ask(c, p, kind, g, pred)
      PROVE  Inv'
  BY <1>1, AskInv
<1>2. ASSUME NEW c \in Call, Lock(c) \/ Answer(c)
      PROVE  Inv'
  BY <1>2, LockInv, CreateInv, AttemptInv, CancelInv, NothingInv, ScheduleInv, AbortInv DEF Answer
<1>3. ASSUME NEW c \in Call, AnswerLost(c)
      PROVE  Inv'
  BY <1>3, AnswerLostInv
<1>4. ASSUME NEW p \in Process, NEW g \in ChatGeneration, RunFault(p, g)
      PROVE  Inv'
  BY <1>4, ClaimUnheardInv, FinishUnheardInv, RepairInv, AbandonInv, ExpireInv DEF RunFault
<1>5. ASSUME NEW p \in Process, ProcessDies(p)
      PROVE  Inv'
  <2>1. Forget(p) /\ faults' \in 0..MaxEmbeddedFaults
    BY <1>5, Bounds DEF ProcessDies, EmbeddedFault, Inv, Types, CountsTyped
  <2>2. QED
    BY <2>1, ForgetInv
<1>6. ASSUME NEW p \in Process, NEW g \in ChatGeneration, RunStep(p, g)
      PROVE  Inv'
  BY <1>6, ClaimInv, ClaimFailsInv, FinishInv, RepairInv, CancelAbortedInv, LeaveInv, ListInv,
     ListFailsInv, WakeInv DEF RunStep
<1>7. ASSUME NEW p \in Process, NEW t \in timers[p], FireTimer(p, t)
      PROVE  Inv'
  BY <1>7, TimerInv
<1>8. ASSUME NEW g \in ChatGeneration, ExpireLease(g)
      PROVE  Inv'
  BY <1>8, ExpireInv
<1>9. CASE UNCHANGED embeddedVars
  <2>1. UNCHANGED <<entry, timers, call, lost, faults>> /\ UNCHANGED database
    BY <1>9 DEF embeddedVars
  <2>2. CallsTyped' /\ FreshRows' /\ \A c \in Call : call'[c] = call[c]
    BY <2>1 DEF Inv, Types, CallsTyped, FreshRows, Creating, database
  <2>3. QED
    BY <2>1, <2>2, CallInv
<1>10. QED
  BY <1>1, <1>2, <1>3, <1>4, <1>5, <1>6, <1>7, <1>8, <1>9 DEF EmbeddedNext

\* In every reachable state a running row with a live lease belongs to a run in the registry
\* of the lease's process, and a queued row that is ready is in some process's memory: a run
\* about to claim it, a repair timer, a call that has just committed it, or the run of its
\* predecessor.  Otherwise it is in lost, where only these put it: a refused schedule(), a
\* claim that met a lock or failed, a failed listReadyGenerationDependents, a COMMIT of a
\* call, claim, completion or repair whose answer is lost, a run that ends under its lease
\* (a failed heartbeat request, or a swallowed failure of what would settle it), and the
\* death of a process.
THEOREM WorkIsInHand == EmbeddedSpec => []RunsAreInHand
<1>1. Inv => RunsAreInHand
  BY InvIsEnough
<1>2. QED
  BY <1>1, InitInv, NextInv, PTL DEF EmbeddedSpec

\* The rows, the registries, the timers and the calls of src/client.ts keep their types.
THEOREM EmbeddedTypesAreKept == EmbeddedSpec => []EmbeddedTypeOK
<1>1. Inv => EmbeddedTypeOK
  BY TypesAreTypeOK DEF Inv
<1>2. QED
  BY <1>1, InitInv, NextInv, PTL DEF EmbeddedSpec

=============================================================================
