----------------------- MODULE WebhookDeliveryProofs -----------------------
(***************************************************************************)
(* Theorems about durable webhooks: types, and what WebhookCollection      *)
(* .deliver and its store promise for any generations, lanes and bounds.   *)
(***************************************************************************)
EXTENDS WebhookDelivery, FiniteSetTheorems, SequenceTheorems, WellFoundedInduction, TLAPS

USE DEF Cursor

LEMMA Bounds == MaxEvents \in Nat \ {0} /\ MaxTries \in Nat \ {0} /\ PageLimit \in Nat \ {0}
BY WebhookAssumption DEF WebhookAssumption

(***************************************************************************)
(* Smallest members and pages                                              *)
(***************************************************************************)
LEMMA LeastIsThere == \A S \in SUBSET Nat :
    S # {} => \E x \in S : \A y \in S : <<y, x>> \notin OpToRel(<, Nat)
BY NatLessThanWellFounded, WFMin

LEMMA MinIsLeast ==
    ASSUME NEW S \in SUBSET Nat, S # {}
    PROVE  Min(S) \in S /\ \A y \in S : Min(S) <= y
<1>1. \E x \in S : \A y \in S : x <= y
  <2>1. PICK x \in S : \A y \in S : <<y, x>> \notin OpToRel(<, Nat)
    BY LeastIsThere
  <2>2. \A y \in S : ~(y < x)
    BY <2>1 DEF OpToRel
  <2>3. x \in Nat /\ S \subseteq Nat
    OBVIOUS
  <2>4. \A y \in S : x <= y
    BY <2>2, <2>3, SMT
  <2>5. QED
    BY <2>4
<1>2. QED
  BY <1>1 DEF Min

\* What a page leaves out comes after everything on it.
LEMMA LowestIsLower ==
    ASSUME NEW S \in SUBSET Cursor, NEW k \in Int,
           NEW t \in Lowest(S, k), NEW c \in S, c \notin Lowest(S, k)
    PROVE  t < c
<1>0. t \in S /\ t \in Nat /\ c \in Nat
  BY Bounds DEF Lowest
<1>1. SUFFICES ASSUME c <= t PROVE FALSE
  BY <1>0, SMT
<1> DEFINE Upto(x) == {d \in S : d <= x}
<1>2. Upto(c) \subseteq Upto(t)
  <2>1. \A d \in S : d \in Nat
    BY Bounds
  <2>2. \A d \in S : d <= c => d <= t
    BY <1>0, <1>1, <2>1
  <2>3. QED
    BY <2>2
<1>3. IsFiniteSet(Upto(t)) /\ IsFiniteSet(Upto(c)) /\ IsFiniteSet(Cursor)
  <2>1. IsFiniteSet(Cursor)
    BY FS_Interval, Bounds
  <2>2. Upto(t) \in SUBSET Cursor /\ Upto(c) \in SUBSET Cursor
    OBVIOUS
  <2>3. QED
    BY <2>1, <2>2, FS_Subset
<1>4. Cardinality(Upto(c)) <= Cardinality(Upto(t))
  BY <1>2, <1>3, FS_Subset
<1>5. Cardinality(Upto(c)) \in Nat /\ Cardinality(Upto(t)) \in Nat
  BY <1>3, FS_CardinalityType
<1>6. Cardinality(Upto(t)) <= k
  BY DEF Lowest
<1>7. Cardinality(Upto(c)) <= k
  BY <1>4, <1>5, <1>6
<1>8. QED
  BY <1>7 DEF Lowest

LEMMA MaxOfTwo ==
    ASSUME NEW a \in Int, NEW b \in Int
    PROVE  Max({a, b}) \in {a, b} /\ a <= Max({a, b}) /\ b <= Max({a, b})
<1>1. \E x \in {a, b} : \A y \in {a, b} : x >= y
  <2>1. CASE a >= b
    BY <2>1
  <2>2. CASE b >= a
    BY <2>2
  <2>3. QED
    BY <2>1, <2>2
<1>2. QED
  BY <1>1 DEF Max

(***************************************************************************)
(* Types                                                                   *)
(***************************************************************************)
Present == 1..Len(events)

LaneRow == [pc: LanePc, generation: Generation \cup {NoGeneration}, secret: Nat,
            cursor: 0..MaxEvents, phase: {"pending", "page"}, todo: SUBSET Cursor, left: Int]

Types ==
    /\ TypeOK
    /\ Len(events) <= MaxEvents
    /\ lane \in [Lane -> LaneRow]
    /\ \A c \in Cursor : delivery[c].status # "none" => c \in Present
    /\ \A w \in Lane : /\ lane[w].pc # "idle" => lane[w].generation \in Generation
                       /\ lane[w].todo \subseteq Present

LEMMA NewRowTypes == NoRow \in DeliveryRow /\ NewRow \in DeliveryRow
<1>1. NoRow \in DeliveryRow
  BY Bounds DEF NoRow, DeliveryRow
<1>2. ASSUME NEW r \in DeliveryRow
      PROVE  [r EXCEPT !.status = "pending", !.due = TRUE] \in DeliveryRow
  BY DEF DeliveryRow
<1>3. QED
  BY <1>1, <1>2 DEF NewRow

LEMMA InitTypes == Init => Types
BY Bounds, WebhookAssumption
DEF WebhookAssumption, Init, Types, TypeOK, NoRow, Idle, LaneRow, LanePc, DeliveryRow, Present

LEMMA EventTypes ==
    ASSUME Types, NEW c \in Present
    PROVE  events[c] \in [generation: Generation, selected: BOOLEAN,
                          state: {"locked", "unlocked", "committed", "rolled_back"}, late: BOOLEAN]
<1>1. \A S : \A s \in Seq(S) : \A i \in 1..Len(s) : s[i] \in S
  OBVIOUS
<1>2. QED
  BY <1>1 DEF Types, TypeOK, Present

\* A step that writes one delivery row of an event in the log.
LEMMA RowTypes ==
    ASSUME Types, NEW c \in Present, NEW r \in DeliveryRow,
           delivery' = [delivery EXCEPT ![c] = r], UNCHANGED events
    PROVE  /\ delivery' \in [Cursor -> DeliveryRow]
           /\ \A d \in Cursor : delivery'[d].status # "none" => d \in Present'
<1>1. delivery' \in [Cursor -> DeliveryRow]
  BY DEF Types, TypeOK
<1>2. \A d \in Cursor : d # c => delivery'[d] = delivery[d]
  BY DEF Types, TypeOK
<1>3. QED
  BY <1>1, <1>2 DEF Types, Present

LEMMA LogTypes == Types /\ LogStep => Types'
<1> SUFFICES ASSUME Types, LogStep PROVE Types'
  OBVIOUS
<1>1. ASSUME NEW g \in Generation, NEW selected \in BOOLEAN,
             NEW state \in {"locked", "unlocked"}, Insert(g, selected, state)
      PROVE  Types'
  <2>1. /\ Len(events') = Len(events) + 1 /\ Len(events) \in Nat /\ Len(events') <= MaxEvents
        /\ events' \in Seq([generation: Generation, selected: BOOLEAN,
                            state: {"locked", "unlocked", "committed", "rolled_back"}, late: BOOLEAN])
    BY <1>1, Bounds DEF Insert, Types, TypeOK
  <2>2. Present \subseteq Present'
    BY <2>1, Bounds DEF Present
  <2>3. UNCHANGED <<delivery, watermark, webhook, secrets, cleanup, received, redriven, lane>>
    BY <1>1 DEF Insert, config
  <2>4. QED
    BY <2>1, <2>2, <2>3 DEF Types, TypeOK
<1>2. ASSUME NEW c \in 1..Len(events), NEW state \in {"committed", "rolled_back"},
             End(c, state),
             UNCHANGED <<delivery, watermark, config, received, redriven, lane, budget>>
      PROVE  Types'
  <2>1. /\ Len(events') = Len(events)
        /\ events' \in Seq([generation: Generation, selected: BOOLEAN,
                            state: {"locked", "unlocked", "committed", "rolled_back"}, late: BOOLEAN])
    <3> DEFINE Event == [generation: Generation, selected: BOOLEAN,
                         state: {"locked", "unlocked", "committed", "rolled_back"}, late: BOOLEAN]
    <3>1. events \in Seq(Event)
      BY DEF Types, TypeOK
    <3>2. events[c] \in Event
      BY <1>2, EventTypes DEF Present
    <3>3. \A late \in BOOLEAN : [events[c] EXCEPT !.state = state, !.late = late] \in Event
      BY <3>2, <1>2
    <3>4. /\ Overtaken(c) \in BOOLEAN
          /\ events' = [events EXCEPT ![c] = [events[c] EXCEPT !.state = state,
                                                              !.late = Overtaken(c)]]
      BY <3>1, <1>2 DEF End, Overtaken
    <3> HIDE DEF Event
    <3>5. \A e \in Event : /\ [events EXCEPT ![c] = e] \in Seq(Event)
                            /\ Len([events EXCEPT ![c] = e]) = Len(events)
      BY <3>1, <1>2, ExceptSeq
    <3>6. QED
      BY <3>3, <3>4, <3>5 DEF Event
  <2>2. UNCHANGED <<delivery, watermark, webhook, secrets, cleanup, received, redriven, lane>>
    BY <1>2 DEF config
  <2>3. QED
    BY <2>1, <2>2 DEF Types, TypeOK, Present
<1>3. QED
  BY <1>1, <1>2 DEF LogStep, EndTransaction, BeginEvent, AppendGenerationEvent, EndEvent,
     CommitAppended

LEMMA HostTypes == Types /\ HostStep => Types'
<1> SUFFICES ASSUME Types, HostStep PROVE Types'
  OBVIOUS
<1> USE DEF Types, Present, log
<1>1. ASSUME NEW status \in {"active", "paused", "deleted"}, SetStatus(status) PROVE Types'
  BY <1>1 DEF SetStatus, TypeOK
<1>2. CASE RotateSecret
  <2>1. webhook.secret \in Nat /\ webhook.secret + 1 \in Nat /\ secrets \cup cleanup \subseteq Nat
    BY DEF TypeOK
  <2>2. webhook' \in [status: {"active", "paused", "deleted"}, secret: Nat]
    BY <1>2, <2>1 DEF RotateSecret, TypeOK
  <2>3. secrets' \cup cleanup' \subseteq Nat
    BY <1>2, <2>1 DEF RotateSecret
  <2>4. UNCHANGED <<events, received, delivery, watermark, redriven, lane>>
    BY <1>2 DEF RotateSecret
  <2>5. QED
    BY <2>2, <2>3, <2>4 DEF TypeOK
<1>3. ASSUME NEW s \in cleanup, DropSecret(s) \/ DropFails(s) PROVE Types'
  BY <1>3 DEF DropSecret, DropFails, TypeOK
<1>4. ASSUME NEW c \in Cursor, Redrive(c) PROVE Types'
  <2>1. NewRow \in DeliveryRow
    BY NewRowTypes
  <2>2. c \in Present
    BY <1>4 DEF Redrive
  <2>3. delivery' = [delivery EXCEPT ![c] = NewRow]
    BY <1>4 DEF Redrive
  <2>4. UNCHANGED <<events, received, watermark, webhook, secrets, cleanup, lane>>
    BY <1>4 DEF Redrive, config
  <2>5. /\ delivery' \in [Cursor -> DeliveryRow]
        /\ \A d \in Cursor : delivery'[d].status # "none" => d \in Present'
    BY <2>1, <2>2, <2>3, <2>4, RowTypes DEF Types
  <2>6. redriven' = redriven \cup {c}
    BY <1>4 DEF Redrive
  <2>7. QED
    BY <2>4, <2>5, <2>6 DEF TypeOK
<1>5. QED
  BY <1>1, <1>2, <1>3, <1>4 DEF HostStep

LEMMA TimeTypes == Types /\ Time => Types'
<1> SUFFICES ASSUME Types, NEW c \in Cursor, RetryDue(c) \/ LeaseRunsOut(c) PROVE Types'
  BY DEF Time
<1>1. \E r \in DeliveryRow : delivery' = [delivery EXCEPT ![c] = r]
  <2>1. delivery[c] \in DeliveryRow
    BY DEF Types, TypeOK
  <2>2. CASE RetryDue(c)
    BY <2>1, <2>2 DEF RetryDue, DeliveryRow, Types, TypeOK
  <2>3. CASE LeaseRunsOut(c)
    BY <2>1, <2>3 DEF LeaseRunsOut, DeliveryRow, Types, TypeOK
  <2>4. QED
    BY <2>2, <2>3
<1>2. c \in Present
  BY DEF RetryDue, LeaseRunsOut, Pending, InFlight, Types
<1>3. UNCHANGED <<events, received, watermark, webhook, secrets, cleanup, redriven, lane>>
  BY DEF RetryDue, LeaseRunsOut, log, config
<1>4. /\ delivery' \in [Cursor -> DeliveryRow]
      /\ \A d \in Cursor : delivery'[d].status # "none" => d \in Present'
  BY <1>1, <1>2, <1>3, RowTypes
<1>5. QED
  BY <1>3, <1>4 DEF Types, TypeOK, Present

\* The work a lane finds, and the head of its list, are events in the log.
LEMMA TargetTypes ==
    ASSUME Types, NEW w \in Lane, lane[w].todo # {}
    PROVE  /\ Target(w) \in lane[w].todo /\ Target(w) \in Present
           /\ \A t \in lane[w].todo : Target(w) <= t
<1>1. lane[w].todo \in SUBSET Nat /\ lane[w].todo \subseteq Present
  BY Bounds DEF Types, LaneRow
<1>2. QED
  BY <1>1, MinIsLeast DEF Target

LEMMA HasTarget ==
    ASSUME Types, NEW w \in Lane,
           lane[w].pc \in {"sending", "accepted", "refused", "advancing"}
    PROVE  lane[w].todo # {}
BY DEF Types, TypeOK

\* A step of one lane that writes at most one delivery row and one watermark.
LEMMA LaneTypes ==
    ASSUME Types, NEW w \in Lane, NEW l \in LaneRow,
           lane' = [lane EXCEPT ![w] = l],
           l.pc # "idle" => l.generation \in Generation,
           l.todo \subseteq Present,
           l.pc \in {"sending", "accepted", "refused", "advancing"} => l.todo # {},
           \/ UNCHANGED delivery
           \/ \E c \in Present, r \in DeliveryRow : delivery' = [delivery EXCEPT ![c] = r],
           \/ UNCHANGED watermark
           \/ \E g \in Generation, c \in 0..MaxEvents : watermark' = [watermark EXCEPT ![g] = c],
           received' \subseteq Cursor,
           UNCHANGED <<events, config, redriven>>
    PROVE  Types'
<1>1. /\ delivery' \in [Cursor -> DeliveryRow]
      /\ \A d \in Cursor : delivery'[d].status # "none" => d \in Present'
  <2>1. CASE UNCHANGED delivery
    BY <2>1 DEF Types, TypeOK, Present
  <2>2. CASE \E c \in Present, r \in DeliveryRow : delivery' = [delivery EXCEPT ![c] = r]
    BY <2>2, RowTypes
  <2>3. QED
    BY <2>1, <2>2
<1>2. watermark' \in [Generation -> 0..MaxEvents]
  BY DEF Types, TypeOK
<1>3. lane' \in [Lane -> LaneRow]
  BY DEF Types
<1>4. \A v \in Lane : lane'[v] = IF v = w THEN l ELSE lane[v]
  BY DEF Types
<1>5. \A v \in Lane :
        /\ lane'[v].pc \in LanePc /\ lane'[v].todo \subseteq Cursor
        /\ lane'[v].pc \in {"sending", "accepted", "refused", "advancing"} => lane'[v].todo # {}
        /\ lane'[v].pc # "idle" => lane'[v].generation \in Generation
        /\ lane'[v].todo \subseteq Present'
  BY <1>4 DEF Types, TypeOK, LaneRow, Present
<1>6. QED
  BY <1>1, <1>2, <1>3, <1>5 DEF Types, TypeOK, config

LEMMA FindTypes ==
    ASSUME Types, NEW w \in Lane, Find(w)
    PROVE  Types'
<1>1. Work \in SUBSET Nat /\ Work \subseteq Present /\ Work # {}
  BY Bounds DEF Find, Work, Due, Pending, InFlight, NewWork, Unread, Types, Present
<1>2. Min(Work) \in Present
  BY <1>1, MinIsLeast
<1>3. events[Min(Work)].generation \in Generation
  BY <1>2, EventTypes
<1> DEFINE l == [Idle EXCEPT !.pc = "found", !.generation = events[Min(Work)].generation]
<1>4. /\ l \in LaneRow /\ l.pc = "found" /\ l.generation \in Generation /\ l.todo = {}
  <2>1. Idle \in LaneRow /\ Idle.todo = {}
    BY Bounds DEF Idle, LaneRow, LanePc
  <2>2. ASSUME NEW r \in LaneRow, NEW g \in Generation
        PROVE  /\ [r EXCEPT !.pc = "found", !.generation = g] \in LaneRow
               /\ [r EXCEPT !.pc = "found", !.generation = g].pc = "found"
               /\ [r EXCEPT !.pc = "found", !.generation = g].generation = g
               /\ [r EXCEPT !.pc = "found", !.generation = g].todo = r.todo
    BY DEF LaneRow, LanePc
  <2>3. QED
    BY <1>3, <2>1, <2>2
<1>5. /\ lane' = [lane EXCEPT ![w] = l]
      /\ UNCHANGED <<events, config, redriven, delivery, watermark, received>>
  BY DEF Find, log
<1>6. received' \subseteq Cursor
  BY <1>5 DEF Types, TypeOK
<1> HIDE DEF l
<1>7. QED
  BY <1>4, <1>5, <1>6, LaneTypes

LEMMA FinishTypes ==
    ASSUME Types, NEW w \in Lane, Finish(w),
           UNCHANGED <<log, watermark, config, redriven>>,
           \/ UNCHANGED delivery
           \/ \E c \in Present, r \in DeliveryRow : delivery' = [delivery EXCEPT ![c] = r]
    PROVE  Types'
<1>1. Idle \in LaneRow /\ Idle.pc = "idle" /\ Idle.todo = {}
  BY Bounds DEF Idle, LaneRow, LanePc
<1>2. received' \subseteq Cursor
  BY DEF Types, TypeOK, log
<1>3. lane' = [lane EXCEPT ![w] = Idle] /\ UNCHANGED <<events, config, redriven, watermark>>
  BY DEF Finish, log
<1>4. QED
  BY <1>1, <1>2, <1>3, LaneTypes

\* A step of one lane that keeps its generation and list, or shortens the list.
LEMMA GotoTypes ==
    ASSUME Types, NEW w \in Lane, NEW pc \in LanePc, Goto(w, pc), lane[w].pc # "idle",
           pc \in {"sending", "accepted", "refused", "advancing"} => lane[w].todo # {},
           UNCHANGED <<events, watermark, config, redriven>>,
           received' \subseteq Cursor,
           \/ UNCHANGED delivery
           \/ \E c \in Present, r \in DeliveryRow : delivery' = [delivery EXCEPT ![c] = r]
    PROVE  Types'
<1> DEFINE l == [lane[w] EXCEPT !.pc = pc]
<1>1. lane[w] \in LaneRow /\ lane[w].generation \in Generation /\ lane[w].todo \subseteq Present
  BY DEF Types
<1>2. l \in LaneRow /\ l.pc = pc /\ l.generation = lane[w].generation /\ l.todo = lane[w].todo
  BY <1>1 DEF LaneRow
<1>3. lane' = [lane EXCEPT ![w] = l]
  BY DEF Goto, Types
<1> HIDE DEF l
<1>4. QED
  BY <1>1, <1>2, <1>3, LaneTypes

LEMMA DoneTypes ==
    ASSUME Types, NEW w \in Lane, Done(w), lane[w].pc # "idle",
           UNCHANGED <<log, watermark, config, redriven>>,
           \/ UNCHANGED delivery
           \/ \E c \in Present, r \in DeliveryRow : delivery' = [delivery EXCEPT ![c] = r]
    PROVE  Types'
<1> DEFINE l == [lane[w] EXCEPT !.todo = @ \ {Target(w)}, !.pc = "next"]
<1>1. lane[w] \in LaneRow /\ lane[w].generation \in Generation /\ lane[w].todo \subseteq Present
  BY DEF Types
<1>2. /\ l \in LaneRow /\ l.pc = "next" /\ l.generation = lane[w].generation
      /\ l.todo \subseteq lane[w].todo
  BY <1>1 DEF LaneRow, LanePc
<1>3. lane' = [lane EXCEPT ![w] = l]
  BY DEF Done, Types
<1>4. received' \subseteq Cursor
  BY DEF Types, TypeOK, log
<1> HIDE DEF l
<1>5. QED
  BY <1>1, <1>2, <1>3, <1>4, LaneTypes DEF log

LEMMA ReadTypes ==
    ASSUME Types, NEW w \in Lane, ReadWebhook(w) \/ ReadSecret(w)
    PROVE  Types'
<1>1. CASE ReadWebhook(w)
  <2> DEFINE pc == IF webhook.status = "active" THEN "opening" ELSE "dead"
  <2> DEFINE l == [lane[w] EXCEPT !.pc = pc, !.secret = webhook.secret]
  <2>1. lane[w] \in LaneRow /\ lane[w].generation \in Generation /\ lane[w].todo \subseteq Present
        /\ webhook.secret \in Nat
    BY <1>1 DEF Types, TypeOK, ReadWebhook
  <2>2. l \in LaneRow /\ l.pc \in {"opening", "dead"} /\ l.generation = lane[w].generation
        /\ l.todo = lane[w].todo
    BY <2>1 DEF LaneRow, LanePc
  <2>3. lane' = [lane EXCEPT ![w] = l] /\ UNCHANGED <<log, delivery, watermark, config, redriven>>
    BY <1>1 DEF ReadWebhook, Types
  <2>4. received' \subseteq Cursor
    BY <2>3 DEF Types, TypeOK, log
  <2> HIDE DEF l
  <2>5. QED
    BY <2>1, <2>2, <2>3, <2>4, LaneTypes DEF log
<1>2. CASE ReadSecret(w)
  <2>1. \E pc \in LanePc : Goto(w, pc) /\ pc \in {"loading", "dead"}
    BY <1>2 DEF ReadSecret, LanePc
  <2>2. UNCHANGED <<log, delivery, watermark, config, redriven>> /\ lane[w].pc # "idle"
    BY <1>2 DEF ReadSecret
  <2>3. QED
    BY <2>1, <2>2, GotoTypes DEF log, Types, TypeOK
<1>3. QED
  BY <1>1, <1>2

LEMMA LowestIsFinite ==
    ASSUME NEW S \in SUBSET Cursor, NEW k
    PROVE  IsFiniteSet(Lowest(S, k)) /\ Lowest(S, k) \subseteq S
           /\ Cardinality(Lowest(S, k)) \in Nat
<1>1. IsFiniteSet(Cursor)
  BY FS_Interval, Bounds
<1>2. Lowest(S, k) \subseteq S /\ Lowest(S, k) \in SUBSET Cursor
  BY DEF Lowest
<1>3. QED
  BY <1>1, <1>2, FS_Subset, FS_CardinalityType

LEMMA LoadTypes ==
    ASSUME Types, NEW w \in Lane, Load(w)
    PROVE  Types'
<1> DEFINE g    == lane[w].generation
           todo == Lowest(Behind(g), PageLimit)
           l    == [lane[w] EXCEPT !.pc = "next", !.cursor = watermark[g], !.todo = todo,
                                   !.left = PageLimit - Cardinality(todo)]
<1>1. lane[w] \in LaneRow /\ g \in Generation
  BY DEF Types, Load
<1>2. watermark[g] \in 0..MaxEvents
  BY <1>1 DEF Types, TypeOK
<1>3. Behind(g) \subseteq Present /\ Behind(g) \in SUBSET Cursor
  BY Bounds DEF Behind, Pending, Types, Present
<1>4. todo \subseteq Present /\ todo \subseteq Cursor /\ PageLimit - Cardinality(todo) \in Int
  BY <1>3, LowestIsFinite, Bounds
<1> HIDE DEF todo
<1>5. l \in LaneRow /\ l.pc = "next" /\ l.generation = g /\ l.todo = todo
  BY <1>1, <1>2, <1>4 DEF LaneRow, LanePc
<1>6. lane' = [lane EXCEPT ![w] = l] /\ UNCHANGED <<log, delivery, watermark, config, redriven>>
  BY DEF Load, Types, todo
<1>7. received' \subseteq Cursor
  BY <1>6 DEF Types, TypeOK, log
<1> HIDE DEF l
<1>8. QED
  BY <1>1, <1>4, <1>5, <1>6, <1>7, LaneTypes DEF log

Page(w) == {c \in Present : Seen(c) /\ events[c].generation = lane[w].generation
                                    /\ c > lane[w].cursor}

LEMMA ListPageTypes ==
    ASSUME Types, NEW w \in Lane, ListPage(w)
    PROVE  Types'
<1> DEFINE todo == Lowest(Page(w), lane[w].left)
           l    == [lane[w] EXCEPT !.phase = "page", !.todo = todo]
<1>1. /\ lane[w] \in LaneRow /\ lane[w].generation \in Generation /\ lane[w].pc = "next"
      /\ Len(events) <= MaxEvents
  BY DEF Types, ListPage
<1>2. Page(w) \subseteq Present /\ Page(w) \in SUBSET Cursor
  BY <1>1, Bounds DEF Page, Present, Types, TypeOK
<1>3. todo \subseteq Present /\ todo \subseteq Cursor
  BY <1>2, LowestIsFinite
<1>4. lane' = [lane EXCEPT ![w] = l] /\ UNCHANGED <<log, delivery, watermark, config, redriven>>
  BY DEF ListPage, Types, Page, Present
<1> HIDE DEF todo
<1>5. l \in LaneRow /\ l.pc = "next" /\ l.generation = lane[w].generation /\ l.todo = todo
  BY <1>1, <1>3 DEF LaneRow
<1>6. received' \subseteq Cursor
  BY <1>4 DEF Types, TypeOK, log
<1> HIDE DEF l
<1>7. QED
  BY <1>1, <1>3, <1>4, <1>5, <1>6, LaneTypes DEF log

\* What a claim, a failure and a completion write.
LEMMA WrittenTypes ==
    ASSUME NEW r \in DeliveryRow, NEW w \in Lane
    PROVE  /\ Claimable(r) \in DeliveryRow
           /\ CanClaim(r) =>
                [status |-> "delivering", tries |-> r.tries + 1, due |-> FALSE,
                 owner |-> w, expired |-> FALSE] \in DeliveryRow
           /\ [NoRow EXCEPT !.status = "delivered", !.tries = r.tries] \in DeliveryRow
           /\ [NoRow EXCEPT !.status = "pending", !.tries = r.tries] \in DeliveryRow
           /\ DeadRow(r) \in DeliveryRow
<1>1. r.tries \in 0..MaxTries /\ NoRow \in DeliveryRow /\ NewRow \in DeliveryRow
  BY NewRowTypes DEF DeliveryRow
<1>2. ASSUME NEW status \in {"pending", "delivered", "dead_lettered"}
      PROVE  [NoRow EXCEPT !.status = status, !.tries = r.tries] \in DeliveryRow
  BY <1>1 DEF DeliveryRow
<1>3. DeadRow(r) \in DeliveryRow
  BY <1>2 DEF DeadRow
<1>4. Claimable(r) \in DeliveryRow
  BY <1>1, <1>3 DEF Claimable
<1>5. CanClaim(r) => r.tries + 1 \in 0..MaxTries
  BY <1>1, Bounds DEF CanClaim
<1>6. ASSUME CanClaim(r)
      PROVE  [status |-> "delivering", tries |-> r.tries + 1, due |-> FALSE,
              owner |-> w, expired |-> FALSE] \in DeliveryRow
  BY <1>5, <1>6 DEF DeliveryRow
<1>7. QED
  BY <1>2, <1>3, <1>4, <1>6

LEMMA SettledTypes ==
    ASSUME Types, NEW w \in Lane, Settled(w), lane[w].pc # "idle", lane[w].todo # {},
           UNCHANGED <<log, watermark, config, redriven>>,
           \/ UNCHANGED delivery
           \/ \E c \in Present, r \in DeliveryRow : delivery' = [delivery EXCEPT ![c] = r]
    PROVE  Types'
<1>1. CASE Goto(w, "advancing")
  <2>1. received' \subseteq Cursor /\ "advancing" \in LanePc
    BY DEF Types, TypeOK, log, LanePc
  <2>2. QED
    BY <1>1, <2>1, GotoTypes DEF log
<1>2. CASE Done(w)
  BY <1>2, DoneTypes
<1>3. QED
  BY <1>1, <1>2 DEF Settled

LEMMA ClaimTypes ==
    ASSUME Types, NEW w \in Lane, ClaimDelivery(w)
    PROVE  Types'
<1> DEFINE c == Target(w)
           r == Claimable(delivery[c])
<1>1. /\ c \in Present /\ c \in Cursor /\ r \in DeliveryRow
      /\ lane[w].pc # "idle" /\ lane[w].todo # {}
      /\ UNCHANGED <<log, watermark, config, redriven>>
  <2>1. lane[w].todo # {} /\ lane[w].pc = "next" /\ UNCHANGED <<log, watermark, config, redriven>>
    BY DEF ClaimDelivery
  <2>2. c \in Present /\ c \in Cursor
    BY <2>1, TargetTypes DEF Types, LaneRow
  <2>3. delivery[c] \in DeliveryRow
    BY <2>2 DEF Types, TypeOK
  <2>4. QED
    BY <2>1, <2>2, <2>3, WrittenTypes
<1>2. received' \subseteq Cursor
  BY <1>1 DEF Types, TypeOK, log
<1>3. CASE CanClaim(r) /\ Goto(w, "sending")
            /\ delivery' = [delivery EXCEPT ![c] =
                  [status |-> "delivering", tries |-> r.tries + 1, due |-> FALSE,
                   owner |-> w, expired |-> FALSE]]
  <2>1. "sending" \in LanePc
    BY DEF LanePc
  <2> HIDE DEF c, r
  <2>2. \E d \in Present, s \in DeliveryRow : delivery' = [delivery EXCEPT ![d] = s]
    BY <1>1, <1>3, WrittenTypes
  <2>3. QED
    BY <1>1, <1>2, <1>3, <2>1, <2>2, GotoTypes DEF log
<1>4. CASE delivery' = [delivery EXCEPT ![c] = r] /\ (Settled(w) \/ Finish(w))
  <2> HIDE DEF c, r
  <2>1. QED
    BY <1>1, <1>4, SettledTypes, FinishTypes
<1>5. QED
  BY <1>3, <1>4 DEF ClaimDelivery

LEMMA EndpointTypes ==
    ASSUME Types, NEW w \in Lane, EndpointAccepts(w) \/ EndpointRefuses(w) \/ SkipEvent(w)
    PROVE  Types'
<1>1. \E pc \in {"accepted", "refused", "advancing"} : Goto(w, pc)
  BY DEF EndpointAccepts, EndpointRefuses, SkipEvent
<1>2. /\ lane[w].pc \in {"sending", "next"} /\ lane[w].todo # {}
      /\ UNCHANGED <<events, delivery, watermark, config, redriven>>
  BY HasTarget DEF EndpointAccepts, EndpointRefuses, SkipEvent, log
<1>3. Target(w) \in Cursor
  BY <1>2, TargetTypes DEF Types, LaneRow
<1>4. received' \subseteq Cursor
  BY <1>3 DEF EndpointAccepts, EndpointRefuses, SkipEvent, log, Types, TypeOK
<1>5. QED
  BY <1>1, <1>2, <1>4, GotoTypes DEF LanePc

LEMMA CompleteTypes ==
    ASSUME Types, NEW w \in Lane, CompleteDelivery(w)
    PROVE  Types'
<1>1. /\ lane[w].pc = "accepted" /\ lane[w].todo # {}
      /\ UNCHANGED <<log, watermark, config, redriven>>
  BY HasTarget DEF CompleteDelivery
<1>2. Target(w) \in Present /\ delivery[Target(w)] \in DeliveryRow
  BY <1>1, TargetTypes DEF Types, TypeOK, LaneRow
<1>3. CASE HoldsClaim(w)
  <2>1. /\ delivery' = [delivery EXCEPT ![Target(w)] =
                 [NoRow EXCEPT !.status = "delivered", !.tries = delivery[Target(w)].tries]]
        /\ Settled(w)
    BY <1>3 DEF CompleteDelivery
  <2>2. QED
    BY <1>1, <1>2, <2>1, WrittenTypes, SettledTypes
<1>4. CASE ~HoldsClaim(w)
  <2>1. Goto(w, "refused") /\ UNCHANGED delivery
    BY <1>4 DEF CompleteDelivery
  <2>2. received' \subseteq Cursor /\ "refused" \in LanePc
    BY <1>1 DEF Types, TypeOK, log, LanePc
  <2>3. QED
    BY <1>1, <2>1, <2>2, GotoTypes DEF log
<1>5. QED
  BY <1>3, <1>4

LEMMA FailTypes ==
    ASSUME Types, NEW w \in Lane, FailDelivery(w)
    PROVE  Types'
<1>1. /\ lane[w].pc = "refused" /\ lane[w].todo # {} /\ Finish(w)
      /\ UNCHANGED <<log, watermark, config, redriven>>
  BY HasTarget DEF FailDelivery
<1>2. Target(w) \in Present /\ delivery[Target(w)] \in DeliveryRow
  BY <1>1, TargetTypes DEF Types, TypeOK, LaneRow
<1>3. \/ UNCHANGED delivery
      \/ \E c \in Present, r \in DeliveryRow : delivery' = [delivery EXCEPT ![c] = r]
  BY <1>2, WrittenTypes DEF FailDelivery
<1>4. QED
  BY <1>1, <1>3, FinishTypes

LEMMA HighWater ==
    ASSUME Types, NEW g \in Generation, NEW c \in Cursor
    PROVE  /\ Advanced(g, c) \in {watermark[g], c}
           /\ watermark[g] <= Advanced(g, c) /\ c <= Advanced(g, c)
           /\ Advanced(g, c) \in 0..MaxEvents
<1>1. watermark[g] \in 0..MaxEvents /\ watermark[g] \in Int /\ c \in Int /\ c \in 0..MaxEvents
  BY Bounds DEF Types, TypeOK
<1>2. QED
  BY <1>1, MaxOfTwo DEF Advanced

LEMMA AdvanceTypes ==
    ASSUME Types, NEW w \in Lane, AdvanceCursor(w)
    PROVE  Types'
<1> DEFINE g == lane[w].generation
           high == Advanced(g, Target(w))
           l == [lane[w] EXCEPT !.cursor = high, !.pc = "next", !.todo = @ \ {Target(w)}]
<1>1. /\ lane[w].pc = "advancing" /\ lane[w].todo # {}
      /\ UNCHANGED <<log, delivery, config, redriven>>
  BY HasTarget DEF AdvanceCursor
<1>2. /\ lane[w] \in LaneRow /\ g \in Generation /\ lane[w].todo \subseteq Present
  BY <1>1 DEF Types
<1>3. received' \subseteq Cursor
  BY <1>1 DEF Types, TypeOK, log
<1>4. CASE webhook.status = "deleted"
  <2>1. Goto(w, "dead") /\ UNCHANGED watermark /\ "dead" \in LanePc
    BY <1>4 DEF AdvanceCursor, LanePc
  <2>2. QED
    BY <1>1, <1>3, <2>1, GotoTypes DEF log
<1>5. CASE webhook.status # "deleted"
  <2>1. high \in 0..MaxEvents
    BY <1>1, <1>2, TargetTypes, HighWater DEF LaneRow
  <2>2. /\ lane' = [lane EXCEPT ![w] = l] /\ watermark' = [watermark EXCEPT ![g] = high]
    BY <1>5 DEF AdvanceCursor, Types
  <2> HIDE DEF high
  <2>3. l \in LaneRow /\ l.pc = "next" /\ l.generation = g /\ l.todo \subseteq lane[w].todo
    BY <1>2, <2>1 DEF LaneRow, LanePc
  <2> HIDE DEF l
  <2>4. QED
    BY <1>1, <1>2, <1>3, <2>1, <2>2, <2>3, LaneTypes DEF log
<1>6. QED
  BY <1>4, <1>5

LEMMA NextTypes == Types /\ [Next]_vars => Types'
<1> SUFFICES ASSUME Types, [Next]_vars PROVE Types'
  OBVIOUS
<1>1. ASSUME NEW w \in Lane, LaneStep(w) PROVE Types'
  BY <1>1, FindTypes, ReadTypes, LoadTypes, ListPageTypes, FinishTypes, EndpointTypes, ClaimTypes,
     CompleteTypes, FailTypes, AdvanceTypes DEF LaneStep, Deliver, Return
<1>2. ASSUME NEW w \in Lane, Crash(w) \/ Restart(w) PROVE Types'
  BY <1>2, FinishTypes DEF Crash, Restart
<1>3. CASE UNCHANGED vars
  BY <1>3 DEF vars, log, config, Types, TypeOK, Present
<1>4. QED
  BY <1>1, <1>2, <1>3, LogTypes, HostTypes, TimeTypes DEF Next

\* Whatever the lanes, the host and time do, every row, cursor and lane keeps its type, and a
\* lane works on a generation of the log and on events in it.
THEOREM WebhookTypesAreKept == Spec => []Types
BY InitTypes, NextTypes, PTL DEF Spec

(***************************************************************************)
(* What a step does to the delivery rows, and to the other lanes           *)
(***************************************************************************)
Moves(w) == LaneStep(w) \/ Crash(w) \/ Restart(w)

RowsGoOn ==
    /\ \A c \in Cursor :
         /\ delivery[c].status = "delivered" => delivery'[c] = delivery[c]
         /\ delivery[c].status = "dead_lettered" =>
              delivery'[c].status = "dead_lettered" \/ c \in redriven'
         /\ delivery'[c].status = "delivered" =>
              \/ delivery[c].status = "delivered"
              \/ \E w \in Lane : lane[w].pc = "accepted" /\ lane[w].todo # {} /\ Target(w) = c
         /\ delivery[c].tries = 0 /\ delivery'[c].tries = 1 =>
              \E w \in Lane : /\ lane[w].pc = "next" /\ lane[w].todo # {} /\ Target(w) = c
    /\ redriven \subseteq redriven'
    /\ received \subseteq received'

LEMMA SameRows ==
    ASSUME Types, UNCHANGED <<delivery, redriven>>, received \subseteq received' PROVE RowsGoOn
BY DEF RowsGoOn, Types, TypeOK, DeliveryRow

\* A step that writes one row.
LEMMA OneRow ==
    ASSUME Types, NEW c \in Cursor, NEW r \in DeliveryRow,
           delivery' = [delivery EXCEPT ![c] = r],
           delivery[c].status = "delivered" => r = delivery[c],
           delivery[c].status = "dead_lettered" => r.status = "dead_lettered" \/ c \in redriven',
           r.status = "delivered" =>
              \/ delivery[c].status = "delivered"
              \/ \E w \in Lane : lane[w].pc = "accepted" /\ lane[w].todo # {} /\ Target(w) = c,
           delivery[c].tries = 0 /\ r.tries = 1 =>
              \E w \in Lane : lane[w].pc = "next" /\ lane[w].todo # {} /\ Target(w) = c,
           redriven \subseteq redriven', received \subseteq received'
    PROVE  RowsGoOn
<1>1. \A d \in Cursor : delivery'[d] = IF d = c THEN r ELSE delivery[d]
  BY DEF Types, TypeOK
<1>2. \A d \in Cursor : delivery[d].tries \in 0..MaxTries
  BY DEF Types, TypeOK, DeliveryRow
<1>3. QED
  BY <1>1, <1>2 DEF RowsGoOn

LEMMA OneOpenRow ==
    ASSUME Types, NEW c \in Cursor, NEW r \in DeliveryRow,
           delivery' = [delivery EXCEPT ![c] = r],
           delivery[c].status # "delivered",
           delivery[c].status = "dead_lettered" => c \in redriven',
           r.status = "delivered" =>
              \E w \in Lane : lane[w].pc = "accepted" /\ lane[w].todo # {} /\ Target(w) = c,
           r.tries \in {0, delivery[c].tries},
           redriven \subseteq redriven', received \subseteq received'
    PROVE  RowsGoOn
<1>1. ~(delivery[c].tries = 0 /\ r.tries = 1)
  OBVIOUS
<1>2. QED
  BY <1>1, OneRow

LEMMA HostRows == Types /\ HostStep => RowsGoOn
<1> SUFFICES ASSUME Types, HostStep PROVE RowsGoOn
  OBVIOUS
<1>1. ASSUME NEW c \in Cursor, Redrive(c) PROVE RowsGoOn
  <2>1. /\ delivery[c].status = "dead_lettered" /\ delivery' = [delivery EXCEPT ![c] = NewRow]
        /\ redriven' = redriven \cup {c} /\ UNCHANGED received
    BY <1>1 DEF Redrive, log
  <2>2. NewRow \in DeliveryRow /\ NewRow.status = "pending" /\ NewRow.tries = 0
    BY NewRowTypes DEF NewRow, NoRow
  <2>3. QED
    BY <2>1, <2>2, OneOpenRow
<1>2. CASE UNCHANGED <<delivery, redriven, received>>
  BY <1>2, SameRows
<1>3. QED
  BY <1>1, <1>2 DEF HostStep, SetStatus, RotateSecret, DropSecret, DropFails, log

LEMMA TimeRows == Types /\ Time => RowsGoOn
<1> SUFFICES ASSUME Types, NEW c \in Cursor, RetryDue(c) \/ LeaseRunsOut(c) PROVE RowsGoOn
  BY DEF Time
<1>1. delivery[c] \in DeliveryRow
  BY DEF Types, TypeOK
<1>2. \E r \in DeliveryRow : /\ delivery' = [delivery EXCEPT ![c] = r]
                             /\ r.status = delivery[c].status /\ r.tries = delivery[c].tries
  <2>1. ASSUME NEW row \in DeliveryRow
        PROVE  /\ [row EXCEPT !.due = TRUE] \in DeliveryRow
               /\ [row EXCEPT !.expired = TRUE] \in DeliveryRow
               /\ [row EXCEPT !.due = TRUE].status = row.status
               /\ [row EXCEPT !.due = TRUE].tries = row.tries
               /\ [row EXCEPT !.expired = TRUE].status = row.status
               /\ [row EXCEPT !.expired = TRUE].tries = row.tries
    BY DEF DeliveryRow
  <2>2. \/ delivery' = [delivery EXCEPT ![c] = [delivery[c] EXCEPT !.due = TRUE]]
        \/ delivery' = [delivery EXCEPT ![c] = [delivery[c] EXCEPT !.expired = TRUE]]
    BY DEF RetryDue, LeaseRunsOut, Types, TypeOK
  <2>3. QED
    BY <1>1, <2>1, <2>2
<1>3. delivery[c].status \in {"pending", "delivering"} /\ UNCHANGED <<redriven, received>>
  BY DEF RetryDue, LeaseRunsOut, Pending, InFlight, log
<1>4. QED
  BY <1>2, <1>3, OneOpenRow

LEMMA ClaimRows ==
    ASSUME Types, NEW w \in Lane, ClaimDelivery(w)
    PROVE  RowsGoOn
<1> DEFINE c == Target(w)
           r == Claimable(delivery[c])
           claimed == [status |-> "delivering", tries |-> r.tries + 1, due |-> FALSE,
                       owner |-> w, expired |-> FALSE]
<1>1. /\ lane[w].pc = "next" /\ lane[w].todo # {} /\ UNCHANGED <<redriven, received>>
  BY DEF ClaimDelivery, log
<1>2. c \in Cursor /\ delivery[c] \in DeliveryRow
  BY <1>1, TargetTypes DEF Types, TypeOK, LaneRow
<1>3. r \in DeliveryRow /\ (CanClaim(r) => claimed \in DeliveryRow)
  BY <1>2, WrittenTypes
<1>4. /\ delivery[c].status = "delivered" => r = delivery[c]
      /\ delivery[c].status = "dead_lettered" => r = delivery[c]
      /\ r.status = "delivered" => delivery[c].status = "delivered"
  BY <1>2 DEF Claimable, DeadRow, NewRow, NoRow, DeliveryRow
<1> HIDE DEF c, r
<1>5. CASE CanClaim(r) /\ delivery' = [delivery EXCEPT ![c] = claimed]
  <2>1. r.status \in {"pending", "delivering"}
    BY <1>5 DEF CanClaim
  <2>2. claimed.status = "delivering"
    OBVIOUS
  <2> HIDE DEF claimed
  <2>3. QED
    BY <1>1, <1>2, <1>3, <1>4, <1>5, <2>1, <2>2, OneRow DEF c
<1>6. CASE delivery' = [delivery EXCEPT ![c] = r]
  BY <1>1, <1>2, <1>3, <1>4, <1>6, OneRow DEF c
<1>7. QED
  BY <1>5, <1>6 DEF ClaimDelivery, c, r

LEMMA OutcomeRows ==
    ASSUME Types, NEW w \in Lane, CompleteDelivery(w) \/ FailDelivery(w)
    PROVE  RowsGoOn
<1>1. /\ lane[w].pc \in {"accepted", "refused"} /\ lane[w].todo # {}
      /\ UNCHANGED <<redriven, received>>
  BY HasTarget DEF CompleteDelivery, FailDelivery, log
<1>2. Target(w) \in Cursor /\ delivery[Target(w)] \in DeliveryRow
  BY <1>1, TargetTypes DEF Types, TypeOK, LaneRow
<1>3. CASE UNCHANGED delivery
  BY <1>1, <1>3, SameRows
<1>4. CASE HoldsClaim(w) /\ CompleteDelivery(w)
  <2> DEFINE r == [NoRow EXCEPT !.status = "delivered", !.tries = delivery[Target(w)].tries]
  <2>1. r \in DeliveryRow /\ r.status = "delivered" /\ r.tries = delivery[Target(w)].tries
    BY <1>2, WrittenTypes DEF NoRow
  <2>2. delivery' = [delivery EXCEPT ![Target(w)] = r] /\ lane[w].pc = "accepted"
    BY <1>4 DEF CompleteDelivery
  <2>3. delivery[Target(w)].status = "delivering"
    BY <1>4 DEF HoldsClaim, InFlight
  <2> HIDE DEF r
  <2>4. QED
    BY <1>1, <1>2, <2>1, <2>2, <2>3, OneOpenRow
<1>5. CASE HoldsClaim(w) /\ FailDelivery(w)
  <2>1. delivery[Target(w)].status = "delivering"
    BY <1>5 DEF HoldsClaim, InFlight
  <2>2. \E r \in DeliveryRow : /\ delivery' = [delivery EXCEPT ![Target(w)] = r]
                               /\ r.status \in {"dead_lettered", "pending"}
                               /\ r.tries = delivery[Target(w)].tries
    BY <1>2, <1>5, WrittenTypes DEF FailDelivery, DeadRow, NoRow
  <2>3. QED
    BY <1>1, <1>2, <2>1, <2>2, OneOpenRow
<1>6. QED
  BY <1>3, <1>4, <1>5 DEF CompleteDelivery, FailDelivery

LEMMA NextRows == Types /\ [Next]_vars => RowsGoOn
<1> SUFFICES ASSUME Types, [Next]_vars PROVE RowsGoOn
  OBVIOUS
<1>1. CASE UNCHANGED <<delivery, redriven>> /\ received \subseteq received'
  BY <1>1, SameRows
<1>2. CASE UNCHANGED vars \/ LogStep
  BY <1>2, <1>1 DEF vars, log, LogStep, EndTransaction, BeginEvent, AppendGenerationEvent, Insert,
     EndEvent, CommitAppended
<1>3. ASSUME NEW w \in Lane, Moves(w) PROVE RowsGoOn
  <2>1. CASE ClaimDelivery(w) \/ CompleteDelivery(w) \/ FailDelivery(w)
    BY <2>1, ClaimRows, OutcomeRows
  <2>2. CASE ~(ClaimDelivery(w) \/ CompleteDelivery(w) \/ FailDelivery(w))
    BY <1>1, <1>3, <2>2 DEF Moves, LaneStep, Deliver, Find, ReadWebhook, ReadSecret, Load, ListPage,
       Return, SkipEvent, EndpointAccepts, EndpointRefuses, AdvanceCursor, Crash, Restart, log
  <2>3. QED
    BY <2>1, <2>2
<1>4. QED
  BY <1>2, <1>3, HostRows, TimeRows DEF Next, Moves

\* A lane stays where it is unless the step is its own.
LEMMA LanesMoveAlone ==
    ASSUME Types, [Next]_vars, NEW v \in Lane
    PROVE  lane'[v] = lane[v] \/ Moves(v)
<1>1. CASE UNCHANGED lane
  BY <1>1
<1>2. CASE \E w \in Lane : Moves(w)
  <2>1. PICK w \in Lane : Moves(w)
    BY <1>2
  <2>2. \E l : lane' = [lane EXCEPT ![w] = l]
    BY <2>1 DEF Moves, LaneStep, Deliver, Find, ReadWebhook, ReadSecret, Load, ListPage, Return,
       SkipEvent, ClaimDelivery, Settled, EndpointAccepts, EndpointRefuses, CompleteDelivery,
       FailDelivery, AdvanceCursor, Crash, Restart, Goto, Finish, Done, Types
  <2>3. v # w => lane'[v] = lane[v]
    BY <2>2 DEF Types
  <2>4. QED
    BY <2>1, <2>3
<1>3. QED
  BY <1>1, <1>2 DEF Next, LogStep, EndTransaction, BeginEvent, AppendGenerationEvent, Insert,
     EndEvent, CommitAppended, HostStep, SetStatus, RotateSecret, DropSecret, DropFails, Redrive,
     Time, RetryDue, LeaseRunsOut, Moves, vars

(***************************************************************************)
(* A delivered event stays delivered, and the endpoint has had it          *)
(***************************************************************************)
Told ==
    /\ \A c \in Cursor : delivery[c].status = "delivered" => c \in received
    /\ \A w \in Lane : lane[w].pc = "accepted" => Target(w) \in received

LEMMA AcceptedWasTold ==
    ASSUME Types, Told, [Next]_vars, NEW v \in Lane, lane'[v].pc = "accepted"
    PROVE  Target(v)' \in received'
<1>1. received \subseteq received'
  BY NextRows DEF RowsGoOn
<1>2. CASE lane'[v] = lane[v]
  BY <1>1, <1>2 DEF Told, Target
<1>3. CASE EndpointAccepts(v)
  <2>1. lane'[v].todo = lane[v].todo /\ received' = received \cup {Target(v)}
    BY <1>3 DEF EndpointAccepts, Goto, Types, LaneRow
  <2>2. QED
    BY <2>1 DEF Target
<1>4. CASE Moves(v) /\ ~EndpointAccepts(v)
  <2>1. lane[v] \in LaneRow
    BY DEF Types
  <2>2. CASE Find(v) \/ Return(v) \/ FailDelivery(v) \/ Crash(v) \/ Restart(v)
    <3>1. \/ \E g : lane' = [lane EXCEPT ![v] = [Idle EXCEPT !.pc = "found", !.generation = g]]
          \/ lane' = [lane EXCEPT ![v] = Idle]
      BY <2>2 DEF Find, Return, FailDelivery, Crash, Restart, Finish
    <3>2. Idle.pc = "idle" /\ \A g : [Idle EXCEPT !.pc = "found", !.generation = g].pc = "found"
      BY DEF Idle
    <3>3. lane'[v].pc \in {"idle", "found"}
      BY <3>1, <3>2 DEF Types
    <3>4. QED
      BY <3>3
  <2>3. CASE ReadWebhook(v) \/ ReadSecret(v)
    BY <2>1, <2>3 DEF ReadWebhook, ReadSecret, Goto, Types, LaneRow
  <2>4. CASE Load(v) \/ ListPage(v)
    BY <2>1, <2>4 DEF Load, ListPage, Types, LaneRow
  <2>5. CASE SkipEvent(v) \/ EndpointRefuses(v) \/ AdvanceCursor(v)
    BY <2>1, <2>5 DEF SkipEvent, EndpointRefuses, AdvanceCursor, Goto, Types, LaneRow
  <2>6. CASE ClaimDelivery(v) \/ CompleteDelivery(v)
    <3>1. Goto(v, "sending") \/ Goto(v, "advancing") \/ Goto(v, "refused") \/ Done(v) \/ Finish(v)
      BY <2>6 DEF ClaimDelivery, CompleteDelivery, Settled
    <3>2. QED
      BY <2>1, <3>1 DEF Goto, Done, Finish, Idle, Types, LaneRow
  <2>7. QED
    BY <1>4, <2>2, <2>3, <2>4, <2>5, <2>6 DEF Moves, LaneStep, Deliver
<1>5. QED
  BY <1>2, <1>3, <1>4, LanesMoveAlone

LEMMA ToldStep ==
    Types /\ Told /\ [Next]_vars =>
      /\ Told'
      /\ \A c \in Cursor :
           /\ delivery[c].status = "delivered" => delivery'[c] = delivery[c]
           /\ delivery'[c].status = "delivered" => c \in received
<1> SUFFICES ASSUME Types, Told, [Next]_vars
             PROVE  /\ Told'
                    /\ \A c \in Cursor :
                         /\ delivery[c].status = "delivered" => delivery'[c] = delivery[c]
                         /\ delivery'[c].status = "delivered" => c \in received
  OBVIOUS
<1>1. RowsGoOn
  BY NextRows
<1>2. \A c \in Cursor : delivery'[c].status = "delivered" => c \in received
  BY <1>1 DEF RowsGoOn, Told
<1>3. QED
  BY <1>1, <1>2, AcceptedWasTold DEF RowsGoOn, Told

\* completeOutboundEventDelivery and failOutboundEventDelivery match the lease they hold: for
\* any lanes, crashes, lost leases and redrives, nothing changes the row of an event that was
\* recorded as delivered, and the endpoint has accepted every such event.
THEOREM DeliveredStays == Spec => DeliveredForGood
<1>1. Init => Told
  BY DEF Init, Told, NoRow, Idle
<1>2. Types /\ Told /\ [Next]_vars =>
        [\A c \in Cursor :
           /\ delivery[c].status = "delivered" => delivery'[c] = delivery[c]
           /\ delivery'[c].status = "delivered" => c \in received]_vars
  BY ToldStep
<1>3. QED
  BY InitTypes, NextTypes, ToldStep, <1>1, <1>2, PTL DEF Spec, DeliveredForGood

(***************************************************************************)
(* The watermark and the order of a generation                             *)
(***************************************************************************)
WatermarksAreSeen ==
    \A g \in Generation :
        watermark[g] # 0 => /\ watermark[g] \in Present /\ Seen(watermark[g])
                            /\ events[watermark[g]].generation = g

\* An event of g the endpoint is still to have, and that was not late.
Open(c, g) == InTime(c) /\ events[c].generation = g /\ c \notin redriven /\ ~IsSettled(c)

BehindIsSettled ==
    \A g \in Generation, c \in Cursor : Open(c, g) => watermark[g] < c

Busy == {"next", "sending", "accepted", "refused", "advancing"}

\* What a run of deliver() knows of the list it works through: pending deliveries are behind
\* the watermark; a page misses no open event before its end.
LaneOK(w) ==
    LET g    == lane[w].generation
        todo == lane[w].todo
    IN
    /\ lane[w].pc \in {"found", "opening", "loading"} => lane[w].phase = "pending"
    /\ lane[w].pc \in Busy =>
         /\ lane[w].cursor <= watermark[g]
         /\ lane[w].phase = "pending" =>
              \A t \in todo : events[t].generation = g /\ t <= watermark[g]
         /\ lane[w].phase = "page" =>
              /\ \A t \in todo : Seen(t) /\ events[t].generation = g
              /\ \A c \in Cursor : Open(c, g) => c \in todo \/ \A t \in todo : t < c
         /\ lane[w].pc = "advancing" => lane[w].phase = "page" /\ ~Open(Target(w), g)

OrderInv == WatermarksAreSeen /\ BehindIsSettled /\ \A w \in Lane : LaneOK(w)

\* What every step does to the log, the watermarks and the open events: an event that becomes
\* open comes after every event of its generation that was seen before it, or it is late.
LogGoesOn ==
    /\ \A c \in Present :
         /\ c \in Present' /\ events'[c].generation = events[c].generation
         /\ events'[c].selected = events[c].selected
         /\ Seen(c) => Seen(c)'
    /\ \A g \in Generation : watermark[g] <= watermark'[g]
    /\ \A c \in Cursor, g \in Generation :
         Open(c, g)' => \/ Open(c, g)
                        \/ \A t \in Present : Seen(t) /\ events[t].generation = g => t < c

LEMMA InsertGoesOn ==
    ASSUME Types, NEW g \in Generation, NEW selected \in BOOLEAN,
           BeginEvent(g, selected) \/ AppendGenerationEvent(g, selected)
    PROVE  LogGoesOn
<1> DEFINE n == Len(events) + 1
<1>1. PICK state \in {"locked", "unlocked"} : Insert(g, selected, state)
  BY DEF BeginEvent, AppendGenerationEvent
<1>2. /\ Len(events) \in Nat /\ Len(events') = n
      /\ \A c \in Present : c \in Nat /\ c < n /\ c \in Present' /\ events'[c] = events[c]
      /\ events'[n] = [generation |-> g, selected |-> selected, state |-> state, late |-> FALSE]
      /\ \A c \in Present' : c \in Present \/ c = n
  BY <1>1 DEF Insert, Types, TypeOK, Present
<1>3. UNCHANGED <<delivery, watermark, redriven>>
  BY <1>1 DEF Insert
<1>4. \A c \in Cursor : Seen(c)' => Seen(c) /\ c \in Present
  BY <1>2, Bounds DEF Seen, Present
<1>5. \A c \in Present : Seen(c) => Seen(c)'
  BY <1>2 DEF Seen, Present
<1>6. \A h \in Generation : watermark[h] <= watermark'[h]
  BY <1>3, Bounds DEF Types, TypeOK
<1>7. \A c \in Cursor, h \in Generation : Open(c, h)' => Open(c, h)
  BY <1>2, <1>3, <1>4 DEF Open, InTime, Wanted, IsSettled
<1>8. QED
  BY <1>2, <1>5, <1>6, <1>7 DEF LogGoesOn

LEMMA EndGoesOn ==
    ASSUME Types, EndTransaction
    PROVE  LogGoesOn
<1>1. PICK c \in Present, state \in {"committed", "rolled_back"} :
         End(c, state) /\ events[c].state \in {"locked", "unlocked"}
  BY DEF EndTransaction, CommitAppended, EndEvent, Present
<1>2. UNCHANGED <<delivery, watermark, redriven>>
  BY DEF EndTransaction, CommitAppended, EndEvent
<1> DEFINE over == Overtaken(c)
<1>3. /\ Len(events') = Len(events) /\ Present' = Present /\ Len(events) \in Nat
      /\ \A d \in Present : /\ events'[d].generation = events[d].generation
                            /\ events'[d].selected = events[d].selected
                            /\ events'[d].state = IF d = c THEN state ELSE events[d].state
                            /\ d # c => events'[d] = events[d]
      /\ events'[c].late = over
  <2> HIDE DEF over
  <2>1. events \in Seq([generation: Generation, selected: BOOLEAN,
                       state: {"locked", "unlocked", "committed", "rolled_back"},
                       late: BOOLEAN])
    BY DEF Types, TypeOK
  <2>2. events' = [events EXCEPT ![c] = [events[c] EXCEPT !.state = state, !.late = over]]
    BY <1>1 DEF End, over
  <2>3. Len(events') = Len(events) /\ Len(events) \in Nat
    BY <2>1, <2>2
  <2>4. \A d \in Present : events'[d] = IF d = c
                                          THEN [events[c] EXCEPT !.state = state, !.late = over]
                                          ELSE events[d]
    BY <2>1, <2>2 DEF Present
  <2>5. \A d \in Present : events[d] \in [generation: Generation, selected: BOOLEAN,
                                state: {"locked", "unlocked", "committed", "rolled_back"},
                                late: BOOLEAN]
    BY EventTypes
  <2>6. /\ events[c] \in [generation: Generation, selected: BOOLEAN,
                          state: {"locked", "unlocked", "committed", "rolled_back"},
                          late: BOOLEAN]
        /\ events'[c] = [events[c] EXCEPT !.state = state, !.late = over]
    BY <1>1, <2>4, <2>5
  <2>7. /\ events'[c].generation = events[c].generation
        /\ events'[c].selected = events[c].selected /\ events'[c].state = state
        /\ events'[c].late = over
    BY <2>6
  <2>8. QED
    BY <2>3, <2>4, <2>7 DEF Present
\* Nobody of its generation after c has been seen, unless c is late.
<1>4. \A d \in Present : ~over /\ Seen(d) /\ events[d].generation = events[c].generation
                           /\ d # c => d < c
  BY <1>1, <1>3 DEF Overtaken, Present
<1>5. \A d \in Cursor : Seen(d)' => Seen(d) \/ d = c
  BY <1>1, <1>3, Bounds DEF Seen, Present
<1>6. \A d \in Present : Seen(d) => Seen(d)' /\ d # c
  BY <1>1, <1>3 DEF Seen, Present
<1>7. \A d \in Cursor, g \in Generation :
        Open(d, g)' => \/ Open(d, g)
                       \/ \A t \in Present : Seen(t) /\ events[t].generation = g => t < d
  <2> SUFFICES ASSUME NEW d \in Cursor, NEW g \in Generation, Open(d, g)', ~Open(d, g)
               PROVE  \A t \in Present : Seen(t) /\ events[t].generation = g => t < d
    OBVIOUS
  <2>1. d \in Present
    BY <1>3, Bounds DEF Open, InTime, Wanted, Seen, Present
  <2>2. CASE d # c
    <3>1. events'[d] = events[d]
      BY <1>3, <2>1, <2>2
    <3>2. QED
      BY <1>2, <1>3, <2>1, <3>1 DEF Open, InTime, Wanted, IsSettled, Seen
  <2>3. CASE d = c
    <3>1. events[c].generation = g /\ ~over
      BY <1>3, <2>1, <2>3 DEF Open, InTime, Wanted
    <3>2. QED
      BY <1>4, <1>6, <2>3, <3>1
  <2>4. QED
    BY <2>2, <2>3
<1>8. \A h \in Generation : watermark[h] <= watermark'[h]
  BY <1>2, Bounds DEF Types, TypeOK
<1>9. QED
  BY <1>3, <1>6, <1>7, <1>8 DEF LogGoesOn

\* A step that leaves the log and the watermarks alone only settles events.
LEMMA SettlingGoesOn ==
    ASSUME Types, RowsGoOn, UNCHANGED <<events, watermark>>
    PROVE  LogGoesOn
<1>1. \A c \in Cursor : IsSettled(c) => IsSettled(c)' \/ c \in redriven'
  BY DEF RowsGoOn, IsSettled
<1>2. \A c \in Cursor, g \in Generation : Open(c, g)' => Open(c, g)
  BY <1>1 DEF Open, InTime, Wanted, Seen, RowsGoOn
<1>3. \A g \in Generation : watermark[g] <= watermark'[g]
  BY Bounds DEF Types, TypeOK
<1>4. QED
  BY <1>2, <1>3 DEF LogGoesOn, Seen, Present

LEMMA AdvanceGoesOn ==
    ASSUME Types, NEW w \in Lane, AdvanceCursor(w)
    PROVE  LogGoesOn
<1>1. UNCHANGED <<events, delivery, redriven>>
  BY DEF AdvanceCursor, log
<1>2. \A g \in Generation : watermark[g] <= watermark'[g]
  <2>1. lane[w].generation \in Generation /\ lane[w].todo # {}
    BY HasTarget DEF AdvanceCursor, Types
  <2>2. Target(w) \in Cursor
    BY <2>1, TargetTypes DEF Types, LaneRow
  <2>3. watermark[lane[w].generation] <= Advanced(lane[w].generation, Target(w))
    BY <2>1, <2>2, HighWater
  <2>4. \/ UNCHANGED watermark
        \/ watermark' = [watermark EXCEPT ![lane[w].generation] =
                           Advanced(lane[w].generation, Target(w))]
    BY DEF AdvanceCursor
  <2>5. QED
    BY <2>1, <2>3, <2>4, Bounds DEF Types, TypeOK
<1>3. QED
  BY <1>1, <1>2 DEF LogGoesOn, Open, InTime, Wanted, Seen, IsSettled, Present

LEMMA NextGoesOn ==
    ASSUME Types, [Next]_vars
    PROVE  LogGoesOn
<1>1. RowsGoOn
  BY NextRows
<1>2. CASE UNCHANGED events
  <2>1. CASE UNCHANGED watermark
    BY <1>1, <1>2, <2>1, SettlingGoesOn
  <2>2. CASE \E w \in Lane : AdvanceCursor(w)
    BY <2>2, AdvanceGoesOn
  <2>3. QED
    BY <2>1, <2>2 DEF Next, LogStep, EndTransaction, BeginEvent, AppendGenerationEvent, Insert,
       EndEvent, CommitAppended, HostStep, SetStatus, RotateSecret, DropSecret, DropFails, Redrive,
       Time, RetryDue, LeaseRunsOut, LaneStep, Deliver, Find, ReadWebhook, ReadSecret, Load,
       ListPage, Return, SkipEvent, ClaimDelivery, EndpointAccepts, EndpointRefuses,
       CompleteDelivery, FailDelivery, Crash, Restart, vars
<1>3. CASE LogStep
  BY <1>3, InsertGoesOn, EndGoesOn DEF LogStep
<1>4. QED
  BY <1>2, <1>3 DEF Next, HostStep, SetStatus, RotateSecret, DropSecret, DropFails, Redrive,
     Time, RetryDue, LeaseRunsOut, LaneStep, Deliver, Find, ReadWebhook, ReadSecret, Load,
     ListPage, Return, SkipEvent, ClaimDelivery, EndpointAccepts, EndpointRefuses,
     CompleteDelivery, FailDelivery, AdvanceCursor, Crash, Restart, log, vars

(***************************************************************************)
(* Each conjunct of OrderInv is kept                                       *)
(***************************************************************************)
\* The first entry of a page has no open event before it, and a pending delivery is behind
\* the watermark: whatever a lane handles, earlier events of its generation are settled.
LEMMA NothingOpenBefore ==
    ASSUME Types, OrderInv, NEW w \in Lane, lane[w].pc \in Busy, lane[w].todo # {},
           NEW c \in Cursor, Open(c, lane[w].generation)
    PROVE  ~(c < Target(w))
<1>1. /\ Target(w) \in lane[w].todo /\ Target(w) \in Nat /\ c \in Nat
      /\ \A t \in lane[w].todo : Target(w) <= t
  BY TargetTypes, Bounds DEF Types, LaneRow
<1>2. /\ lane[w].generation \in Generation /\ lane[w].phase \in {"pending", "page"}
      /\ watermark[lane[w].generation] \in Nat
  BY Bounds DEF Types, TypeOK, LaneRow, Busy
<1>3. CASE lane[w].phase = "pending"
  <2>1. Target(w) <= watermark[lane[w].generation]
    BY <1>1, <1>3 DEF OrderInv, LaneOK
  <2>2. watermark[lane[w].generation] < c
    BY <1>2 DEF OrderInv, BehindIsSettled
  <2>3. QED
    BY <1>1, <1>2, <2>1, <2>2
<1>4. CASE lane[w].phase = "page"
  <2>1. c \in lane[w].todo \/ Target(w) < c
    BY <1>1, <1>4 DEF OrderInv, LaneOK
  <2>2. QED
    BY <1>1, <2>1
<1>5. QED
  BY <1>2, <1>3, <1>4

LEMMA TargetIsOurs ==
    ASSUME Types, OrderInv, NEW w \in Lane, lane[w].pc \in Busy, lane[w].todo # {}
    PROVE  /\ Target(w) \in Present /\ events[Target(w)].generation = lane[w].generation
           /\ lane[w].phase = "page" => Seen(Target(w))
<1>1. Target(w) \in lane[w].todo /\ Target(w) \in Present
  BY TargetTypes
<1>2. lane[w].phase \in {"pending", "page"}
  BY DEF Types, LaneRow
<1>3. QED
  BY <1>1, <1>2 DEF OrderInv, LaneOK

LEMMA WatermarksStay ==
    ASSUME Types, OrderInv, LogGoesOn, UNCHANGED watermark
    PROVE  WatermarksAreSeen' /\ BehindIsSettled'
<1>1. WatermarksAreSeen'
  BY DEF OrderInv, WatermarksAreSeen, LogGoesOn
<1>2. BehindIsSettled'
  <2> SUFFICES ASSUME NEW g \in Generation, NEW c \in Cursor, Open(c, g)'
               PROVE  watermark[g] < c
    BY DEF BehindIsSettled
  <2>1. watermark[g] \in Nat /\ c \in Nat \ {0}
    BY Bounds DEF Types, TypeOK
  <2>2. CASE Open(c, g)
    BY <2>2 DEF OrderInv, BehindIsSettled
  <2>3. CASE \A t \in Present : Seen(t) /\ events[t].generation = g => t < c
    <3>1. CASE watermark[g] = 0
      BY <2>1, <3>1
    <3>2. CASE watermark[g] # 0
      BY <2>3, <3>2 DEF OrderInv, WatermarksAreSeen
    <3>3. QED
      BY <3>1, <3>2
  <2>4. QED
    BY <2>2, <2>3 DEF LogGoesOn
<1>3. QED
  BY <1>1, <1>2

LEMMA WatermarkAdvances ==
    ASSUME Types, OrderInv, NEW w \in Lane, AdvanceCursor(w)
    PROVE  WatermarksAreSeen' /\ BehindIsSettled'
<1> DEFINE g == lane[w].generation
<1>1. /\ lane[w].pc = "advancing" /\ lane[w].todo # {} /\ g \in Generation
      /\ UNCHANGED <<events, delivery, redriven>>
  BY HasTarget DEF AdvanceCursor, Types, log
<1>2. /\ Target(w) \in Present /\ Target(w) \in Cursor /\ Target(w) \in Nat
      /\ events[Target(w)].generation = g /\ Seen(Target(w)) /\ ~Open(Target(w), g)
  <2>1. lane[w].phase = "page" /\ ~Open(Target(w), g)
    BY <1>1 DEF OrderInv, LaneOK, Busy
  <2>2. QED
    BY <1>1, <2>1, TargetIsOurs, TargetTypes, Bounds DEF Busy, Types, LaneRow
<1>3. \/ UNCHANGED watermark
      \/ watermark' = [watermark EXCEPT ![g] = Advanced(g, Target(w))]
  BY DEF AdvanceCursor
<1>4. Advanced(g, Target(w)) \in {watermark[g], Target(w)}
  BY <1>1, <1>2, HighWater
<1>5. \A h \in Generation : \/ watermark'[h] = watermark[h]
                            \/ h = g /\ watermark'[h] = Target(w)
  BY <1>1, <1>3, <1>4 DEF Types, TypeOK
<1>6. WatermarksAreSeen'
  BY <1>1, <1>2, <1>5 DEF OrderInv, WatermarksAreSeen, Seen, Present
<1>7. BehindIsSettled'
  <2> SUFFICES ASSUME NEW h \in Generation, NEW c \in Cursor, Open(c, h)
               PROVE  watermark'[h] < c
    BY <1>1 DEF BehindIsSettled, Open, InTime, Wanted, Seen, IsSettled
  <2>1. CASE watermark'[h] = watermark[h]
    BY <2>1 DEF OrderInv, BehindIsSettled
  <2>2. CASE h = g /\ watermark'[h] = Target(w)
    <3>1. ~(c < Target(w))
      BY <1>1, <2>2, NothingOpenBefore DEF Busy
    <3>2. c # Target(w) /\ c \in Nat
      BY <1>2, <2>2, Bounds
    <3>3. QED
      BY <1>2, <2>2, <3>1, <3>2
  <2>3. QED
    BY <1>5, <2>1, <2>2
<1>8. QED
  BY <1>6, <1>7

LEMMA ListStays ==
    ASSUME Types, Types', OrderInv, LogGoesOn, NEW v \in Lane,
           lane[v].pc \in Busy, lane'[v].pc \in Busy,
           lane'[v].generation = lane[v].generation, lane'[v].cursor = lane[v].cursor,
           lane'[v].phase = lane[v].phase, lane'[v].todo \subseteq lane[v].todo,
           lane[v].phase = "page" => lane'[v].todo = lane[v].todo,
           lane'[v].pc = "advancing" =>
             lane[v].phase = "page" /\ ~Open(Target(v), lane[v].generation)'
    PROVE  LaneOK(v)'
<1> DEFINE g    == lane[v].generation
           todo == lane[v].todo
<1>1. LaneOK(v) /\ todo \subseteq Present
  BY DEF OrderInv, Types
<1>2. g \in Generation /\ watermark[g] <= watermark'[g]
  BY DEF Types, Busy, LogGoesOn
<1>3. /\ watermark[g] \in Int /\ lane[v].cursor \in Int /\ watermark'[g] \in Int
      /\ \A t \in todo : t \in Int
  BY <1>1, <1>2, Bounds DEF Types, TypeOK, LaneRow, Present
<1>4. lane[v].cursor <= watermark'[g]
  BY <1>1, <1>2, <1>3 DEF LaneOK
<1>5. lane[v].phase = "pending" =>
        \A t \in todo : events'[t].generation = g /\ t <= watermark'[g]
  BY <1>1, <1>2, <1>3 DEF LaneOK, LogGoesOn
<1>6. lane[v].phase = "page" => \A t \in todo : Seen(t)' /\ events'[t].generation = g
  BY <1>1 DEF LaneOK, LogGoesOn
<1>7. lane[v].phase = "page" =>
        \A c \in Cursor : Open(c, g)' => c \in todo \/ \A t \in todo : t < c
  BY <1>1, <1>2 DEF LaneOK, LogGoesOn
<1>8. lane'[v].pc \notin {"found", "opening", "loading"}
  BY DEF Busy
<1>9. QED
  BY <1>4, <1>5, <1>6, <1>7, <1>8 DEF LaneOK

LEMMA LaneStays ==
    ASSUME Types, Types', OrderInv, LogGoesOn, NEW v \in Lane, lane'[v] = lane[v]
    PROVE  LaneOK(v)'
<1> DEFINE g    == lane[v].generation
           todo == lane[v].todo
<1>1. LaneOK(v) /\ todo \subseteq Present
  BY DEF OrderInv, Types
<1>2. CASE lane[v].pc \notin Busy
  BY <1>1, <1>2 DEF LaneOK
<1>3. CASE lane[v].pc \in Busy
  <2>1. lane[v].pc = "advancing" => lane[v].phase = "page" /\ ~Open(Target(v), g)'
    <3>1. SUFFICES ASSUME lane[v].pc = "advancing"
                   PROVE  lane[v].phase = "page" /\ ~Open(Target(v), g)'
      OBVIOUS
    <3>2. todo # {} /\ g \in Generation
      BY <1>3, <3>1, HasTarget DEF Types, Busy
    <3>3. Target(v) \in todo /\ Target(v) \in Present /\ Target(v) \in Cursor /\ Target(v) \in Int
      BY <3>2, TargetTypes, Bounds DEF Types, LaneRow
    <3>4. /\ lane[v].phase = "page" /\ ~Open(Target(v), g) /\ Seen(Target(v))
          /\ events[Target(v)].generation = g
      BY <1>1, <1>3, <3>1, <3>3 DEF LaneOK
    <3>5. Target(v)' = Target(v)
      BY DEF Target
    <3>6. ASSUME NEW t \in Cursor, Open(t, g)', t = Target(v) PROVE FALSE
      BY <3>2, <3>3, <3>4, <3>6 DEF LogGoesOn
    <3>7. QED
      BY <3>3, <3>4, <3>5, <3>6
  <2>2. QED
    BY <1>3, <2>1, ListStays
<1>4. QED
  BY <1>2, <1>3

\* A claim that finds the event settled, and a completion, go on to the cursor of a page.
LEMMA SettledStays ==
    ASSUME Types, Types', OrderInv, LogGoesOn, NEW v \in Lane, lane[v].pc \in {"next", "accepted"},
           lane[v].todo # {}, Settled(v),
           NEW c, c = Target(v), ~Wanted(c)' \/ IsSettled(c)'
    PROVE  LaneOK(v)'
<1>1. lane[v] \in LaneRow /\ lane[v].pc \in Busy
  BY DEF Types, Busy
<1>2. CASE Goto(v, "advancing") /\ lane[v].phase = "page"
  <2>1. lane'[v] = [lane[v] EXCEPT !.pc = "advancing"]
    BY <1>2 DEF Goto, Types
  <2>2. /\ lane'[v].pc = "advancing" /\ lane'[v].generation = lane[v].generation
        /\ lane'[v].cursor = lane[v].cursor /\ lane'[v].phase = lane[v].phase
        /\ lane'[v].todo = lane[v].todo
    BY <1>1, <2>1 DEF LaneRow
  <2>3. ~Open(Target(v), lane[v].generation)'
    BY <2>2 DEF Open, InTime, Target
  <2>4. QED
    BY <1>1, <1>2, <2>2, <2>3, ListStays DEF Busy
<1>3. CASE Done(v) /\ lane[v].phase # "page"
  <2>1. lane'[v] = [lane[v] EXCEPT !.todo = @ \ {Target(v)}, !.pc = "next"]
    BY <1>3 DEF Done, Types
  <2>2. /\ lane'[v].pc = "next" /\ lane'[v].generation = lane[v].generation
        /\ lane'[v].cursor = lane[v].cursor /\ lane'[v].phase = lane[v].phase
        /\ lane'[v].todo \subseteq lane[v].todo
    BY <1>1, <2>1 DEF LaneRow
  <2>3. QED
    BY <1>1, <1>3, <2>2, ListStays DEF Busy
<1>4. QED
  BY <1>2, <1>3 DEF Settled

\* A step that leaves the list alone and does not go on to the cursor.
LEMMA GotoStays ==
    ASSUME Types, Types', OrderInv, LogGoesOn, NEW v \in Lane, lane[v].pc \in Busy,
           NEW pc \in {"sending", "accepted", "refused", "dead"}, Goto(v, pc)
    PROVE  LaneOK(v)'
<1>1. lane[v] \in LaneRow /\ lane'[v] = [lane[v] EXCEPT !.pc = pc]
  BY DEF Types, Goto
<1>2. /\ lane'[v].pc = pc /\ lane'[v].generation = lane[v].generation
      /\ lane'[v].cursor = lane[v].cursor /\ lane'[v].phase = lane[v].phase
      /\ lane'[v].todo = lane[v].todo
  BY <1>1 DEF LaneRow
<1>3. CASE pc = "dead"
  BY <1>2, <1>3 DEF LaneOK, Busy
<1>4. CASE pc # "dead"
  BY <1>2, <1>4, ListStays DEF Busy
<1>5. QED
  BY <1>3, <1>4

LEMMA FinishStays ==
    ASSUME Types, NEW v \in Lane, Finish(v)
    PROVE  LaneOK(v)'
<1>1. lane'[v] = Idle
  BY DEF Finish, Types
<1>2. lane'[v].pc = "idle"
  BY <1>1 DEF Idle
<1>3. QED
  BY <1>2 DEF LaneOK, Busy

LEMMA OpeningStays ==
    ASSUME Types, OrderInv, NEW v \in Lane, Find(v) \/ ReadWebhook(v) \/ ReadSecret(v)
    PROVE  LaneOK(v)'
<1>1. lane[v] \in LaneRow
  BY DEF Types
<1>2. CASE Find(v)
  <2>1. lane'[v] = [Idle EXCEPT !.pc = "found", !.generation = events[Min(Work)].generation]
    BY <1>2 DEF Find, Types
  <2>2. lane'[v].pc = "found" /\ lane'[v].phase = "pending"
    BY <2>1 DEF Idle
  <2>3. QED
    BY <2>2 DEF LaneOK, Busy
<1>3. CASE ReadWebhook(v) \/ ReadSecret(v)
  <2>1. lane[v].phase = "pending"
    BY <1>3 DEF ReadWebhook, ReadSecret, OrderInv, LaneOK
  <2>2. lane'[v].pc \in {"opening", "loading", "dead"} /\ lane'[v].phase = lane[v].phase
    BY <1>1, <1>3 DEF ReadWebhook, ReadSecret, Goto, Types, LaneRow
  <2>3. QED
    BY <2>1, <2>2 DEF LaneOK, Busy
<1>4. QED
  BY <1>2, <1>3

LEMMA LoadStays ==
    ASSUME Types, Types', OrderInv, NEW v \in Lane, Load(v)
    PROVE  LaneOK(v)'
<1> DEFINE g == lane[v].generation
<1>1. /\ lane[v] \in LaneRow /\ g \in Generation /\ lane[v].phase = "pending"
      /\ UNCHANGED <<events, watermark>>
  BY DEF Types, OrderInv, LaneOK, Load, log
<1>2. /\ lane'[v].pc = "next" /\ lane'[v].generation = g /\ lane'[v].phase = "pending"
      /\ lane'[v].cursor = watermark[g] /\ lane'[v].todo = Lowest(Behind(g), PageLimit)
  BY <1>1 DEF Load, Types, LaneRow
<1>3. Behind(g) \in SUBSET Cursor /\ watermark[g] \in Int
  BY <1>1, Bounds DEF Behind, Types, TypeOK
<1>4. \A t \in lane'[v].todo : events[t].generation = g /\ t <= watermark[g]
  BY <1>2, <1>3, LowestIsFinite DEF Behind
<1>5. QED
  BY <1>1, <1>2, <1>3, <1>4 DEF LaneOK, Busy

LEMMA ListPageStays ==
    ASSUME Types, Types', OrderInv, NEW v \in Lane, ListPage(v)
    PROVE  LaneOK(v)'
<1> DEFINE g == lane[v].generation
<1>1. /\ lane[v] \in LaneRow /\ g \in Generation /\ lane[v].pc = "next"
      /\ UNCHANGED <<events, delivery, redriven, watermark>> /\ lane[v].left \in Int
  BY DEF Types, ListPage, log, LaneRow
<1>2. /\ lane'[v].pc = "next" /\ lane'[v].generation = g /\ lane'[v].phase = "page"
      /\ lane'[v].cursor = lane[v].cursor /\ lane'[v].todo = Lowest(Page(v), lane[v].left)
  BY <1>1 DEF ListPage, Types, LaneRow, Page, Present
<1>3. /\ lane[v].cursor <= watermark[g] /\ lane[v].cursor \in Int /\ watermark[g] \in Int
  BY <1>1, Bounds DEF OrderInv, LaneOK, Busy, Types, TypeOK, LaneRow
<1>4. Page(v) \in SUBSET Cursor
  BY <1>1, Bounds DEF Page, Present, Types, TypeOK
<1>5. \A t \in lane'[v].todo : Seen(t) /\ events[t].generation = g
  BY <1>2, <1>4, LowestIsFinite DEF Page
<1>6. \A c \in Cursor : Open(c, g) => c \in lane'[v].todo \/ \A t \in lane'[v].todo : t < c
  <2> SUFFICES ASSUME NEW c \in Cursor, Open(c, g)
               PROVE  c \in lane'[v].todo \/ \A t \in lane'[v].todo : t < c
    OBVIOUS
  <2>1. watermark[g] < c
    BY <1>1 DEF OrderInv, BehindIsSettled
  <2>2. c \in Page(v)
    BY <1>3, <2>1, Bounds DEF Page, Open, InTime, Wanted, Seen, Present, Types, TypeOK
  <2>3. QED
    BY <1>1, <1>2, <1>4, <2>2, LowestIsLower
<1>7. \A c \in Cursor : Open(c, g)' => Open(c, g)
  BY <1>1, <1>2 DEF Open, InTime, Wanted, Seen, IsSettled
<1>8. QED
  BY <1>1, <1>2, <1>3, <1>5, <1>6, <1>7 DEF LaneOK, Busy, Seen

LEMMA HandlingStays ==
    ASSUME Types, Types', OrderInv, LogGoesOn, RowsGoOn, NEW v \in Lane,
           \/ SkipEvent(v) \/ ClaimDelivery(v) \/ EndpointAccepts(v) \/ EndpointRefuses(v)
           \/ CompleteDelivery(v)
    PROVE  LaneOK(v)'
<1>1. /\ lane[v] \in LaneRow /\ lane[v].pc \in Busy /\ lane[v].todo # {} /\ UNCHANGED events
  BY HasTarget DEF Types, Busy, SkipEvent, ClaimDelivery, EndpointAccepts, EndpointRefuses,
     CompleteDelivery, log
<1>2. Target(v) \in Present /\ Target(v) \in Cursor
  BY <1>1, TargetTypes DEF Types, LaneRow
<1>3. CASE SkipEvent(v)
  <2>1. Settled(v) /\ lane[v].pc = "next" /\ ~events[Target(v)].selected
    BY <1>3 DEF SkipEvent, Settled
  <2>2. ~Wanted(Target(v)) /\ \A c : ~Wanted(c) => ~Wanted(c)'
    BY <1>1, <2>1 DEF Wanted, Seen
  <2>3. QED
    BY <1>1, <2>1, <2>2, SettledStays
<1>4. CASE ClaimDelivery(v)
  <2> DEFINE c == Target(v)
             r == Claimable(delivery[c])
  <2>1. lane[v].pc = "next"
    BY <1>4 DEF ClaimDelivery
  <2>2. \/ Goto(v, "sending")
        \/ Finish(v)
        \/ delivery' = [delivery EXCEPT ![c] = r] /\ Handled(r) /\ Settled(v)
    BY <1>4 DEF ClaimDelivery
  <2>3. CASE Goto(v, "sending")
    BY <1>1, <2>3, GotoStays
  <2>4. CASE Finish(v)
    BY <2>4, FinishStays
  <2>5. CASE delivery' = [delivery EXCEPT ![c] = r] /\ Handled(r) /\ Settled(v)
    <3>1. delivery'[c].status \in {"delivered", "dead_lettered"}
      BY <1>2, <2>5 DEF Handled, Types, TypeOK
    <3>2. \A d : delivery'[d].status \in {"delivered", "dead_lettered"} => IsSettled(d)'
      BY DEF IsSettled
    <3>3. PICK d \in Cursor : d = Target(v) /\ IsSettled(d)'
      BY <1>2, <3>1, <3>2
    <3> HIDE DEF c, r
    <3>4. QED
      BY <1>1, <2>1, <2>5, <3>3, SettledStays
  <2>6. QED
    BY <2>2, <2>3, <2>4, <2>5
<1>5. CASE EndpointAccepts(v) \/ EndpointRefuses(v)
  BY <1>1, <1>5, GotoStays DEF EndpointAccepts, EndpointRefuses
<1>6. CASE CompleteDelivery(v)
  <2>1. CASE Goto(v, "refused")
    BY <1>1, <2>1, GotoStays
  <2>2. CASE Settled(v) /\ delivery' = [delivery EXCEPT ![Target(v)] =
                 [NoRow EXCEPT !.status = "delivered", !.tries = delivery[Target(v)].tries]]
    <3>1. delivery'[Target(v)].status = "delivered"
      BY <1>2, <2>2 DEF NoRow, Types, TypeOK
    <3>2. \A d : delivery'[d].status \in {"delivered", "dead_lettered"} => IsSettled(d)'
      BY DEF IsSettled
    <3>3. PICK c \in Cursor : c = Target(v) /\ IsSettled(c)'
      BY <1>2, <3>1, <3>2
    <3>4. lane[v].pc = "accepted"
      BY <1>6 DEF CompleteDelivery
    <3>5. QED
      BY <1>1, <2>2, <3>3, <3>4, SettledStays
  <2>3. QED
    BY <1>6, <2>1, <2>2 DEF CompleteDelivery
<1>7. QED
  BY <1>3, <1>4, <1>5, <1>6

LEMMA AdvanceStays ==
    ASSUME Types, Types', OrderInv, LogGoesOn, BehindIsSettled', NEW v \in Lane, AdvanceCursor(v)
    PROVE  LaneOK(v)'
<1> DEFINE g    == lane[v].generation
           todo == lane[v].todo
<1>1. /\ lane[v] \in LaneRow /\ lane[v].pc = "advancing" /\ todo # {} /\ g \in Generation
      /\ UNCHANGED <<events, delivery, redriven>>
  BY HasTarget DEF Types, AdvanceCursor, log
<1>2. CASE webhook.status = "deleted"
  BY <1>1, <1>2, GotoStays DEF AdvanceCursor, Busy
<1>3. CASE webhook.status # "deleted"
  <2> DEFINE high == Advanced(g, Target(v))
  <2>1. lane[v].phase = "page" /\ ~Open(Target(v), g)
    BY <1>1 DEF OrderInv, LaneOK, Busy
  <2>2. Target(v) \in Cursor
    BY <1>1, TargetTypes DEF Types, LaneRow
  <2>3. high \in 0..MaxEvents /\ high \in Int
    BY <1>1, <2>2, HighWater, Bounds
  <2>4. /\ watermark' = [watermark EXCEPT ![g] = high]
        /\ lane'[v] = [lane[v] EXCEPT !.cursor = high, !.pc = "next", !.todo = @ \ {Target(v)}]
    BY <1>3 DEF AdvanceCursor, Types
  <2> HIDE DEF high
  <2>5. /\ lane'[v].pc = "next" /\ lane'[v].generation = g /\ lane'[v].phase = "page"
        /\ lane'[v].cursor = high /\ lane'[v].todo = todo \ {Target(v)} /\ watermark'[g] = high
    BY <1>1, <2>1, <2>4 DEF LaneRow, Types, TypeOK
  <2>6. /\ \A t \in todo : Seen(t) /\ events[t].generation = g
        /\ \A c \in Cursor : Open(c, g) => c \in todo \/ \A t \in todo : t < c
    BY <1>1, <2>1 DEF OrderInv, LaneOK, Busy
  <2>7. \A c \in Cursor : Open(c, g) =>
          c \in todo \ {Target(v)} \/ \A t \in todo \ {Target(v)} : t < c
    BY <2>1, <2>6
  <2>8. (\A t : Seen(t)' <=> Seen(t)) /\ \A c : Open(c, g)' <=> Open(c, g)
    BY <1>1, <2>5 DEF Open, InTime, Wanted, Seen, IsSettled
  <2>9. QED
    BY <1>1, <2>3, <2>5, <2>6, <2>7, <2>8 DEF LaneOK, Busy
<1>4. QED
  BY <1>2, <1>3

LEMMA LanesStay ==
    ASSUME Types, Types', OrderInv, LogGoesOn, RowsGoOn, BehindIsSettled', [Next]_vars
    PROVE  \A v \in Lane : LaneOK(v)'
<1> SUFFICES ASSUME NEW v \in Lane PROVE LaneOK(v)'
  OBVIOUS
<1>1. CASE lane'[v] = lane[v]
  BY <1>1, LaneStays
<1>2. CASE Moves(v)
  BY <1>2, OpeningStays, LoadStays, ListPageStays, FinishStays, HandlingStays, AdvanceStays
  DEF Moves, LaneStep, Deliver, Return, FailDelivery, Crash, Restart
<1>3. QED
  BY <1>1, <1>2, LanesMoveAlone

LEMMA InitOrder == Init => OrderInv
<1> SUFFICES ASSUME Init PROVE OrderInv
  OBVIOUS
<1>1. Present = {} /\ \A c \in Cursor : ~Wanted(c)
  <2>1. Len(events) = 0
    BY DEF Init
  <2>2. QED
    BY <2>1, Bounds DEF Present, Wanted, Seen
<1>2. WatermarksAreSeen /\ BehindIsSettled
  BY <1>1 DEF Init, WatermarksAreSeen, BehindIsSettled, Open, InTime
<1>3. \A w \in Lane : LaneOK(w)
  BY DEF Init, LaneOK, Idle, Busy
<1>4. QED
  BY <1>2, <1>3 DEF OrderInv

LEMMA NextOrder ==
    Types /\ OrderInv /\ [Next]_vars => OrderInv'
<1> SUFFICES ASSUME Types, OrderInv, [Next]_vars PROVE OrderInv'
  OBVIOUS
<1>1. Types' /\ RowsGoOn /\ LogGoesOn
  BY NextTypes, NextRows, NextGoesOn DEF OrderInv
<1>2. WatermarksAreSeen' /\ BehindIsSettled'
  <2>1. CASE UNCHANGED watermark
    BY <1>1, <2>1, WatermarksStay
  <2>2. CASE \E w \in Lane : AdvanceCursor(w)
    BY <2>2, WatermarkAdvances
  <2>3. QED
    BY <2>1, <2>2 DEF Next, LogStep, EndTransaction, BeginEvent, AppendGenerationEvent, Insert,
       EndEvent, CommitAppended, HostStep, SetStatus, RotateSecret, DropSecret, DropFails, Redrive,
       Time, RetryDue, LeaseRunsOut, LaneStep, Deliver, Find, ReadWebhook, ReadSecret, Load,
       ListPage, Return, SkipEvent, ClaimDelivery, EndpointAccepts, EndpointRefuses,
       CompleteDelivery, FailDelivery, Crash, Restart, vars
<1>3. QED
  BY <1>1, <1>2, LanesStay DEF OrderInv

\* advanceWebhookDeliveryCursor only ever passes settled events: for any lanes, crashes and
\* lost leases, an event behind the watermark was settled, came back through a redrive, or was
\* late.
\* Events may come into sight in any order; the ones a later event overtook are late, and the
\* property says nothing of them.
THEOREM NothingIsSkipped == Spec => []NothingSkipped
<1>1. Types /\ OrderInv => NothingSkipped
  <2> SUFFICES ASSUME Types, OrderInv, NEW c \in Cursor, InTime(c),
                      c <= watermark[events[c].generation], c \notin redriven
               PROVE  IsSettled(c)
    BY DEF NothingSkipped
  <2>1. c \in Present
    BY Bounds DEF InTime, Wanted, Seen, Present
  <2>2. events[c].generation \in Generation
    BY <2>1, EventTypes
  <2>3. watermark[events[c].generation] \in Nat /\ c \in Nat
    BY <2>2, Bounds DEF Types, TypeOK
  <2>4. ~Open(c, events[c].generation)
    BY <2>2, <2>3 DEF OrderInv, BehindIsSettled
  <2>5. QED
    BY <2>4 DEF Open
<1>2. QED
  BY InitTypes, NextTypes, InitOrder, NextOrder, <1>1, PTL DEF Spec

\* deliver() sends an event for the first time when every earlier selected event of its
\* generation that was not late is settled, whatever order the events came into sight in.
THEOREM FirstInOrder == Spec => FirstDeliveryInOrder
<1>1. Types /\ OrderInv /\ [Next]_vars =>
        [\A c \in Cursor :
           delivery[c].tries = 0 /\ delivery'[c].tries = 1 =>
             \A d \in 1..(c - 1) :
               InTime(d) /\ events[d].generation = events[c].generation =>
                 IsSettled(d) \/ d \in redriven]_vars
  <2> SUFFICES ASSUME Types, OrderInv, [Next]_vars, NEW c \in Cursor,
                      delivery[c].tries = 0, delivery'[c].tries = 1,
                      NEW d \in 1..(c - 1), InTime(d),
                      events[d].generation = events[c].generation, d \notin redriven
               PROVE  IsSettled(d)
    OBVIOUS
  <2>1. PICK w \in Lane : lane[w].pc = "next" /\ lane[w].todo # {} /\ Target(w) = c
    BY NextRows DEF RowsGoOn
  <2>2. events[c].generation = lane[w].generation
    BY <2>1, TargetIsOurs DEF Busy
  <2>3. d \in Cursor /\ d < c
    BY Bounds
  <2>4. ~Open(d, lane[w].generation)
    BY <2>1, <2>3, NothingOpenBefore DEF Busy
  <2>5. QED
    BY <2>2, <2>4 DEF Open
<1>2. QED
  BY InitTypes, NextTypes, InitOrder, NextOrder, <1>1, PTL DEF Spec, FirstDeliveryInOrder

=============================================================================
