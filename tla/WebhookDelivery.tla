-------------------------- MODULE WebhookDelivery --------------------------
(***************************************************************************)
(* Durable delivery of generation events to one webhook: the event log     *)
(* with its cursors, the delivery rows with their leases, the high         *)
(* watermark of each generation (src/postgres-repository.ts), and the      *)
(* worker lanes that find work and run WebhookCollection.deliver           *)
(* (src/webhooks.ts).                                                      *)
(*                                                                         *)
(* A cursor is an identity column: it is allocated when the row is         *)
(* inserted and the event is seen when the transaction commits.            *)
(* Transactions that hold the generation row insert one after the other.   *)
(* appendGenerationEvent inserts first and meets the row lock only in the  *)
(* foreign-key check, so that events with higher cursors may be seen       *)
(* before its own: such an event is late.                                  *)
(*                                                                         *)
(* deliver() is a step per await: other lanes, the host and time run in    *)
(* between.  A lane makes one claim at a time, so the lane stands for the  *)
(* lease token.                                                            *)
(***************************************************************************)
EXTENDS Integers, Sequences, FiniteSets, FiniteSetsExt

CONSTANTS
    Generation, Lane,
    NoGeneration, NoLane,
    MaxEvents,        \* bound: events in the log
    MaxTries,         \* retry.maxAttempts
    PageLimit,        \* options.limit
    MaxRedrives,      \* bound: redrive calls
    MaxHostChanges,   \* bound: pause, resume, rotation and deletion of the webhook
    MaxFaults         \* bound: crashes and leases that run out under a live sender

ASSUME WebhookAssumption ==
    /\ NoGeneration \notin Generation /\ NoLane \notin Lane
    /\ {MaxEvents, MaxTries, PageLimit} \subseteq Nat \ {0}
    /\ {MaxRedrives, MaxHostChanges, MaxFaults} \subseteq Nat

VARIABLES
    events,      \* the log: [generation, selected, state] at position cursor, and whether the
                 \* event is late (bookkeeping: nothing reads it but the properties)
    delivery,    \* outbound_event_deliveries of this webhook's sink, by cursor
    watermark,   \* webhook_delivery_cursors, or delivery_start_cursor
    webhook,     \* [status, secret]: the row, with the secret its secret_ref names
    secrets,     \* the signing secrets the secret store holds
    cleanup,     \* replaced secrets a rotation or deletion has yet to drop
    received,    \* cursors the endpoint has accepted at least once
    redriven,    \* cursors a host has redriven
    lane,        \* where each lane stands in deliver()
    budget       \* [redrives, changes, faults] so far (bookkeeping for the bounds)

log     == <<events, received>>
config  == <<webhook, secrets, cleanup>>
vars == <<log, delivery, watermark, config, redriven, lane, budget>>

Cursor == 1..MaxEvents

NoRow     == [status |-> "none", tries |-> 0, due |-> FALSE, owner |-> NoLane, expired |-> FALSE]
NewRow    == [NoRow EXCEPT !.status = "pending", !.due = TRUE]

DeadRow(r) == [NoRow EXCEPT !.status = "dead_lettered", !.tries = r.tries]

Idle == [pc |-> "idle", generation |-> NoGeneration, secret |-> 0, cursor |-> 0,
         phase |-> "pending", todo |-> {}, left |-> 0]

----------------------------------------------------------------------------
(* The event log *)

Seen(c) == c <= Len(events) /\ events[c].state = "committed"
Uncommitted(g, state) == \E c \in 1..Len(events) : events[c].generation = g /\ events[c].state = state

Insert(g, selected, state) ==
    /\ Len(events) < MaxEvents
    /\ events' = Append(events, [generation |-> g, selected |-> selected, state |-> state,
                                 late |-> FALSE])
    /\ UNCHANGED <<delivery, watermark, config, received, redriven, lane, budget>>

\* A transaction that holds the generation row inserts an event ...
BeginEvent(g, selected) == ~Uncommitted(g, "locked") /\ Insert(g, selected, "locked")

\* A later event of the same generation has been seen.
Overtaken(c) ==
    \E d \in c+1..Len(events) : Seen(d) /\ events[d].generation = events[c].generation

End(c, state) ==
    events' = [events EXCEPT ![c] = [@ EXCEPT !.state = state, !.late = Overtaken(c)]]

\* ... and commits or rolls back later.
EndEvent(c, state) ==
    /\ events[c].state = "locked"
    /\ End(c, state)
    /\ UNCHANGED <<delivery, watermark, config, received, redriven, lane, budget>>

\* appendGenerationEvent inserts its row without a lock ...
AppendGenerationEvent(g, selected) == Insert(g, selected, "unlocked")

\* ... and commits once nobody holds the generation row.
CommitAppended(c) ==
    /\ events[c].state = "unlocked"
    /\ ~Uncommitted(events[c].generation, "locked")
    /\ End(c, "committed")
    /\ UNCHANGED <<delivery, watermark, config, received, redriven, lane, budget>>

----------------------------------------------------------------------------
(* The host's management calls *)

Change == budget.changes < MaxHostChanges /\ budget' = [budget EXCEPT !.changes = @ + 1]
Fault  == budget.faults < MaxFaults /\ budget' = [budget EXCEPT !.faults = @ + 1]

\* pause, resume and delete
SetStatus(status) ==
    /\ webhook.status \notin {"deleted", status}
    /\ Change
    /\ webhook' = [webhook EXCEPT !.status = status]
    /\ cleanup' = IF status = "deleted" THEN cleanup \cup {webhook.secret} ELSE cleanup
    /\ UNCHANGED <<log, delivery, watermark, secrets, redriven, lane>>

\* rotateSecret stores the new secret and replaces the reference ...
RotateSecret ==
    /\ webhook.status # "deleted"
    /\ Change
    /\ secrets' = secrets \cup {webhook.secret + 1}
    /\ cleanup' = cleanup \cup {webhook.secret}
    /\ webhook' = [webhook EXCEPT !.secret = @ + 1]
    /\ UNCHANGED <<log, delivery, watermark, redriven, lane>>

\* ... and then, like delete(), drops the secret the row named before ...
DropSecret(s) ==
    /\ s \in cleanup
    /\ secrets' = secrets \ {s}
    /\ cleanup' = cleanup \ {s}
    /\ UNCHANGED <<log, delivery, watermark, webhook, redriven, lane, budget>>

\* ... or fails to, and then rotateSecret's handler drops the new one.
DropFails(s) ==
    /\ s \in cleanup
    /\ Fault
    /\ secrets' = IF s < webhook.secret THEN secrets \ {s + 1} ELSE secrets
    /\ cleanup' = cleanup \ {s}
    /\ UNCHANGED <<log, delivery, watermark, webhook, redriven, lane>>

Redrive(c) ==
    /\ webhook.status # "deleted"
    /\ delivery[c].status = "dead_lettered"
    /\ budget.redrives < MaxRedrives
    /\ budget' = [budget EXCEPT !.redrives = @ + 1]
    /\ delivery' = [delivery EXCEPT ![c] = NewRow]
    /\ redriven' = redriven \cup {c}
    /\ UNCHANGED <<log, watermark, config, lane>>

----------------------------------------------------------------------------
(* findWebhookDeliveryWork *)

Pending(c)  == delivery[c].status = "pending"
InFlight(c) == delivery[c].status = "delivering"

\* mutant: deliveries of a dead worker are not taken over
DuePending(c) == Pending(c) /\ delivery[c].due

Due(c) == (Pending(c) /\ delivery[c].due) \/ (InFlight(c) /\ delivery[c].expired)

Unread(g) == {c \in 1..Len(events) : Seen(c) /\ events[c].generation = g /\ c > watermark[g]}

\* Only the first unread event of the webhook is a candidate, whichever generation it
\* belongs to, and not while its own delivery is pending or in flight.
NewWork ==
    LET unread == UNION {Unread(g) : g \in Generation} IN
    {c \in unread : (\A d \in unread : c <= d) /\ ~Pending(c) /\ ~InFlight(c)}

Work == {c \in Cursor : Due(c)} \cup NewWork

Goto(w, pc) == lane' = [lane EXCEPT ![w].pc = pc]
Finish(w)   == lane' = [lane EXCEPT ![w] = Idle]

Find(w) ==
    /\ lane[w].pc = "idle"
    /\ webhook.status = "active"
    /\ Work # {}
    /\ lane' = [lane EXCEPT ![w] = [Idle EXCEPT !.pc = "found",
                                      !.generation = events[Min(Work)].generation]]
    /\ UNCHANGED <<log, delivery, watermark, config, redriven, budget>>

----------------------------------------------------------------------------
(* WebhookCollection.deliver *)

\* A webhook that was paused or deleted since is an error that is not a delivery error,
\* and ends the worker.
ReadWebhook(w) ==
    /\ lane[w].pc = "found"
    /\ lane' = [lane EXCEPT ![w].pc = IF webhook.status = "active" THEN "opening" ELSE "dead",
                            ![w].secret = webhook.secret]
    /\ UNCHANGED <<log, delivery, watermark, config, redriven, budget>>

\* So is a secret that was rotated away since.
ReadSecret(w) ==
    /\ lane[w].pc = "opening"
    /\ Goto(w, IF lane[w].secret \in secrets THEN "loading" ELSE "dead")
    /\ UNCHANGED <<log, delivery, watermark, config, redriven, budget>>

Lowest(S, k) == {c \in S : Cardinality({d \in S : d <= c}) <= k}

Behind(g) == {c \in Cursor : Pending(c) /\ events[c].generation = g /\ c <= watermark[g]}

\* The cursor, and the pending deliveries it has passed.
Load(w) ==
    LET g == lane[w].generation
        todo == Lowest(Behind(g), PageLimit)
    IN
    /\ lane[w].pc = "loading"
    /\ lane' = [lane EXCEPT ![w].pc = "next", ![w].cursor = watermark[g],
                            ![w].todo = todo, ![w].left = PageLimit - Cardinality(todo)]
    /\ UNCHANGED <<log, delivery, watermark, config, redriven, budget>>

\* Once they are handled, the page of events after the cursor.
ListPage(w) ==
    LET page == {c \in 1..Len(events) : Seen(c) /\ events[c].generation = lane[w].generation
                                          /\ c > lane[w].cursor}
    IN
    /\ lane[w].pc = "next"
    /\ lane[w].phase = "pending" /\ lane[w].todo = {} /\ lane[w].left > 0
    /\ lane' = [lane EXCEPT ![w].phase = "page", ![w].todo = Lowest(page, lane[w].left)]
    /\ UNCHANGED <<log, delivery, watermark, config, redriven, budget>>

Return(w) ==
    /\ lane[w].pc = "next" /\ lane[w].todo = {}
    /\ lane[w].phase = "page" \/ lane[w].left = 0
    /\ Finish(w)
    /\ UNCHANGED <<log, delivery, watermark, config, redriven, budget>>

Target(w) == Min(lane[w].todo)
Done(w) == lane' = [lane EXCEPT ![w].todo = @ \ {Target(w)}, ![w].pc = "next"]

\* The event is settled: a page moves the cursor on, a pending delivery is behind it.
Settled(w) == IF lane[w].phase = "page" THEN Goto(w, "advancing") ELSE Done(w)

\* An event the endpoint did not select only moves the cursor.
SkipEvent(w) ==
    /\ lane[w].pc = "next" /\ lane[w].todo # {} /\ lane[w].phase = "page"
    /\ ~events[Target(w)].selected
    /\ Goto(w, "advancing")
    /\ UNCHANGED <<log, delivery, watermark, config, redriven, budget>>

\* claimOutboundEventDelivery's row after its first two statements
Claimable(r) ==
    CASE r.status = "none" -> NewRow
      [] r.status = "delivering" /\ r.expired /\ r.tries >= MaxTries -> DeadRow(r)
      [] OTHER -> r

CanClaim(r) ==
    /\ r.tries < MaxTries
    /\ \/ r.status = "pending" /\ r.due
       \/ r.status = "delivering" /\ r.expired

\* mutant: an event in other hands counts as handled
HandledOrInHand(r) == r.status \in {"delivered", "dead_lettered", "delivering"}

Handled(r) == r.status \in {"delivered", "dead_lettered"}

\* A refused claim is settled, or in the hands of another lane or of a later retry.
ClaimDelivery(w) ==
    LET c == Target(w)
        r == Claimable(delivery[c])
    IN
    /\ lane[w].pc = "next" /\ lane[w].todo # {}
    /\ lane[w].phase = "page" => events[c].selected
    /\ \/ /\ CanClaim(r)
          /\ delivery' = [delivery EXCEPT ![c] =
               [status |-> "delivering", tries |-> r.tries + 1, due |-> FALSE,
                owner |-> w, expired |-> FALSE]]
          /\ Goto(w, "sending")
       \/ /\ ~CanClaim(r)
          /\ delivery' = [delivery EXCEPT ![c] = r]
          /\ IF Handled(r) THEN Settled(w) ELSE Finish(w)
    /\ UNCHANGED <<log, watermark, config, redriven, budget>>

\* The endpoint takes the request; whether the sender learns of it is another matter.
EndpointAccepts(w) ==
    /\ lane[w].pc = "sending"
    /\ received' = received \cup {Target(w)}
    /\ \E pc \in {"accepted", "refused"} : Goto(w, pc)
    /\ UNCHANGED <<events, delivery, watermark, config, redriven, budget>>

EndpointRefuses(w) ==
    /\ lane[w].pc = "sending"
    /\ Goto(w, "refused")
    /\ UNCHANGED <<log, delivery, watermark, config, redriven, budget>>

\* mutant: the update matches the row by its key alone
HoldsKey(w) == TRUE

HoldsClaim(w) == InFlight(Target(w)) /\ delivery[Target(w)].owner = w

\* completeOutboundEventDelivery; a lost claim is a failure like any other.
CompleteDelivery(w) ==
    /\ lane[w].pc = "accepted"
    /\ IF HoldsClaim(w)
         THEN /\ delivery' = [delivery EXCEPT ![Target(w)] =
                   [NoRow EXCEPT !.status = "delivered", !.tries = delivery[Target(w)].tries]]
              /\ Settled(w)
         ELSE Goto(w, "refused") /\ UNCHANGED delivery
    /\ UNCHANGED <<log, watermark, config, redriven, budget>>

\* mutant: a failed event does not stop the page
FailAndGoOn(w) ==
    LET r == delivery[Target(w)] IN
    /\ lane[w].pc = "refused"
    /\ delivery' = IF HoldsClaim(w)
                     THEN [delivery EXCEPT ![Target(w)] =
                             IF r.tries >= MaxTries THEN DeadRow(r)
                             ELSE [NoRow EXCEPT !.status = "pending", !.tries = r.tries]]
                     ELSE delivery
    /\ Done(w)
    /\ UNCHANGED <<log, watermark, config, redriven, budget>>

\* failOutboundEventDelivery; deliver() ends with the error either way.
FailDelivery(w) ==
    LET r == delivery[Target(w)] IN
    /\ lane[w].pc = "refused"
    /\ delivery' = IF HoldsClaim(w)
                     THEN [delivery EXCEPT ![Target(w)] =
                             IF r.tries >= MaxTries THEN DeadRow(r)
                             ELSE [NoRow EXCEPT !.status = "pending", !.tries = r.tries]]
                     ELSE delivery
    /\ Finish(w)
    /\ UNCHANGED <<log, watermark, config, redriven, budget>>

Advanced(g, c) == Max({watermark[g], c})

\* advanceWebhookDeliveryCursor keeps the greater cursor, and fails without the webhook.
AdvanceCursor(w) ==
    LET g == lane[w].generation
        high == Advanced(g, Target(w))
    IN
    /\ lane[w].pc = "advancing"
    /\ IF webhook.status = "deleted"
         THEN Goto(w, "dead") /\ UNCHANGED watermark
         ELSE /\ watermark' = [watermark EXCEPT ![g] = high]
              /\ lane' = [lane EXCEPT ![w].cursor = high, ![w].pc = "next",
                                      ![w].todo = @ \ {Target(w)}]
    /\ UNCHANGED <<log, delivery, config, redriven, budget>>

----------------------------------------------------------------------------
(* Faults and time *)

Crash(w) ==
    /\ lane[w].pc \notin {"idle", "dead"}
    /\ Fault
    /\ Finish(w)
    /\ UNCHANGED <<log, delivery, watermark, config, redriven>>

\* Whoever runs the worker starts it again.
Restart(w) ==
    /\ lane[w].pc = "dead"
    /\ Finish(w)
    /\ UNCHANGED <<log, delivery, watermark, config, redriven, budget>>

RetryDue(c) ==
    /\ Pending(c) /\ ~delivery[c].due
    /\ delivery' = [delivery EXCEPT ![c].due = TRUE]
    /\ UNCHANGED <<log, watermark, config, redriven, lane, budget>>

Sending(c) == \E w \in Lane : /\ lane[w].pc \in {"sending", "accepted", "refused"}
                              /\ Target(w) = c /\ delivery[c].owner = w

LeaseRunsOut(c) ==
    /\ InFlight(c) /\ ~delivery[c].expired
    /\ IF Sending(c) THEN Fault ELSE UNCHANGED budget
    /\ delivery' = [delivery EXCEPT ![c].expired = TRUE]
    /\ UNCHANGED <<log, watermark, config, redriven, lane>>

----------------------------------------------------------------------------
Init ==
    /\ events = <<>>
    /\ delivery = [c \in Cursor |-> NoRow]
    /\ watermark = [g \in Generation |-> 0]
    /\ webhook = [status |-> "active", secret |-> 1]
    /\ secrets = {1}
    /\ cleanup = {}
    /\ received = {}
    /\ redriven = {}
    /\ lane = [w \in Lane |-> Idle]
    /\ budget = [redrives |-> 0, changes |-> 0, faults |-> 0]

EndTransaction ==
    \E c \in 1..Len(events) :
        CommitAppended(c) \/ \E state \in {"committed", "rolled_back"} : EndEvent(c, state)

LogStep ==
    \/ \E g \in Generation, selected \in BOOLEAN :
          BeginEvent(g, selected) \/ AppendGenerationEvent(g, selected)
    \/ EndTransaction

HostStep ==
    \/ \E status \in {"active", "paused", "deleted"} : SetStatus(status)
    \/ RotateSecret
    \/ \E s \in cleanup : DropSecret(s) \/ DropFails(s)
    \/ \E c \in Cursor : Redrive(c)

Deliver(w) ==
    \/ ReadWebhook(w) \/ ReadSecret(w) \/ Load(w) \/ ListPage(w) \/ Return(w)
    \/ SkipEvent(w) \/ ClaimDelivery(w) \/ EndpointAccepts(w) \/ EndpointRefuses(w)
    \/ CompleteDelivery(w) \/ FailDelivery(w) \/ AdvanceCursor(w)

LaneStep(w) == Find(w) \/ Deliver(w)

Time == \E c \in Cursor : RetryDue(c) \/ LeaseRunsOut(c)

Next ==
    \/ LogStep \/ HostStep \/ Time
    \/ \E w \in Lane : LaneStep(w) \/ Crash(w) \/ Restart(w)

Spec == Init /\ [][Next]_vars

(* Lanes poll and requests end; transactions end; retries fall due and leases   *)
(* run out.  Nobody is assumed to restart a worker that died.                   *)
Fairness ==
    /\ \A w \in Lane : WF_vars(LaneStep(w))
    /\ WF_vars(EndTransaction)
    /\ \A c \in Cursor : WF_vars(RetryDue(c)) /\ WF_vars(~Sending(c) /\ LeaseRunsOut(c))

FairSpec == Spec /\ Fairness

----------------------------------------------------------------------------
(* Properties *)

DeliveryRow == [status: {"none", "pending", "delivering", "delivered", "dead_lettered"},
                tries: 0..MaxTries, due: BOOLEAN, owner: Lane \cup {NoLane}, expired: BOOLEAN]
LanePc == {"idle", "found", "opening", "loading", "next", "sending", "accepted", "refused",
           "advancing", "dead"}

TypeOK ==
    /\ events \in Seq([generation: Generation, selected: BOOLEAN,
                       state: {"locked", "unlocked", "committed", "rolled_back"},
                       late: BOOLEAN])
    /\ delivery \in [Cursor -> DeliveryRow]
    /\ watermark \in [Generation -> 0..MaxEvents]
    /\ webhook \in [status: {"active", "paused", "deleted"}, secret: Nat]
    /\ secrets \cup cleanup \subseteq Nat
    /\ received \cup redriven \subseteq Cursor
    /\ \A w \in Lane : /\ lane[w].pc \in LanePc /\ lane[w].todo \subseteq Cursor
                       /\ lane[w].pc \in {"sending", "accepted", "refused", "advancing"} =>
                            lane[w].todo # {}

IsSettled(c) == delivery[c].status \in {"delivered", "dead_lettered"}
Wanted(c)    == Seen(c) /\ events[c].selected

\* Selected events that were in sight before any later one of their generation.
InTime(c) == Wanted(c) /\ ~events[c].late

\* The watermark never passes an event the endpoint selected and nobody settled: what is
\* behind it was delivered or dead-lettered, came back through a redrive, or was late.
NothingSkipped ==
    \A c \in Cursor :
        InTime(c) /\ c <= watermark[events[c].generation] => IsSettled(c) \/ c \in redriven

\* An event is first sent when every earlier selected event of its generation that was not
\* late is settled, however many lanes work on the webhook and whichever of them crash.
FirstDeliveryInOrder ==
    [][\A c \in Cursor :
         delivery[c].tries = 0 /\ delivery'[c].tries = 1 =>
           \A d \in 1..(c - 1) :
             InTime(d) /\ events[d].generation = events[c].generation =>
               IsSettled(d) \/ d \in redriven]_vars

\* A delivered event stays delivered, whatever a sender that lost its claim does later, and
\* the endpoint has had it.
DeliveredForGood ==
    [][\A c \in Cursor :
         /\ delivery[c].status = "delivered" => delivery'[c] = delivery[c]
         /\ delivery'[c].status = "delivered" => c \in received]_vars

\* Every selected event that is not late is eventually delivered or dead-lettered: a crash
\* between sending, recording and advancing, or a lease that runs out, only repeats work.
EveryEventSettles == \A c \in Cursor : InTime(c) ~> IsSettled(c)

\* docs/api/webhooks.md: "Delivery is at least once", and Viby will "reliably forward
\* generation lifecycle events".  A late event may be behind the watermark when it comes
\* into sight, and then no page lists it.
LateEventsSettle == \A c \in Cursor : Wanted(c) ~> IsSettled(c)

\* A redriven dead letter is eventually delivered or dead-lettered again.
RedrivenSettles == \A c \in Cursor : c \in redriven ~> IsSettled(c)

\* docs/api/webhooks.md: "Rotation ... deletes the replaced secret after the durable record
\* is updated".  The secret the row names is never the one that is deleted.
SecretAvailable == webhook.status # "deleted" => webhook.secret \in secrets

=============================================================================
