--------------------------- MODULE OutboundEvents ---------------------------
(* Generation.deliverEvents: a host reads a page of the event log behind a  *)
(* cursor and sends it to a sink, one event after another, each under a     *)
(* claim of its own.  Attempts are bounded, a delivery that used them up is *)
(* a dead letter until somebody redrives it, and the receiver verifies what *)
(* it gets.  Several callers deliver side by side and may go at any moment. *)
(* Events are named by their cursor.  A cursor is drawn before the statement *)
(* that inserts the event commits, so events need not come into sight in the *)
(* order of their cursors.                                                   *)
EXTENDS Naturals, Sequences, FiniteSets

CONSTANTS
    Courier,      \* callers of deliverEvents
    MaxLogged,    \* bound: events of the generation
    MaxSends,     \* retry.maxAttempts
    PageLimit,    \* `limit` of a call
    MaxOutFaults, \* bound: lost answers, altered requests, callers that go
    MaxRedrives   \* bound: no event is redriven once one was this often

ASSUME OutboundAssumption ==
    MaxLogged \in Nat /\ MaxSends \in Nat /\ PageLimit \in Nat /\ IsFiniteSet(Courier)

VARIABLES
    shown,        \* events of the log that can be read
    overtaken,    \* those that came into sight behind a later one
    out,          \* the rows of outbound_event_deliveries
    courier,      \* the calls under way
    resume,       \* the cursor each caller has saved
    accepted,     \* events in the order in which the receiver first had them
    sends,        \* requests made for each event
    redriven,     \* how often each event was redriven
    outFaults
outVars == <<shown, overtaken, out, courier, resume, accepted, sends, redriven, outFaults>>

Cursor  == 1..MaxLogged
NoOne   == "nobody"
NoDelivery   == [status |-> "none", attempts |-> 0, token |-> NoOne, ripe |-> TRUE, dead |-> FALSE]
Resting == [pc |-> "idle", page |-> {}, cursor |-> 0]

OutboundInit ==
    /\ shown = {} /\ overtaken = {}
    /\ out = [c \in Cursor |-> NoDelivery]
    /\ courier = [p \in Courier |-> Resting]
    /\ resume = [p \in Courier |-> 0]
    /\ accepted = <<>>
    /\ sends = [c \in Cursor |-> 0]
    /\ redriven = [c \in Cursor |-> 0]
    /\ outFaults = 0

OutboundIdle == OutboundInit

OutFault == outFaults < MaxOutFaults /\ outFaults' = outFaults + 1
CourierAt(p, pc) == courier[p].pc = pc
FirstLeft(page) == CHOOSE c \in page : \A d \in page : c <= d
\* The first event that is left of the page.
Event(p)  == FirstLeft(courier[p].page)
CourierTo(p, pc) == courier' = [courier EXCEPT ![p].pc = pc]
\* The cursor moves over the event at hand.
MoveOn(p) == courier' = [courier EXCEPT ![p] = [pc |-> "claim", page |-> @.page \ {Event(p)},
                                                cursor |-> Event(p)]]
Holds(p, c) == out[c].status = "delivering" /\ out[c].token = p

\* An event comes into sight, whatever cursors were drawn before or after its own.
AppendEvent(c) ==
    /\ c \notin shown
    /\ shown' = shown \cup {c}
    /\ overtaken' = IF \E d \in shown : d > c THEN overtaken \cup {c} ELSE overtaken
    /\ UNCHANGED <<out, courier, resume, accepted, sends, redriven, outFaults>>

\* The first events in sight behind a cursor.
OutPage(after) ==
    {c \in shown : c > after
                   /\ Cardinality({d \in shown : after < d /\ d < c}) < PageLimit}

\* A page behind the caller's own cursor or, to reach what was redriven, from
\* the beginning of the log.
DeliverEvents(p) ==
    /\ CourierAt(p, "idle")
    /\ \E after \in {resume[p], 0} :
         courier' = [courier EXCEPT ![p] =
                       [pc |-> "claim", page |-> OutPage(after), cursor |-> after]]
    /\ UNCHANGED <<shown, overtaken, out, resume, accepted, sends, redriven, outFaults>>

\* The row is made, one whose last attempt lost its lease becomes a dead letter,
\* and one that is due is claimed, all in one transaction.
Expired(row) ==
    IF row.status = "delivering" /\ row.ripe /\ row.attempts >= MaxSends
    THEN [row EXCEPT !.status = "dead_lettered", !.token = NoOne, !.dead = TRUE]
    ELSE row

MayClaim(row) == row.status \in {"none", "pending", "delivering"} /\ row.ripe
                   /\ row.attempts < MaxSends

ClaimDelivery(p) ==
    /\ CourierAt(p, "claim") /\ courier[p].page # {}
    /\ LET c == Event(p)
           row == Expired(out[c])
       IN IF MayClaim(row)
          THEN /\ out' = [out EXCEPT ![c] = [row EXCEPT !.status = "delivering", !.token = p,
                                                        !.attempts = @ + 1, !.ripe = FALSE]]
               /\ CourierTo(p, "send")
          ELSE /\ out' = [out EXCEPT ![c] = row]
               /\ CourierTo(p, "look")
    /\ UNCHANGED <<shown, overtaken, resume, accepted, sends, redriven, outFaults>>

\* A plausible bug: whatever somebody else has claimed is passed.
PassesClaimed(row) == row.status # "pending"

\* What was not claimed is read again, by then perhaps changed: it is passed
\* when it is settled, and otherwise ends the page.
Passes(row) == row.status \in {"delivered", "dead_lettered"}

LookAtDelivery(p) ==
    /\ CourierAt(p, "look")
    /\ IF Passes(out[Event(p)]) THEN MoveOn(p) ELSE CourierTo(p, "return")
    /\ UNCHANGED <<shown, overtaken, out, resume, accepted, sends, redriven, outFaults>>

\* What can become of a request on its way; the receiver checks the key, the
\* time it was signed at, the signature over time, id and body, and the id.
Wire      == {"whole", "altered", "late", "other key", "lost"}
Verify(w) == w = "whole"

Accept(c) == accepted' = IF \E i \in DOMAIN accepted : accepted[i] = c
                         THEN accepted ELSE Append(accepted, c)

\* sink.deliver: an answer can be lost although the request was accepted.
SendRequest(p) ==
    /\ CourierAt(p, "send")
    /\ sends' = [sends EXCEPT ![Event(p)] = @ + 1]
    /\ \E w \in Wire, answered \in BOOLEAN :
         /\ IF Verify(w) THEN Accept(Event(p)) ELSE ~answered /\ UNCHANGED accepted
         /\ IF answered THEN CourierTo(p, "complete") /\ UNCHANGED outFaults
                        ELSE CourierTo(p, "fail") /\ OutFault
    /\ UNCHANGED <<shown, overtaken, out, resume, redriven>>

\* A completion that is refused, or whose answer is lost, counts as a failure.
CompleteDelivery(p) ==
    /\ CourierAt(p, "complete")
    /\ LET c == Event(p)
       IN IF Holds(p, c)
          THEN /\ out' = [out EXCEPT ![c].status = "delivered", ![c].token = NoOne]
               /\ \/ MoveOn(p) /\ UNCHANGED outFaults
                  \/ CourierTo(p, "fail") /\ OutFault
          ELSE CourierTo(p, "fail") /\ UNCHANGED <<out, outFaults>>
    /\ UNCHANGED <<shown, overtaken, resume, accepted, sends, redriven>>

\* The call ends with the error and the cursor before the event, recorded or not.
FailDelivery(p) ==
    /\ CourierAt(p, "fail")
    /\ LET c == Event(p)
           over == out[c].attempts >= MaxSends
       IN out' = IF Holds(p, c)
                 THEN [out EXCEPT ![c] = [out[c] EXCEPT
                         !.status = IF over THEN "dead_lettered" ELSE "pending",
                         !.dead = @ \/ over, !.token = NoOne, !.ripe = FALSE]]
                 ELSE out
    /\ CourierTo(p, "return")
    /\ UNCHANGED <<shown, overtaken, resume, accepted, sends, redriven, outFaults>>

\* The host saves the cursor of the page, or of the error.
ReturnPage(p) ==
    /\ CourierAt(p, "return") \/ (CourierAt(p, "claim") /\ courier[p].page = {})
    /\ resume' = [resume EXCEPT ![p] = courier[p].cursor]
    /\ courier' = [courier EXCEPT ![p] = Resting]
    /\ UNCHANGED <<shown, overtaken, out, accepted, sends, redriven, outFaults>>

\* The process goes, or the signal is aborted between two events.
CourierGoes(p) ==
    /\ ~CourierAt(p, "idle") /\ OutFault
    /\ courier' = [courier EXCEPT ![p] = Resting]
    /\ UNCHANGED <<shown, overtaken, out, resume, accepted, sends, redriven>>

\* The retry delay or the lease of a delivery runs out.
Ripen(c) ==
    /\ out[c].status \in {"pending", "delivering"} /\ ~out[c].ripe
    /\ out' = [out EXCEPT ![c].ripe = TRUE]
    /\ UNCHANGED <<shown, overtaken, courier, resume, accepted, sends, redriven, outFaults>>

Redrive(c) ==
    /\ out[c].status = "dead_lettered" /\ \A d \in Cursor : redriven[d] < MaxRedrives
    /\ out' = [out EXCEPT ![c] = [@ EXCEPT !.status = "pending", !.attempts = 0, !.ripe = TRUE]]
    /\ redriven' = [redriven EXCEPT ![c] = @ + 1]
    /\ UNCHANGED <<shown, overtaken, courier, resume, accepted, sends, outFaults>>

OutboundNext ==
    \/ \E p \in Courier :
         \/ DeliverEvents(p) \/ ClaimDelivery(p) \/ LookAtDelivery(p) \/ SendRequest(p)
         \/ CompleteDelivery(p) \/ FailDelivery(p) \/ ReturnPage(p) \/ CourierGoes(p)
    \/ \E c \in Cursor : AppendEvent(c) \/ Ripen(c) \/ Redrive(c)

OutboundSpec == OutboundInit /\ [][OutboundNext]_outVars

(***************************************************************************)
(* Properties                                                              *)
(***************************************************************************)
\* An event that came into sight before every later one.  Of the others nothing
\* is promised: a cursor may have passed one before it could be read, and
\* nothing goes back for it.
OnTime(c) == c \in shown /\ c \notin overtaken

\* The cursor a caller gets, from a page or with an error, passes no timely event
\* but one that is delivered, or has been a dead letter.
CursorsAreSafe ==
    \A p \in Courier, c \in Cursor :
       OnTime(c) /\ (c <= resume[p] \/ c <= courier[p].cursor) =>
          out[c].status = "delivered" \/ out[c].dead

\* What is recorded as delivered the receiver has accepted.
DeliveredWasAccepted ==
    \A c \in Cursor : out[c].status = "delivered" => \E i \in DOMAIN accepted : accepted[i] = c

\* The receiver has the timely events in the order of the log, however many
\* callers deliver them, except those that were given up in between.
AcceptedInOrder ==
    \A i, j \in DOMAIN accepted : i < j /\ accepted[i] > accepted[j] =>
       out[accepted[j]].dead \/ ~OnTime(accepted[j])

\* No event is sent more often than the retry policy allows, each redrive
\* counted anew, whoever sends it and however the calls end.
SendsAreBounded == \A c \in Cursor : sends[c] <= MaxSends * (redriven[c] + 1)

\* Delivery to sinks by several callers with faults (Generation.deliverEvents,
\* claimOutboundEventDelivery, redriveOutboundEvent).
OutboundIsFaithful ==
    CursorsAreSafe /\ DeliveredWasAccepted /\ AcceptedInOrder /\ SendsAreBounded

=============================================================================
