---------------------------- MODULE EventStreams ----------------------------
(***************************************************************************)
(* Watching a generation over HTTP: Generation.stream (client.ts) pages    *)
(* the durable log, http.ts sends its events as server-sent frames, and    *)
(* generationStream of the web client reads them, reconnecting after the   *)
(* cursor it has (web-client.ts).  Connections break, requests fail, and   *)
(* the generation settles, is resumed or retried at any time.              *)
(*                                                                         *)
(* An event takes its cursor before its transaction commits, so that one   *)
(* may come into sight behind a reader; such an event is late.             *)
(***************************************************************************)
EXTENDS Naturals, Sequences, FiniteSets

CONSTANTS
    MaxLog,             \* bound: events of the generation
    DefaultEventLimit,  \* DEFAULT_EVENT_LIMIT, the length of a page
    MaxReconnects,      \* the client's maxReconnects
    MaxWire,            \* bound: frames between the server and the client
    MaxStreamFaults     \* bound: requests that fail and connections that break

Outcome  == {"succeeded", "failed", "cancelled"}
Settled  == Outcome \cup {"waiting"}

ASSUME StreamAssumption ==
    /\ {MaxLog, DefaultEventLimit, MaxWire} \subseteq Nat \ {0}
    /\ {MaxReconnects, MaxStreamFaults} \subseteq Nat

VARIABLES
    log,        \* the events by cursor: [type, shown]
    late,       \* bookkeeping: events that came into sight after a later one
    status,     \* the generation's status: "running" stands for queued, too
    server,     \* the connection's end at the host
    wire,       \* the frames under way
    client,     \* the reader
    streamFaults

streamVars == <<log, late, status, server, wire, client, streamFaults>>

Shown        == {c \in DOMAIN log : log[c].shown}
StreamFault  == streamFaults < MaxStreamFaults /\ streamFaults' = streamFaults + 1
NoConnection == [pc |-> "none"]
Connected    == server.pc # "none" /\ client.pc = "reading"

\* listGenerationEvents: the first shown events after a cursor.  A page is the set of its
\* cursors, which are sent from the least one on.
EventPage(after) ==
    {c \in Shown : c > after /\ Cardinality({d \in Shown : after < d /\ d < c}) < DefaultEventLimit}

----------------------------------------------------------------------------
(* The generation *)

\* appendGenerationEvent reads that the attempt runs and takes a cursor; its transaction is not
\* seen before it commits.
AppendHidden ==
    /\ status = "running" /\ Len(log) < MaxLog
    /\ log' = Append(log, [type |-> "delta", shown |-> FALSE])
    /\ UNCHANGED <<late, status, server, wire, client, streamFaults>>

ComeIntoSight(c) ==
    /\ ~log[c].shown
    /\ log' = [log EXCEPT ![c].shown = TRUE]
    /\ late' = IF \E d \in Shown : d > c THEN late \cup {c} ELSE late
    /\ UNCHANGED <<status, server, wire, client, streamFaults>>

\* A transition and its event are one transaction.
Transition(to) ==
    /\ Len(log) < MaxLog
    /\ IF to = "running" THEN status \in {"waiting", "failed", "cancelled"} ELSE status = "running"
    /\ status' = to
    /\ log' = Append(log, [type |-> to, shown |-> TRUE])
    /\ UNCHANGED <<late, server, wire, client, streamFaults>>

----------------------------------------------------------------------------
(* The host: Generation.stream, read by the frames' stream as the reader pulls *)

\* What the host does with a page, and after it: an empty one is done with at once.
Sending(page, next) ==
    [server EXCEPT !.pc = IF page = {} THEN next ELSE "send", !.page = page, !.next = next]

\* One call reads a page after the cursor; a full one is followed by another before the status
\* is looked at.
ReadPage ==
    /\ server.pc = "page"
    /\ LET page == EventPage(server.cursor) IN
       server' = Sending(page, IF Cardinality(page) = DefaultEventLimit THEN "page" ELSE "status")
    /\ UNCHANGED <<log, late, status, wire, client, streamFaults>>

SendEvent ==
    /\ server.pc = "send" /\ Len(wire) < MaxWire
    /\ \E c \in server.page :
         /\ \A d \in server.page : c <= d
         /\ wire' = Append(wire, c)
         /\ server' = [Sending(server.page \ {c}, server.next) EXCEPT !.cursor = c]
    /\ UNCHANGED <<log, late, status, client, streamFaults>>

\* As a slip would have it: a settled generation ends the stream at once.
NoFinalPage == "closed"

\* What a settled status leads to: one more page, for what came between the page and the status.
AfterSettled == "final"

\* Unless the generation has settled, the host waits and reads again.  `owed` remembers what
\* was there when the status was read.
ReadStatus ==
    /\ server.pc = "status"
    /\ server' = [server EXCEPT !.pc   = IF status \in Settled THEN AfterSettled ELSE "page",
                                !.owed = Shown]
    /\ UNCHANGED <<log, late, status, wire, client, streamFaults>>

\* The stream ends only after an empty last page.
ReadFinalPage ==
    /\ server.pc = "final"
    /\ LET page == EventPage(server.cursor) IN
       server' = IF page = {} THEN Sending(page, "closed") ELSE Sending(page, "page")
    /\ UNCHANGED <<log, late, status, wire, client, streamFaults>>

----------------------------------------------------------------------------
(* The client: generationStream *)

\* What follows a response that ended or broke: it counts when nothing new had come, and too
\* many in a row are VibyStreamDisconnectedError.
AfterResponse(c) ==
    LET n == IF c.received THEN c.reconnects ELSE c.reconnects + 1
    IN [c EXCEPT !.reconnects = n,
                 !.pc = IF n > MaxReconnects THEN "disconnected" ELSE "connecting"]

\* A request carries the cursor as Last-Event-ID.  It is answered with a stream, with a status
\* worth a retry, or with one that ends the watch.
RequestStream ==
    /\ client.pc = "connecting"
    /\ wire' = <<>>
    /\ \/ /\ server' = [pc |-> "page", cursor |-> client.cursor, page |-> {},
                        next |-> "page", owed |-> {}]
          /\ client' = [client EXCEPT !.pc = "reading", !.received = FALSE]
          /\ UNCHANGED streamFaults
       \/ /\ StreamFault /\ server' = NoConnection
          /\ client' \in {AfterResponse([client EXCEPT !.received = FALSE]),
                          [client EXCEPT !.pc = "refused"]}
    /\ UNCHANGED <<log, late, status>>

\* A frame that is not after the cursor was seen before.
IsNew(c) == c > client.cursor

\* A terminal event ends the watch; its connection is left to end by itself.
ReceiveFrame ==
    /\ Connected /\ wire # <<>>
    /\ LET c == Head(wire) IN
       /\ wire' = Tail(wire)
       /\ client' = IF IsNew(c)
                    THEN [client EXCEPT !.cursor = c, !.got = Append(@, c),
                                        !.received = TRUE, !.reconnects = 0,
                                        !.pc = IF log[c].type \in Outcome
                                               THEN "returned" ELSE "reading"]
                    ELSE client
    /\ UNCHANGED <<log, late, status, server, streamFaults>>

\* The host closed the stream, and all of its frames were read.
HostCloses ==
    /\ Connected /\ wire = <<>> /\ server.pc = "closed"
    /\ server' = NoConnection
    /\ client' = AfterResponse(client)
    /\ UNCHANGED <<log, late, status, wire, streamFaults>>

\* A broken connection takes the frames under way along and returns the host's iterator.  One
\* that is cut inside a frame and looks like an end is a VibyStreamProtocolError.
ConnectionBreaks ==
    /\ Connected /\ StreamFault
    /\ server' = NoConnection /\ wire' = <<>>
    /\ \/ client' = AfterResponse(client)
       \/ wire # <<>> /\ client' = [client EXCEPT !.pc = "refused"]
    /\ UNCHANGED <<log, late, status>>

----------------------------------------------------------------------------

\* The watch begins at the start of the log.
StreamInit ==
    /\ log = <<>> /\ late = {} /\ status = "running"
    /\ server = NoConnection /\ wire = <<>> /\ streamFaults = 0
    /\ client = [pc |-> "connecting", cursor |-> 0, got |-> <<>>,
                 reconnects |-> 0, received |-> FALSE]

StreamNext ==
    \/ AppendHidden
    \/ \E c \in DOMAIN log : ComeIntoSight(c)
    \/ \E to \in Settled \cup {"running"} : Transition(to)
    \/ ReadPage \/ SendEvent \/ ReadStatus \/ ReadFinalPage
    \/ RequestStream \/ ReceiveFrame \/ HostCloses \/ ConnectionBreaks

StreamSpec == StreamInit /\ [][StreamNext]_streamVars

----------------------------------------------------------------------------

\* Every event is handed to the consumer at most once and in order, over any reconnects.
InOrder == \A i, j \in DOMAIN client.got : i < j => client.got[i] < client.got[j]

\* Behind the client's cursor nothing that was in sight in time is missing.
NothingMissed ==
    \A c \in Shown \ late : c <= client.cursor => \E i \in DOMAIN client.got : client.got[i] = c

\* A stream that the host ended had brought everything there was when the generation was found
\* settled: whoever reads it without reconnecting sees the event that settled it.
EndsAreComplete ==
    server.pc = "closed" => \A c \in server.owed \ late : c <= server.cursor

\* A watch over broken connections tells the consumer what a single uninterrupted one would
\* have: in order, without repetition or gaps, and to the end (generationStream of the web
\* client over Generation.stream, whose ends are those of the log).
StreamsAreFaithful == InOrder /\ NothingMissed /\ EndsAreComplete

=============================================================================
