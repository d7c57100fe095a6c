------------------------------ MODULE Listings ------------------------------
(* Pages of chats, messages, versions and design evaluations, read one      *)
(* after another while rows are written.  A page is a query of its own; the *)
(* cursor names the last row read, by its time in milliseconds and its id.  *)
(* One listing moves at a time: `listing` says which, and in which          *)
(* repository.                                                              *)
EXTENDS Naturals, Sequences, FiniteSets

CONSTANTS
    RowId,        \* ids (naturals: they are compared)
    MaxPageTime,  \* bound: the clock, in microseconds
    MaxPending    \* bound: transactions of one collection at a time

ASSUME ListingsAssumption == RowId \subseteq Nat

\* The clock of PostgreSQL is finer than a cursor: a millisecond is two ticks.
Tick == 2
Ms(at) == at \div Tick

VARIABLES
    listing,      \* [of, repo]: the collection that is read, where it is kept
    pageClock,
    listed,       \* the committed rows of each collection: [id, at, by]
    uncommitted,  \* transactions that have written and not committed
    walk,         \* the reader: cursor, pages read so far, and those rows of the
                  \* start that nobody has written since
    snap          \* the last ChatCollection.snapshot
lsVars == <<listing, pageClock, listed, uncommitted, walk, snap>>

Collections == {"chats", "messages", "versions", "evaluations"}
NoCursor == [k |-> "none", at |-> 0, id |-> 0]
NoWalk   == [status |-> "none", limit |-> 1, cursor |-> NoCursor, read |-> <<>>, first |-> {}]
NoSnap   == [whole |-> FALSE, messages |-> {}, versions |-> {}]

ListingsAt(of, repo) ==
    /\ listing = [of |-> of, repo |-> repo]
    /\ pageClock = 0
    /\ listed = [c \in Collections |-> {}]
    /\ uncommitted = {}
    /\ walk = NoWalk
    /\ snap = NoSnap

ListingsInit == \E of \in Collections, repo \in {"postgres", "memory"} : ListingsAt(of, repo)
ListingsIdle == ListingsAt("chats", "memory")

(***************************************************************************)
(* Pages                                                                   *)
(***************************************************************************)
Less(at1, id1, at2, id2) == at1 < at2 \/ (at1 = at2 /\ id1 < id2)

\* Messages are listed from the first, everything else from the last.
Ascending(coll) == coll = "messages"

Precedes(coll, r, s) ==
    IF Ascending(coll) THEN Less(Ms(r.at), r.id, Ms(s.at), s.id)
                       ELSE Less(Ms(s.at), s.id, Ms(r.at), r.id)

BehindCursor(coll, r, cursor) ==
    \/ cursor = NoCursor
    \/ IF Ascending(coll) THEN Less(cursor.at, cursor.id, Ms(r.at), r.id)
                          ELSE Less(Ms(r.at), r.id, cursor.at, cursor.id)

\* A page is a set of rows, which its query puts in order.
RowsBehind(coll, cursor) == {r \in listed[coll] : BehindCursor(coll, r, cursor)}
First(coll, rows, n) == {r \in rows : Cardinality({s \in rows : Precedes(coll, s, r)}) < n}
Cut(coll, rows, limit) ==
    [items |-> First(coll, rows, limit), hasMore |-> Cardinality(rows) > limit]

\* PostgreSQL takes one row more than the limit of those behind the cursor.
SelectedPage(coll, limit, cursor) ==
    Cut(coll, First(coll, RowsBehind(coll, cursor), limit + 1), limit)

\* The in-memory repository has all of them in its hands.
FilteredPage(coll, limit, cursor) == Cut(coll, RowsBehind(coll, cursor), limit)

PageOf(coll, limit, cursor) ==
    IF listing.repo = "postgres" THEN SelectedPage(coll, limit, cursor)
                                 ELSE FilteredPage(coll, limit, cursor)

EncodeCursor(coll, r) == [k |-> coll, at |-> Ms(r.at), id |-> r.id]
\* A cursor of another resource is refused.
DecodeCursor(coll, cursor) == {c \in {cursor} : c.k \in {coll, "none"}}

LastOf(coll, rows) == CHOOSE r \in rows : \A s \in rows : s = r \/ Precedes(coll, s, r)
NextCursor(coll, page) ==
    IF page.hasMore THEN EncodeCursor(coll, LastOf(coll, page.items)) ELSE NoCursor

OpenWalk ==
    /\ walk.status = "none"
    /\ \E limit \in {1, 2} :
         walk' = [NoWalk EXCEPT !.status = "reading", !.limit = limit,
                                !.first = listed[listing.of]]
    /\ UNCHANGED <<listing, pageClock, listed, uncommitted, snap>>

ReadNextPage ==
    /\ walk.status = "reading"
    /\ \E cursor \in DecodeCursor(listing.of, walk.cursor) :
         LET page == PageOf(listing.of, walk.limit, cursor)
         IN walk' = [walk EXCEPT !.read = Append(@, page.items),
                                 !.cursor = NextCursor(listing.of, page),
                                 !.status = IF page.hasMore THEN "reading" ELSE "over"]
    /\ UNCHANGED <<listing, pageClock, listed, uncommitted, snap>>

\* The first pages of the messages and versions of a chat, in one statement
\* (PostgreSQL) or in one turn of the event loop (memory).
ReadSnapshot ==
    /\ listing.of = "versions" /\ walk.status = "none"
    /\ LET messages == PageOf("messages", 2, NoCursor)
           versions == PageOf("versions", 2, NoCursor)
       IN snap' = [whole    |-> ~messages.hasMore /\ ~versions.hasMore,
                   messages |-> {r.by : r \in messages.items},
                   versions |-> {r.by : r \in versions.items}]
    /\ UNCHANGED <<listing, pageClock, listed, uncommitted, walk>>

(***************************************************************************)
(* Rows                                                                    *)
(***************************************************************************)
\* now(): of the transaction in PostgreSQL, of the call in memory, where Date
\* counts milliseconds.
Now == IF listing.repo = "postgres" THEN pageClock ELSE Ms(pageClock) * Tick

Ids(coll) == {r.id : r \in listed[coll]} \cup {w.row.id : w \in uncommitted}
NewRow(id, at) == [id |-> id, at |-> at, by |-> id]

\* What a call writes is there at once in memory; in PostgreSQL it has the time
\* at which the transaction began and is seen when that commits.
PutRow(coll, row) == {r \in listed[coll] : r.id # row.id} \cup {row}
\* A row that is written, or leaves, no longer stands where it was.
Unsettles(ids) == walk' = [walk EXCEPT !.first = {r \in @ : r.id \notin ids}]
WriteRow(coll, row) ==
    \/ /\ listing.repo = "memory"
       /\ listed' = [listed EXCEPT ![coll] = PutRow(coll, row)]
       /\ Unsettles({row.id})
       /\ UNCHANGED uncommitted
    \/ /\ listing.repo = "postgres"
       /\ Cardinality(uncommitted) < MaxPending
       /\ uncommitted' = uncommitted \cup {[coll |-> coll, row |-> row, version |-> FALSE]}
       /\ UNCHANGED <<listed, walk>>

\* Nothing is written once the reader has the last page (a bound).
Open == walk.status # "over"

\* createChat; updateChat and restoreChat, which set the time again; another
\* writer of the same chat waits for this one, with its own time taken.
WriteChat ==
    /\ listing.of = "chats" /\ Open
    /\ \E id \in RowId :
         /\ ~\E w \in uncommitted : w.row.id = id /\ w.row.at = Now
         /\ WriteRow("chats", NewRow(id, Now))
    /\ UNCHANGED <<listing, pageClock, snap>>

\* Deleted, or given metadata that the reader's filter does not contain.
HideChat ==
    /\ listing.of = "chats" /\ Open
    /\ \E r \in listed["chats"] :
         /\ listed' = [listed EXCEPT !["chats"] = @ \ {r}]
         /\ Unsettles({r.id})
    /\ UNCHANGED <<listing, pageClock, uncommitted, snap>>

CreateDesignEvaluation ==
    /\ listing.of = "evaluations" /\ Open
    /\ \E id \in RowId \ Ids("evaluations") : WriteRow("evaluations", NewRow(id, Now))
    /\ UNCHANGED <<listing, pageClock, snap>>

\* A message is timed while its transaction holds the chat's row, a millisecond
\* or more after the last one.
ChatIsLocked == \E w \in uncommitted : w.coll = "messages"

\* A plausible bug: the clock's time, whatever the last message has.
MessageTimeIsNow == Now

MessageTime ==
    LET times == {r.at : r \in listed["messages"]}
        floor == {(Ms(t) + 1) * Tick : t \in times}
    IN CHOOSE t \in floor \cup {Now} : \A s \in floor \cup {Now} : s <= t

\* With the message comes, when the generation made one, its version.
VersionRow(by) ==
    [id |-> Cardinality(listed["versions"]) + 1, at |-> 0, by |-> by]

WithVersion(makes, by) == IF makes THEN {VersionRow(by)} ELSE {}

InsertMessage ==
    /\ listing.of \in {"messages", "versions"} /\ Open
    /\ ~ChatIsLocked
    /\ \E id \in RowId \ Ids("messages"), makes \in BOOLEAN :
         LET row == NewRow(id, MessageTime)
         IN IF listing.repo = "memory"
            THEN /\ listed' = [listed EXCEPT !["messages"] = PutRow("messages", row),
                                             !["versions"] = @ \cup WithVersion(makes, id)]
                 /\ UNCHANGED uncommitted
            ELSE /\ uncommitted' = {[coll |-> "messages", row |-> row, version |-> makes]}
                 /\ UNCHANGED listed
    /\ UNCHANGED <<listing, pageClock, walk, snap>>

CommitRows ==
    /\ Open
    /\ \E w \in uncommitted :
         /\ listed' = [listed EXCEPT ![w.coll] = PutRow(w.coll, w.row),
                                     !["versions"] = @ \cup WithVersion(w.version, w.row.by)]
         /\ uncommitted' = uncommitted \ {w}
         /\ Unsettles(IF w.coll = listing.of THEN {w.row.id} ELSE {})
    /\ UNCHANGED <<listing, pageClock, snap>>

RollBackRows ==
    /\ Open
    /\ \E w \in uncommitted : uncommitted' = uncommitted \ {w}
    /\ UNCHANGED <<listing, pageClock, listed, walk, snap>>

TimePasses ==
    /\ pageClock < MaxPageTime /\ Open
    /\ pageClock' = pageClock + 1
    /\ UNCHANGED <<listing, listed, uncommitted, walk, snap>>

ListingsNext ==
    \/ OpenWalk \/ ReadNextPage \/ ReadSnapshot
    \/ WriteChat \/ HideChat \/ CreateDesignEvaluation
    \/ InsertMessage \/ CommitRows \/ RollBackRows \/ TimePasses

ListingsSpec == ListingsInit /\ [][ListingsNext]_lsVars

(***************************************************************************)
(* Properties                                                              *)
(***************************************************************************)
\* One page after the other the rows are in the listing's order: no page takes up
\* again what an earlier one has passed.
WalkKeepsOrder ==
    \A i, j \in DOMAIN walk.read : i < j =>
       \A r \in walk.read[i], s \in walk.read[j] : Precedes(listing.of, r, s)

\* A row that is where it was from the first page to the last is read.
AllRead == UNION {walk.read[i] : i \in DOMAIN walk.read}
StandingRowsAreRead == walk.status = "over" => walk.first \subseteq AllRead

\* A message that commits after a page was read is not behind its cursor: a
\* reader who keeps the cursor of the last page reads every message.
NoMessageIsPassed ==
    listing.of = "messages" /\ walk.cursor # NoCursor =>
       \A r \in listed["messages"] :
          BehindCursor("messages", r, walk.cursor) \/ r \in AllRead

\* A snapshot that shows all messages and versions shows a version exactly if
\* it shows the message that its generation ended with.
SnapshotIsWhole ==
    snap.whole =>
       snap.versions = {r.by : r \in listed["versions"]} \cap snap.messages

\* Paging through a chat's rows while others write them (list*Page,
\* insertMessage, readChatSnapshot).
PagesAreFaithful ==
    WalkKeepsOrder /\ StandingRowsAreRead /\ NoMessageIsPassed /\ SnapshotIsWhole

=============================================================================
