------------------------------ MODULE Feedback ------------------------------
(* Ratings of generated messages: immutable records, the one that is        *)
(* selected, replays under an idempotency key, and the counts over them.    *)
(* Kept in PostgreSQL, in memory, or in memory behind a SQLite snapshot     *)
(* that is imported again.                                                  *)
EXTENDS Naturals, Sequences, FiniteSets

CONSTANTS
    FeedbackId,   \* ids, as many as there can be records (naturals: they are compared)
    FeedbackKey,  \* idempotency keys
    MaxFeedbackTime, \* bound: the clock, in milliseconds
    MaxRating     \* bound: transactions that rate at one time

ASSUME FeedbackAssumption == FeedbackId \subseteq Nat \ {0}

VARIABLES
    fbRepo,       \* where the records are kept
    fbClock,
    ratings,      \* the records, in the order in which they were stored
    selection,    \* the id selected for each message, or NoId
    rating,       \* calls whose transaction began: [input, at]
    answered,     \* what the last caller was answered: [input, id]
    imported      \* messages whose selection an imported snapshot has set
fbVars == <<fbRepo, fbClock, ratings, selection, rating, answered, imported>>

NoId  == 0
NoKey == "none"
\* Two assistant messages: the generation of one made a version.  A user's
\* message, or one without parts of an attempt, cannot be rated.
Rated == {"changed", "inspected"}

\* Metadata is an object of two keys, and remembers the order they came in;
\* jsonb has an order of its own.
Metadata == {<<>>, <<"b", "a">>}
Jsonb(meta) == IF meta = <<>> THEN <<>> ELSE <<"a", "b">>

\* Reasons and comment vary like the rating; metadata matters to a replay only,
\* and one message is enough to vary what is said of it.
Input ==
    {i \in [message : Rated, rating : {"positive", "negative"}, meta : Metadata,
            key : FeedbackKey \cup {NoKey}] :
        /\ i.meta # <<>> => i.key # NoKey /\ i.rating = "positive"
        /\ i.message = "inspected" => i.rating = "positive" /\ i.meta = <<>>}

FeedbackInit ==
    /\ fbRepo \in {"postgres", "memory", "sqlite"}
    /\ fbClock = 0 /\ ratings = <<>> /\ rating = {} /\ answered = {}
    /\ selection = [m \in Rated |-> NoId]
    /\ imported = {}

FeedbackIdle ==
    /\ fbRepo = "memory"
    /\ fbClock = 0 /\ ratings = <<>> /\ rating = {} /\ answered = {}
    /\ selection = [m \in Rated |-> NoId]
    /\ imported = {}

Records == {ratings[i] : i \in DOMAIN ratings}
RecordOf(id) == CHOOSE r \in Records : r.id = id

ExistingFeedback(input) ==
    {r \in Records : input.key # NoKey /\ r.key = input.key /\ r.message = input.message}

\* What the message's generation, attempt and version say of it now.
Attribution(message) == [engine |-> "model", version |-> message = "changed"]

\* The metadata is compared as text, as it was stored.
StoredMeta(meta) == IF fbRepo = "postgres" THEN Jsonb(meta) ELSE meta
SameInput(r, input) == r.rating = input.rating /\ r.meta = input.meta

Record(input, id, at) ==
    [id |-> id, message |-> input.message, rating |-> input.rating, key |-> input.key,
     meta |-> StoredMeta(input.meta), at |-> at, dims |-> Attribution(input.message)]

\* A plausible bug: an answered replay is selected again.
SelectsReplay(input, id) == [selection EXCEPT ![input.message] = id]

\* A new record is selected, a replay changes nothing.
Selects(input, id) ==
    IF ExistingFeedback(input) = {} THEN [selection EXCEPT ![input.message] = id] ELSE selection

FreeIds == FeedbackId \ {r.id : r \in Records}

\* The record of the key, if it says the same, or a new one.  Ids are random.
StoreFeedback(input, at) ==
    IF ExistingFeedback(input) # {}
    THEN \E r \in ExistingFeedback(input) :
           /\ SameInput(r, input)
           /\ answered' = {[input |-> input, id |-> r.id]}
           /\ selection' = Selects(input, r.id)
           /\ UNCHANGED <<ratings, imported>>
    ELSE \E id \in FreeIds :
           /\ ratings' = Append(ratings, Record(input, id, at))
           /\ selection' = Selects(input, id)
           /\ answered' = {[input |-> input, id |-> id]}
           /\ imported' = imported \ {input.message}

\* In memory the call is one step.
SubmitFeedback ==
    /\ fbRepo # "postgres"
    /\ \E input \in Input : StoreFeedback(input, fbClock)
    /\ UNCHANGED <<fbRepo, fbClock, rating>>

\* In PostgreSQL created_at is the time at which the transaction began; one of
\* the same key waits at the unique index, any other at the selection.
BeginFeedback ==
    /\ fbRepo = "postgres" /\ Cardinality(rating) < MaxRating
    /\ \E input \in Input : rating' = rating \cup {[input |-> input, at |-> fbClock]}
    /\ UNCHANGED <<fbRepo, fbClock, ratings, selection, answered, imported>>

CommitFeedback ==
    /\ \E c \in rating :
         /\ StoreFeedback(c.input, c.at)
         /\ rating' = rating \ {c}
    /\ UNCHANGED <<fbRepo, fbClock>>

\* The key was used with another input, the message is gone, or the server.
RefuseFeedback ==
    /\ \E c \in rating : rating' = rating \ {c}
    /\ UNCHANGED <<fbRepo, fbClock, ratings, selection, answered, imported>>

\* The order of listMessageFeedback.
Before(r, s) == r.at < s.at \/ (r.at = s.at /\ r.id < s.id)
Latest(S) == CHOOSE r \in S : \A s \in S \ {r} : Before(s, r)

\* A snapshot of any age selects, of each message, the last record listed.
ImportState ==
    /\ fbRepo = "sqlite"
    /\ selection' = [m \in Rated |->
         LET mine == {r \in Records : r.message = m}
         IN IF mine = {} THEN NoId ELSE Latest(mine).id]
    /\ imported' = {r.message : r \in Records}
    /\ UNCHANGED <<fbRepo, fbClock, ratings, rating, answered>>

FeedbackTime ==
    /\ fbClock < MaxFeedbackTime
    /\ fbClock' = fbClock + 1
    /\ UNCHANGED <<fbRepo, ratings, selection, rating, answered, imported>>

FeedbackNext ==
    \/ SubmitFeedback \/ BeginFeedback \/ CommitFeedback \/ RefuseFeedback
    \/ ImportState \/ FeedbackTime

FeedbackSpec == FeedbackInit /\ [][FeedbackNext]_fbVars

(***************************************************************************)
(* Analytics                                                               *)
(***************************************************************************)
\* A query groups by some dimensions, counts records of a span of time, and
\* returns the fullest buckets.
Queries == [groupBy : SUBSET {"engine", "version"}, from : 0..MaxFeedbackTime, limit : {1}]

Dimensions(r, groupBy) == [d \in groupBy |-> r.dims[d]]
Counted(q) == {r \in Records : r.at >= q.from}
Count(S, which) == Cardinality({r \in S : r.rating = which})

Bucket(q, dims) ==
    LET mine == {r \in Counted(q) : Dimensions(r, q.groupBy) = dims}
    IN [dims |-> dims, positive |-> Count(mine, "positive"),
        negative |-> Count(mine, "negative"), total |-> Cardinality(mine)]

AllBuckets(q) == {Bucket(q, Dimensions(r, q.groupBy)) : r \in Counted(q)}

SumOfTotals(buckets) ==
    LET sum[S \in SUBSET buckets] ==
          IF S = {} THEN 0 ELSE LET b == CHOOSE c \in S : TRUE IN b.total + sum[S \ {b}]
    IN sum

\* The fullest come first; those of one size go by the text of their dimensions.
Fuller(b, c) ==
    \/ b.total > c.total
    \/ b.total = c.total /\ b.dims # c.dims /\ "version" \in DOMAIN b.dims /\ ~b.dims["version"]

\* The totals count what the limit cuts off too.
Analytics(q) ==
    [buckets  |-> {b \in AllBuckets(q) :
                     Cardinality({c \in AllBuckets(q) : Fuller(c, b)}) < q.limit},
     positive |-> Count(Counted(q), "positive"), negative |-> Count(Counted(q), "negative")]

(***************************************************************************)
(* Properties                                                              *)
(***************************************************************************)
\* A key is used once for a message, and whoever was answered got a record
\* that says what was submitted: a retry neither votes twice nor rewrites.
OneVotePerKey ==
    /\ \A i, j \in DOMAIN ratings :
          i # j /\ ratings[i].key # NoKey /\ ratings[i].key = ratings[j].key
             => ratings[i].message # ratings[j].message
    /\ \A a \in answered : \E r \in Records :
          /\ r.id = a.id
          /\ r.message = a.input.message /\ r.rating = a.input.rating /\ r.key = a.input.key

\* The last record stored for a message is selected, whatever was replayed
\* since; an imported snapshot tells only records of different milliseconds apart.
SelectionIsNewest ==
    \A m \in Rated :
       LET mine == {i \in DOMAIN ratings : ratings[i].message = m}
       IN IF mine = {} THEN selection[m] = NoId
          ELSE \E last \in mine :
                 /\ \A i \in mine : i <= last
                 /\ \/ selection[m] = ratings[last].id
                    \/ m \in imported /\ RecordOf(selection[m]).at = ratings[last].at

\* Buckets are disjoint and cover what the totals count; the fullest are returned.
CountsAgree ==
    \A q \in Queries :
       LET answer == Analytics(q)
       IN /\ SumOfTotals(AllBuckets(q))[AllBuckets(q)] = answer.positive + answer.negative
          /\ \A b \in answer.buckets, c \in AllBuckets(q) \ answer.buckets : b.total >= c.total
          /\ Cardinality(answer.buckets) =
               IF q.limit < Cardinality(AllBuckets(q)) THEN q.limit
                                                       ELSE Cardinality(AllBuckets(q))

\* Votes are counted once and the user's last one is shown (createMessageFeedback,
\* importState, queryMessageFeedbackAnalytics).
VotesAreCounted == OneVotePerKey /\ SelectionIsNewest /\ CountsAgree

=============================================================================
