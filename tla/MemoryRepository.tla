------------------------- MODULE MemoryRepository --------------------------
(***************************************************************************)
(* The repository of tests and of embedded installations: the rows of the  *)
(* database kept in maps (src/memory-repository.ts), and beneath the       *)
(* SQLite adapter, whose processes take turns (SqliteSnapshots).  A method *)
(* is one step here, because that adapter runs one at a time.              *)
(*                                                                         *)
(* `area` chooses what a behaviour is about: the generations of a chat,    *)
(* with every bound of its own, or the rows that hang on a chat.  An       *)
(* attempt is its number; its lease is the token that holds it and whether *)
(* it has run out.  Lists and getters write nothing and are left out.      *)
(***************************************************************************)
EXTENDS Integers, FiniteSets

CONSTANTS
    LocalGeneration, LocalToken, LocalKey,
    NoLocal,           \* no generation, no token, no key
    MaxLocalAttempts,  \* attempts of one generation
    MaxLocalVersions,  \* versions of one chat
    MaxLocalEdits,     \* versions of it that no generation made
    MaxLocalRows,      \* rows beside chats, generations and versions
    MaxLocalTries      \* attempts of one outbound delivery

ASSUME LocalAssumption ==
    /\ NoLocal \notin LocalGeneration
    /\ MaxLocalAttempts \in Nat /\ MaxLocalVersions \in Nat

VARIABLES
    area,
    chat,      \* the one chat that is written to: "live", "deleted", "due" or "purged"
    gens,      \* generation -> its row with its active attempt
    versions,  \* the versions of the chat
    rows       \* every other row

localVars == <<area, chat, gens, versions, rows>>

Absent == [status |-> "absent", after |-> NoLocal, operation |-> "change", base |-> 0,
           attempt |-> 0, holder |-> NoLocal, live |-> FALSE, steer |-> FALSE, task |-> 0]

Exists(g) == gens[g].status # "absent"
AnyStatus(g) == Exists(g)
Unsettled(g) == gens[g].status \in {"queued", "running", "waiting"}
Change(g, r) == gens' = [gens EXCEPT ![g] = r]
Leased(g, t) == gens[g].status = "running" /\ gens[g].holder = t /\ gens[g].live
VersionsFrom(g) == {v \in versions : v.gen = g}
Newest == CHOOSE n \in {0} \cup {v.number : v \in versions} : \A v \in versions : v.number <= n

OnlyGens == UNCHANGED <<area, chat, versions, rows>>
OnlyRows == UNCHANGED <<area, chat, gens, versions>>

-----------------------------------------------------------------------------
(* Generations *)

\* The client offers only a change of the same chat as predecessor.
CreateGeneration(g, p, op) ==
    /\ area = "work" /\ chat = "live" /\ ~Exists(g)
    /\ p # NoLocal => Exists(p) /\ gens[p].operation = "change"
    /\ Change(g, [Absent EXCEPT !.status = "queued", !.after = p, !.operation = op,
                                !.base = Newest, !.attempt = 1])
    /\ OnlyGens

\* A follow-up waits for the version of its predecessor and starts from it.
Ready(g) ==
    gens[g].after # NoLocal =>
        gens[gens[g].after].status = "succeeded" /\ VersionsFrom(gens[g].after) # {}

Base(g) == IF gens[g].after = NoLocal THEN gens[g].base
           ELSE (CHOOSE v \in VersionsFrom(gens[g].after) : TRUE).number

StartAttempt(g) ==
    /\ gens[g].status = "queued" /\ Ready(g)
    /\ Change(g, [gens[g] EXCEPT !.status = "running", !.base = Base(g)])
    /\ OnlyGens

Claim(g, t) ==
    /\ gens[g].status \in {"queued", "running"} /\ ~gens[g].live /\ Ready(g)
    /\ chat # "purged"
    /\ Change(g, [gens[g] EXCEPT !.status = "running", !.base = Base(g),
                                 !.holder = t, !.live = TRUE])
    /\ OnlyGens

\* Nobody has called heartbeatGenerationAttempt in time.
LeaseExpires(g) ==
    /\ gens[g].live
    /\ Change(g, [gens[g] EXCEPT !.live = FALSE])
    /\ OnlyGens

\* A new attempt, whose number follows and which nobody has claimed.
Again(r) == [r EXCEPT !.status = "queued", !.attempt = @ + 1, !.holder = NoLocal, !.live = FALSE]

CreateAttempt(g, reason) ==
    /\ gens[g].status \in IF reason = "retry" THEN {"failed", "cancelled"}
                          ELSE {"failed", "cancelled", "queued", "running"}
    /\ gens[g].status \in {"queued", "running"} => ~gens[g].live
    /\ gens[g].attempt < MaxLocalAttempts
    /\ Change(g, Again(gens[g]))
    /\ OnlyGens

Steer(g) ==
    /\ Unsettled(g) /\ ~gens[g].steer
    /\ Change(g, [gens[g] EXCEPT !.steer = TRUE])
    /\ OnlyGens

ConsumeSteering(g, t) ==
    /\ Leased(g, t) /\ gens[g].steer
    /\ Change(g, [gens[g] EXCEPT !.steer = FALSE])
    /\ OnlyGens

Settled(r, s) == [r EXCEPT !.status = s, !.live = FALSE]

\* completeGeneration numbers by counting, createSourceVersion by the highest number.
Complete(g, t) ==
    /\ Leased(g, t) /\ gens[g].operation = "change" /\ ~gens[g].steer
    /\ Cardinality(versions) < MaxLocalVersions
    /\ versions' = versions \cup
         {[number |-> Cardinality(versions) + 1, gen |-> g, parent |-> gens[g].base]}
    /\ Change(g, Settled(gens[g], "succeeded"))
    /\ UNCHANGED <<area, chat, rows>>

CompleteResponse(g, t) ==
    /\ Leased(g, t) /\ gens[g].operation = "inspect" /\ ~gens[g].steer
    /\ Change(g, Settled(gens[g], "succeeded"))
    /\ OnlyGens

\* Which of several tasks is pending is left out: any of them takes the generation on.
Pause(g, t) ==
    /\ Leased(g, t) /\ ~gens[g].steer
    /\ Change(g, [Settled(gens[g], "waiting") EXCEPT !.task = gens[g].attempt])
    /\ OnlyGens

ResolveTask(g) ==
    /\ gens[g].status = "waiting" /\ gens[g].task # 0
    /\ gens[g].attempt < MaxLocalAttempts
    /\ Change(g, [Again(gens[g]) EXCEPT !.task = 0])
    /\ OnlyGens

FailAttempt(g, t) ==
    /\ Leased(g, t)
    /\ Change(g, Settled(gens[g], "failed"))
    /\ OnlyGens

RepairAttempt(g, t) ==
    /\ Leased(g, t) /\ gens[g].attempt < MaxLocalAttempts
    /\ Change(g, Again(gens[g]))
    /\ OnlyGens

CancelGeneration(g) ==
    /\ Unsettled(g)
    /\ Change(g, Settled(gens[g], "cancelled"))
    /\ OnlyGens

-----------------------------------------------------------------------------
(* Versions and chats *)

SourceVersion(parent) == [number |-> Newest + 1, gen |-> NoLocal, parent |-> parent]
RoomForEdit ==
    /\ Cardinality(versions) < MaxLocalVersions
    /\ Cardinality(VersionsFrom(NoLocal)) < MaxLocalEdits

CreateSourceVersion ==
    \E v \in versions :
        /\ area = "work" /\ chat = "live" /\ RoomForEdit
        /\ versions' = versions \cup {SourceVersion(v.number)}
        /\ UNCHANGED <<area, chat, gens, rows>>

\* restoreVersion copies the files of an older version under a new number.
RestoreVersion ==
    \E v \in versions :
        /\ area = "work" /\ chat = "live" /\ RoomForEdit /\ v.number < Newest
        /\ versions' = versions \cup {SourceVersion(v.number)}
        /\ UNCHANGED <<area, chat, gens, rows>>

DeleteChat ==
    /\ chat = "live" /\ \A g \in LocalGeneration : ~Unsettled(g)
    /\ chat' = "deleted"
    /\ UNCHANGED <<area, gens, versions, rows>>

RestoreChat ==
    /\ chat = "deleted"
    /\ chat' = "live"
    /\ UNCHANGED <<area, gens, versions, rows>>

\* The retention ends: the chat cannot be restored and may be purged.
RetentionEnds ==
    /\ chat = "deleted" /\ area = "rows"
    /\ chat' = "due"
    /\ UNCHANGED <<area, gens, versions, rows>>

\* Kinds of rows that purgeDeletedChats removes with the chat, one loop for each.
Removed ==
    {"message", "event", "attribution", "toolCall", "skills", "evaluation", "feedback",
     "attachment", "artifact", "visual", "deploymentArtifact", "lease", "preview", "chatSource"}

\* What the foreign keys of the schema say instead.  PostgreSQL only deletes the chat, and
\* ON DELETE CASCADE takes its generations and versions and whatever refers to one of the
\* three; rows of attempts, messages and deployments refer to one of them as well.
RefersToChat ==
    {"message", "attachment", "evaluation", "artifact", "visual", "link", "push", "project",
     "deployment", "deploymentArtifact", "lease", "preview", "chatSource", "feedback",
     "attribution"}
RefersToGeneration ==
    {"skills", "event", "toolCall", "delivery", "attachment", "artifact", "checkpoint",
     "feedback", "attribution", "cursor"}
RefersToVersion ==
    {"lease", "evaluation", "visual", "push", "deployment", "deploymentArtifact", "preview"}
Cascaded == RefersToChat \cup RefersToGeneration \cup RefersToVersion

PurgeChatOnly ==
    /\ chat = "due"
    /\ chat' = "purged"
    /\ gens' = [g \in LocalGeneration |-> Absent]
    /\ versions' = {}
    /\ UNCHANGED <<area, rows>>

PurgeChat ==
    /\ chat = "due"
    /\ chat' = "purged"
    /\ gens' = [g \in LocalGeneration |-> Absent]
    /\ versions' = {}
    /\ rows' = {r \in rows : r.kind \notin Removed}
    /\ UNCHANGED area

-----------------------------------------------------------------------------
(* The other rows.  `key` is an identifier, or the idempotency key a caller  *)
(* chose; `of` is the row or the token that a row refers to.                 *)

Row(kind, k) == {r \in rows : r.kind = kind /\ r.key = k}
New(kind, k, s, of) == [kind |-> kind, key |-> k, status |-> s, of |-> of, tries |-> 0]
Room == area = "rows" /\ Cardinality(rows) < MaxLocalRows
Insert(kind, k, s, of) ==
    /\ Room /\ Row(kind, k) = {}
    /\ rows' = rows \cup {New(kind, k, s, of)}
    /\ OnlyRows
Replace(r, q) == rows' = (rows \ {r}) \cup {q} /\ OnlyRows
Mark(r, s) == Replace(r, [r EXCEPT !.status = s])

\* Every lifecycle method appends events; runs append theirs under their lease.
AppendEvent(k) ==
    \E g \in LocalGeneration, t \in LocalToken : Leased(g, t) /\ Insert("event", k, "kept", NoLocal)

\* A message comes with its attachments or its generated artifacts.
AddMessage(k) ==
    \E g \in LocalGeneration : Unsettled(g) /\ Insert("message", k, "kept", NoLocal)
AddAttachment(k) == Row("message", k) # {} /\ Insert("attachment", k, "kept", NoLocal)
AddGeneratedArtifact(k) == Row("message", k) # {} /\ Insert("artifact", k, "kept", NoLocal)

\* The same key with the same input returns the first row, with another input it is refused.
CreateAttribution(k) ==
    \E g \in LocalGeneration, t \in LocalToken :
        Leased(g, t) /\ Insert("attribution", k, "kept", NoLocal)

SaveCheckpoint(k) ==
    \E g \in LocalGeneration, t \in LocalToken :
        Leased(g, t) /\ Insert("checkpoint", k, "kept", NoLocal)

ClearCheckpoint(k) ==
    \E g \in LocalGeneration, t \in LocalToken, r \in Row("checkpoint", k) :
        Leased(g, t) /\ rows' = rows \ {r} /\ OnlyRows

\* The skills of a generation are those of its first attempt.
AttachSkills(k) ==
    \E g \in LocalGeneration, t \in LocalToken :
        Leased(g, t) /\ (\A r \in rows : r.kind # "skills") /\ Insert("skills", k, "kept", NoLocal)

CreateToolCall(k) ==
    \E g \in LocalGeneration, t \in LocalToken :
        Leased(g, t) /\ Insert("toolCall", k, "pending", NoLocal)

SettleToolCall(k, s) ==
    \E g \in LocalGeneration, t \in LocalToken, r \in Row("toolCall", k) :
        r.status = "pending" /\ Leased(g, t) /\ Mark(r, s)

CreateEvaluation(k) == chat = "live" /\ versions # {} /\ Insert("evaluation", k, "kept", NoLocal)
CreateVisual(k) == versions # {} /\ Insert("visual", k, "kept", NoLocal)
CreateFeedback(k) == Row("message", k) # {} /\ Insert("feedback", k, "kept", NoLocal)

BeginPush(k) == versions # {} /\ Insert("push", k, "pending", NoLocal)

\* Whatever the row says now; the link of the chat is made or refreshed with it.
CompletePush(k, s) ==
    \E r \in Row("push", k) :
        /\ rows' = (rows \ {r}) \cup {[r EXCEPT !.status = s], New("link", k, "kept", NoLocal)}
        /\ OnlyRows

FailPush(k) == \E r \in Row("push", k) : r.status = "pending" /\ Mark(r, "failed")

BeginDeployment(k) == versions # {} /\ Insert("deployment", k, "pending", NoLocal)

CompleteDeployment(k, s) ==
    \E r \in Row("deployment", k) :
        /\ rows' = (rows \ {r}) \cup {[r EXCEPT !.status = s], New("project", k, "kept", NoLocal)}
        /\ OnlyRows

FailDeployment(k) == \E r \in Row("deployment", k) : r.status = "pending" /\ Mark(r, "failed")

ObserveDeployment(k, s) ==
    \E r \in Row("deployment", k) : Row("project", k) # {} /\ Mark(r, s)

CreateDeploymentArtifact(k) ==
    Row("deployment", k) # {} /\ Insert("deploymentArtifact", k, "kept", NoLocal)

CreateLease(k) == versions # {} /\ Insert("lease", k, "active", NoLocal)

CloseLease(k) ==
    \E r \in Row("lease", k), s \in {"stopped", "expired"} : r.status = "active" /\ Mark(r, s)

\* One preview for a lease, whose identifier it has here.
CreatePreview(k) ==
    \E l \in Row("lease", k) :
        versions # {} /\ l.status = "active" /\ Insert("preview", k, "starting", NoLocal)

ActivePreview(k) == {r \in Row("preview", k) : r.status \in {"starting", "ready"}}

RetargetPreview(k) == \E r \in ActivePreview(k), v \in versions : Replace(r, [r EXCEPT !.of = v.number])
MarkPreviewReady(k) == \E r \in ActivePreview(k) : Mark(r, "ready")
FailPreview(k) == \E r \in ActivePreview(k) : Mark(r, "failed")
ClosePreview(k, s) == \E r \in ActivePreview(k) : Mark(r, s)

-----------------------------------------------------------------------------
(* Webhooks and their deliveries: the key of a delivery is its event's *)

CreateWebhook(k) == Insert("webhook", k, "active", NoLocal)
UpdateWebhook(k, s) == \E r \in Row("webhook", k) : Mark(r, s)
ReplaceSecret(k) == \E r \in Row("webhook", k) : Replace(r, [r EXCEPT !.tries = 1 - @])

DeleteWebhook(k) ==
    \E r \in Row("webhook", k) :
        rows' = {q \in rows \ {r} : ~(q.kind = "cursor" /\ q.of = k)} /\ OnlyRows

\* The larger of both cursors is kept; which event it names is left out.
AdvanceCursor(k) ==
    /\ \E g \in LocalGeneration : Exists(g)
    /\ \E w \in LocalKey : Row("webhook", w) # {} /\ Insert("cursor", k, "passed", w)

ClaimDelivery(k, t) ==
    /\ \E g \in LocalGeneration : Exists(g)
    /\ Row("event", k) # {}
    /\ \/ Room /\ Row("delivery", k) = {}
          /\ rows' = rows \cup {[New("delivery", k, "delivering", t) EXCEPT !.tries = 1]}
          /\ OnlyRows
       \/ \E r \in Row("delivery", k) :
            /\ r.status \in {"pending", "expired"} /\ r.tries < MaxLocalTries
            /\ Replace(r, [r EXCEPT !.status = "delivering", !.of = t, !.tries = @ + 1])
       \/ \E r \in Row("delivery", k) :
            r.status = "expired" /\ r.tries >= MaxLocalTries /\ Mark(r, "dead_lettered")

DeliveryLeaseExpires(k) == \E r \in Row("delivery", k) : r.status = "delivering" /\ Mark(r, "expired")

\* The token is asked for, and not whether its time is over.
DeliveredBy(k, t) == {r \in Row("delivery", k) : r.status \in {"delivering", "expired"} /\ r.of = t}

CompleteDelivery(k, t) == \E r \in DeliveredBy(k, t) : Mark(r, "delivered")

FailDelivery(k, t) ==
    \E r \in DeliveredBy(k, t) :
        Mark(r, IF r.tries >= MaxLocalTries THEN "dead_lettered" ELSE "pending")

Redrive(k) ==
    \E r \in Row("delivery", k) :
        r.status = "dead_lettered" /\ Replace(r, [r EXCEPT !.status = "pending", !.tries = 0])

-----------------------------------------------------------------------------
(* Tool sources, their authorization sessions and connections *)

CreateSource(k) == Insert("source", k, "active", NoLocal)

UpdateSource(k, s) ==
    \E r \in Row("source", k) : r.status # "archived" /\ Mark(r, s)

\* Archiving takes the source from every chat that names it.
ArchiveSource(k) ==
    \E r \in Row("source", k) :
        /\ rows' = {q \in rows \ {r} : ~(q.kind = "chatSource" /\ q.of = k)}
                     \cup {[r EXCEPT !.status = "archived"]}
        /\ OnlyRows

ActiveSource(k) == \E r \in Row("source", k) : r.status = "active"

ReplaceChatSources(k) ==
    /\ chat = "live" /\ Room
    /\ \E chosen \in SUBSET {j \in LocalKey : ActiveSource(j)} :
         rows' = {r \in rows : r.kind # "chatSource"}
                   \cup {New("chatSource", j, "kept", j) : j \in chosen}
    /\ k \in LocalKey /\ OnlyRows

CreateSession(k) == ActiveSource(k) /\ Insert("session", k, "open", NoLocal)
ConsumeSession(k) == \E r \in Row("session", k) : r.status = "open" /\ Mark(r, "consumed")

UpsertConnection(k) ==
    /\ ActiveSource(k)
    /\ \/ Insert("connection", k, "active", NoLocal)
       \/ \E r \in Row("connection", k) : Mark(r, "active")

UpdateConnection(k, s) == \E r \in Row("connection", k) : Mark(r, s)

-----------------------------------------------------------------------------

WorkStep ==
    \E g \in LocalGeneration :
        \/ \E p \in LocalGeneration \cup {NoLocal}, op \in {"change", "inspect"} :
             CreateGeneration(g, p, op)
        \/ StartAttempt(g) \/ LeaseExpires(g) \/ Steer(g) \/ ResolveTask(g) \/ CancelGeneration(g)
        \/ \E reason \in {"retry", "resume"} : CreateAttempt(g, reason)
        \/ \E t \in LocalToken :
             \/ Claim(g, t) \/ ConsumeSteering(g, t) \/ Complete(g, t) \/ CompleteResponse(g, t)
             \/ Pause(g, t) \/ FailAttempt(g, t) \/ RepairAttempt(g, t)

ChatStep ==
    \/ CreateSourceVersion \/ RestoreVersion
    \/ DeleteChat \/ RestoreChat \/ RetentionEnds \/ PurgeChat

RowStep ==
    \E k \in LocalKey :
        \/ AppendEvent(k) \/ AddMessage(k) \/ AddAttachment(k) \/ AddGeneratedArtifact(k)
        \/ CreateAttribution(k) \/ SaveCheckpoint(k) \/ ClearCheckpoint(k) \/ AttachSkills(k)
        \/ CreateToolCall(k) \/ \E s \in {"succeeded", "failed"} : SettleToolCall(k, s)
        \/ CreateEvaluation(k) \/ CreateVisual(k) \/ CreateFeedback(k)
        \/ CreateLease(k) \/ CloseLease(k) \/ CreatePreview(k) \/ RetargetPreview(k)
        \/ MarkPreviewReady(k) \/ FailPreview(k)
        \/ \E s \in {"stopped", "expired"} : ClosePreview(k, s)

PublishStep ==
    \E k \in LocalKey :
        \/ BeginPush(k) \/ FailPush(k) \/ \E s \in {"pushed", "conflict"} : CompletePush(k, s)
        \/ BeginDeployment(k) \/ FailDeployment(k) \/ CreateDeploymentArtifact(k)
        \/ \E s \in {"building", "ready"} : CompleteDeployment(k, s) \/ ObserveDeployment(k, s)
        \/ CreateWebhook(k) \/ ReplaceSecret(k) \/ DeleteWebhook(k) \/ AdvanceCursor(k)
        \/ \E s \in {"active", "paused"} : UpdateWebhook(k, s)
        \/ DeliveryLeaseExpires(k) \/ Redrive(k)
        \/ \E t \in LocalToken : ClaimDelivery(k, t) \/ CompleteDelivery(k, t) \/ FailDelivery(k, t)

SourceStep ==
    \E k \in LocalKey :
        \/ CreateSource(k) \/ ArchiveSource(k) \/ ReplaceChatSources(k)
        \/ \E s \in {"active", "disabled"} : UpdateSource(k, s)
        \/ CreateSession(k) \/ ConsumeSession(k) \/ UpsertConnection(k)
        \/ \E s \in {"active", "reauthorization_required", "revoked"} : UpdateConnection(k, s)

LocalIdle ==
    /\ area = "idle" /\ chat = "purged"
    /\ gens = [g \in LocalGeneration |-> Absent]
    /\ versions = {} /\ rows = {}

\* Imported source is version 1.  Where rows are the subject a run is at work already.
LocalInit ==
    /\ area \in {"work", "rows"}
    /\ chat = "live"
    /\ versions = {[number |-> 1, gen |-> NoLocal, parent |-> 0]}
    /\ rows = {}
    /\ IF area = "work" THEN gens = [g \in LocalGeneration |-> Absent]
       ELSE \E g \in LocalGeneration, t \in LocalToken :
              gens = [h \in LocalGeneration |->
                        IF h = g THEN [Absent EXCEPT !.status = "running", !.base = 1,
                                          !.attempt = MaxLocalAttempts, !.holder = t, !.live = TRUE]
                        ELSE Absent]

LocalNext == WorkStep \/ ChatStep \/ RowStep \/ PublishStep \/ SourceStep

LocalSpec == LocalInit /\ [][LocalNext]_localVars

-----------------------------------------------------------------------------
(* Properties *)

Result == [g \in LocalGeneration |->
             IF VersionsFrom(g) = {} THEN 0 ELSE (CHOOSE v \in VersionsFrom(g) : TRUE).number]

Contract == INSTANCE GenerationContract WITH
    Generation <- LocalGeneration, NoGeneration <- NoLocal, Number <- 1..MaxLocalVersions,
    after <- [g \in LocalGeneration |-> gens[g].after],
    operation <- [g \in LocalGeneration |-> gens[g].operation],
    status <- [g \in LocalGeneration |-> gens[g].status],
    result <- Result

\* Of its generations a host can rely on what it can rely on in PostgreSQL: until a chat is
\* purged, they keep the contract that GenerationLifecycle keeps.
LocalKeepsContract == [][area = "work" => Contract!Next]_Contract!vars

\* Two rules number versions, by counting and by the highest number; together they number
\* a chat's versions from 1 without a gap, and a parent is always older.
NumbersAreDense ==
    /\ {v.number : v \in versions} = 1..Cardinality(versions)
    /\ \A v \in versions : v.parent < v.number

\* What stays behind a purge here and would go with the chat in PostgreSQL.
LeftBehind == {"push", "link", "deployment", "project", "delivery", "checkpoint", "cursor"}

\* Apart from those kinds, a chat that is purged by hand takes along what PostgreSQL's
\* cascades would take: every row that the methods above, in any order, have hung on it is
\* found by a loop, none can be hung on it later, and no loop takes what does not cascade.
\* The archive of a deployment that is prepared after the purge is a row more, since the
\* deployment is one that stays (purgeDeletedChats against the keys of src/migrations).
NothingOutlivesItsChat ==
    /\ Removed \subseteq Cascaded
    /\ chat = "purged" =>
         /\ versions = {}
         /\ \A r \in rows : r.kind \in Cascaded \ LeftBehind =>
              r.kind = "deploymentArtifact" /\ Row("deployment", r.key) # {}

\* Counting gives the numbers and parents of the PostgreSQL adapter, and purging by hand
\* removes what its cascades remove but for the kinds LeftBehind (#nextVersionNumber,
\* createSourceVersion, purgeDeletedChats).
LocalRowsAgree == NumbersAreDense /\ NothingOutlivesItsChat

\* docs/api/chats.md:23: purgeDeleted "permanently removes eligible deleted chats and their
\* scoped durable resources", which README.md:1494 leaves to "database cascades".  Here
\* pushes, deployments, their links, deliveries, cursors and checkpoints stay.
PurgeLeavesNothing == chat = "purged" => \A r \in rows : r.kind \notin Cascaded

=============================================================================
