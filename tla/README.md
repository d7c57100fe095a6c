# A TLA+ model of the Viby SDK

Viby turns prompts into immutable versions of a project. A *generation* is a durable
logical request, an *attempt* one physical execution of it; everything a user sees is derived from
rows that any number of application and worker processes change, and from services at the edges:
model providers, sandboxes, repository and deployment hosts, object stores. This directory models
that, checks it with TLC and proves its safety properties with TLAPS.

Paths are relative to the repository's root, and file names without a directory are in its `src/`.
`PROJECT.json` lists, for every definition, the lines it models; for every property, a mutation of
the code it detects; and the hazards of the code, at their lines.

## Inventory

| Component | State it keeps | What is hard | What makes it correct | Module |
| --- | --- | --- | --- | --- |
| Generation store (`postgres-repository.ts`) | generations, attempts with leases, tasks, steering, versions, chats | every transaction may meet any other one; leases expire under live workers | one result per generation; stale workers commit nothing; history is append-only; steering is not lost | `GenerationLifecycle` |
| Runner and workers (`client.ts`) | the runs of a process, their leases and abort signals | a run outlives its lease; callbacks and timers race with host calls | work that can run is settled; running work is in somebody's hands | `GenerationLifecycle`, `EmbeddedRuns` |
| Follow-up queue | `after_generation_id`, `base_version_id` | a predecessor fails, is retried, succeeds late; other versions appear meanwhile | a follow-up edits exactly its predecessor's result | `GenerationLifecycle` |
| Event log | `generation_events` with identity cursors | allocation order is not commit order | a reader that keeps a cursor misses nothing but an event that came into sight behind a later one | `WebhookDelivery`, `EventStreams`, `OutboundEvents` |
| Durable webhooks (`webhooks.ts`) | endpoint, signing secret, delivery rows with leases, cursors | at-least-once sending, crashes between any two awaits, overlapping workers | a selected event that no later one overtook is delivered or dead-lettered, in order; what was delivered stays so | `WebhookDelivery` |
| Outbound events (`outbound-events.ts`) | deliveries with claims | several callers, lost answers, redrives, forged requests | a saved cursor skips nothing that was in time and not settled | `OutboundEvents` |
| Event streams (`client.ts`, `http.ts`, `web-client.ts`) | a cursor per reader | connections break anywhere, late commits, a generation that is retried | a watch in pieces tells what an uninterrupted one would | `EventStreams` |
| Product API (`api-host.ts`, `web-client.ts`, `mcp.ts`) | none of its own | middleware that answers, throws or calls on twice; a chat deleted between two steps of a route | who is refused changed nothing; nothing runs that a gate stopped | `HostApi` |
| Listings (`*Page` methods, `readChatSnapshot`) | a cursor per reader | rows are written and committed out of order while a reader walks | rows that stand still are read once, in order | `Listings` |
| Versions and source changes (`source-changes.ts`, `agent-workspace.ts`, `generation-quality.ts`, `source-import.ts`) | trees of entries with locks | several ways to make a version; verification that writes files; edits side by side | a version is what its parent, its changes and its verification make it | `Sources` |
| In-memory repository (`memory-repository.ts`) | the same tables in one process | constraints and cascades of the database done by hand | keeps the contract of a generation, numbers versions densely, purges what cascades (not everything: see `purge_doc`) | `MemoryRepository`, `Listings`, `Feedback` |
| SQLite persistence (`persistence-sqlite.ts`) | one row: revision and snapshot | processes cache a decoded snapshot; a failed call leaves its traces in it | acts as one repository | `SqliteSnapshots` |
| Agent and tools (`agent-runner.ts`, `generation-engine-tools.ts`) | tool calls with idempotency keys, approvals | an external effect finished but not recorded; calls side by side; a run that lost its lease | an effect happens once, and only when allowed | `AgentTools` |
| Remote engines (`generation-engine.ts`) | a checkpoint per attempt | a worker goes, or a request fails, between saving and logging; another resumes | the log has every delta the checkpoint is past, but those torn in between | `RemoteEngine` |
| Tool source registry (`tool-source-registry.ts`, `tool-source-mcp.ts`) | registrations, selections, snapshots, opened adapters | an adapter is closed, replaced or fails while runs use it | a run uses the revisions it captured; what is open is held | `ToolSources` |
| Connections (`integration-client.ts`, `tool-source-authorization.ts`, adapters) | sessions, secrets, connection rows | a state used twice, refreshes and disconnects that overtake each other | a session is redeemed once; an active connection has its secret | `Connections` |
| Repository pushes (`repository-integrations.ts`, adapters) | history rows | other people push too; answers get lost; a key is used twice | nobody's commit is lost; a settled row is true | `RepositoryPush` |
| Deployments (`deployment-integrations.ts`, `deployment-preparation.ts`, adapters) | history rows, artifacts | calls under one key overlap; a process dies between effect and record; stale polls | a retry repeats no effect; a record never contradicts the provider | `Deployments` |
| Previews and sandboxes (`preview.ts`, `sandbox.ts`, adapters) | sessions, leases, local handles | processes hold handles to what others stop; deadlines pass anywhere | a running sandbox is accounted for; what is over stays over | `Sandboxes` |
| Artifact storage (`artifact-*.ts`, `postgres-repository.ts`) | stored bytes, rows that name them | no transaction covers both | no row without bytes, no bytes without an owner | `Artifacts` |
| Environment variables (`environment.ts`) | rows, secret bytes | the same, with replacement and resolution at the same time | a secret that is named can be read; every secret has an owner | `EnvironmentVariables` |
| Message feedback (`message-feedback.ts`, repositories) | immutable records, a selection | replays, ties of the clock, snapshots that are imported | one record per key, the last one selected, counts agree | `Feedback` |
| Chats and retention | `deleted_at`, `purge_after` | deletion races with work that is being queued; a purge with a fork | a deleted chat stays quiet; a purge takes its rows along, and bytes follow | `GenerationLifecycle`, `MemoryRepository`, `Artifacts` |

Skills, browser automation, telemetry, migrations, conformance suites,
types and formatting are not modelled; see "Not modelled".

Components interact through the store: a host call commits rows and, in embedded mode, starts
a run in its own process; a worker polls for rows to claim; the webhook worker polls for events that
lifecycle transactions and runs have inserted; subscribers and sinks read the same events; a run
uses the tool sources its generation captured; pushes and deployments read versions, which never
change. Where two components share no more than such immutable rows, each is a module of its own.
Where they share mutable state they are one module: store and lanes, registry and host calls, event
log and delivery, previews and sandboxes, rows and bytes.

## Modules

| Module | Role |
| --- | --- |
| `GenerationContract` | what a host relies on: a generation is accepted, started when its predecessor has succeeded, requeued, cancelled, stopped, and finished once with its result |
| `GenerationLifecycle` | the PostgreSQL transactions on the generations of one chat together with the runs of the lanes that call them; it implements `GenerationContract` |
| `GenerationLifecycleProofs`, `GenerationResultProofs`, `GenerationAttemptProofs` | its theorems: types and steering; results, follow-ups and the refinement; attempts, tasks, leases and deleted chats |
| `EmbeddedRuns` | embedded execution: the registry of runs in a process's memory, host calls between their await points, repair timers, dependents |
| `EmbeddedRunsProofs` | its theorems: types, work is in hand |
| `WebhookDelivery` | event log, delivery rows, cursors, one endpoint and the lanes of the webhook worker |
| `WebhookDeliveryProofs` | its theorems: types, nothing that was in time skipped, first delivery in order, delivered for good |
| `RepositoryPush`, `Deployments`, `Connections`, `Sandboxes`, `RemoteEngine`, `OutboundEvents`, `Listings`, `EventStreams`, `HostApi` | the edges of Viby, one component each |
| `MemoryRepository`, `Artifacts`, `AgentTools`, `Sources`, `Feedback`, `EnvironmentVariables`, `ToolSources` | what Viby keeps, one component each; `MemoryRepository` implements `GenerationContract`, too |
| `AtomicStore`, `SqliteSnapshots` | one repository in memory; the SQLite file, which implements it |
| `HostsProofs` | theorems about `RepositoryPush`, `Deployments`, `Connections` and `Sandboxes` |
| `EdgesProofs` | theorems about `RemoteEngine`, `OutboundEvents`, `AgentTools`, `EventStreams`, `HostApi` and `Listings` |
| `StoresProofs` | theorems about `Artifacts`, `EnvironmentVariables`, `ToolSources`, `Sources`, `Feedback`, `MemoryRepository` and `SqliteSnapshots` |
| `MCGenerationLifecycle` | two instances of the lifecycle in one run: one generation with every fault and lane, or two that may follow one another |
| `MCWorkers` | webhook delivery and embedded runs, one at a time |
| `MCLiveness` | the lifecycle and webhook delivery under fair lanes, one at a time |
| `MCProviders`, `MCStores` | the edges, stores and hosts above, one at a time |

In every `MC` module the components share no state, and the variable `part` says which one moves while
the others are at rest.

Definitions marked as a mutant or a plausible bug are the forms that `PROJECT.json` lists under
"mutants": put in the place of a definition, each makes the property it is listed with fail. They
take no part in a specification.

### How the lifecycle module corresponds to the code

A transaction that begins with `SELECT ... FROM viby.generations ... FOR UPDATE` excludes every other
such transaction on that generation, and is one action: `CreateGeneration`, `CreateSteering`,
`CancelGeneration`, `Retry` and `Resume` (both `createGenerationAttempt`), `ResolveTask`, `Claim`,
`Complete`, `CompleteResponse`, `Pause`, `Fail`, `Repair`. `consumeGenerationSteering` is the
exception: it reads the lease without a lock and updates later, and is two actions
(`CheckSteeringLease`, `ApplySteering`). Checks that `client.ts` makes in a query of its own before
it calls the store are stale by the time the transaction runs, so an action has only the
transaction's own guard, and those checks that read immutable columns.

A lease token is fresh for every claim, and a lane runs one claim at a time: the lane of the last
claim stands for the token, and a lane that has dropped a run no longer knows it. Time is whether a
lease has expired. `run[w]` is what a lane executes; `run[w].seen` is the steering its engine has
been given, either with the context of the run or by `consume()`.

Attempt numbers stand for attempt identities, version numbers for versions. The chat row's lock
orders the versions. Prompts, files, costs, events and messages are left out, except that inserting a
message requires an active chat, which is what makes completion, pausing, resolving and steering fail
in a deleted one.

The documentation's table of generation calls says that `resume()` works on waiting or orphaned
queued or running work (`docs/api/generations.md:111`). The code refuses waiting work and accepts
failed and cancelled work too; `docs/api/v1.md:810` and the model follow the code.

### How the embedded module corresponds to the code

`generation.execution` is `"embedded"` by default: the call that creates an attempt schedules its run
in the same process, and nothing polls. What must still be done is known only to the memory of that
process: `entry` is `GenerationRunRegistry`, `timers` are the `setTimeout` callbacks of
`#execute`, `call` are host calls in flight. `schedule()` is synchronous and its run is not; a run is
`claiming`, `executing`, `listing` and `waking` its dependents, and `leaving` until its promise has
settled, which is after its heartbeat has been awaited. `GenerationRunRegistry.start` throws while
there is an entry of any of these.

A host call is `asked` (checks in queries of its own, and for `retry` and `resume` the registry),
`locked` (its transaction holds the generation's row, or for `enqueue` the key-share lock on the
predecessor that the foreign key takes), and `committed` (it has not scheduled or aborted yet). Row
locks matter because the claim says `FOR UPDATE SKIP LOCKED`: a claim that meets one finds nothing,
and the run leaves as if there were nothing to do (`ClaimLost`).

`FireTimer` schedules a repair. If the failed run is still in the registry `schedule()` throws in a
timer callback, where nothing catches it, and the process ends (`Forget`). `CancelAborted` cancels by
generation and not by lease, as `#execute` does for every error named `AbortError`.

A fault is a request that fails, an answer that is lost, a lease that runs out under its run
(`OutliveLease`), or a process that dies (`ProcessDies`). A failed heartbeat counts as a lost lease
(`client.ts:3452`), the failures of the transactions that would cancel, repair or fail a run are
swallowed, and `pauseGeneration` may throw in the catch block: in each case the run ends while its lease
is good (`AbandonRun`). A COMMIT whose answer is lost leaves a call that never schedules (`AnswerLost`),
a lease whose token nobody knows (`ClaimUnheard`), a success without its list of dependents
(`FinishUnheard`), or a repair without its timer (`RepairUnheard`).

`lost` is bookkeeping: the generations whose active attempt nobody will run any more. They get there
when

- a call, a wake-up or a timer meets an entry in the registry and schedules nothing,
- a claim meets a row lock, fails, or commits unheard,
- the listing of dependents fails, or its loop ends early,
- the answer to the COMMIT of a call, a completion or a repair is lost,
- a run ends under its lease (`AbandonRun`),
- the process dies, or ends by a throw in a timer.

A new attempt and a claim take a generation out again. `RunsAreInHand` says that there is no other way:
whatever runs under a live lease has its run, and whatever is queued and ready is in some process's
memory, or is in `lost`. A row that is running with an expired lease is in nobody's hands, and in embedded
mode stays so until a host calls `resume()`.

Left out, since scheduling does not depend on them: versions, the chat, steering rows and tasks
(`resolve()` schedules as `retry()` does; a lane that finishes with queued steering restarts under the
same entry). Also left out are `client.close()` and the registry entries of worker lanes.

### How the webhook module corresponds to the code

A step per await of `WebhookCollection.deliver`: read the endpoint, read its secret, read the cursor
and the pending deliveries behind it, claim, send, record, advance, and the next page. `Find` is
`findWebhookDeliveryWork`, with its ordering by cursor and its single candidate per endpoint. Each
lane is a worker of its own; a lane is `dead` when `run()` would reject.

An event has three states before it is seen. A lifecycle transaction holds the generation row while
it inserts (`locked`). `appendGenerationEvent` inserts first and takes the row's key-share lock only
in the foreign-key check at the end of the statement (`unlocked`), so it waits for a transaction that
took the row in between and that may insert an event with a higher cursor. Nothing excludes this. An
event that comes into sight after a later one of its generation is marked `late` (bookkeeping, nothing
but the properties reads it): the watermark may have passed it, and then it is never delivered, which
`webhook_order_doc` shows. `NothingSkipped`, `FirstDeliveryInOrder` and `EveryEventSettles` are about all
other events (`InTime`), while late ones come and go between them; `DeliveredForGood` is about every
event.

### How the modules of `MCProviders` correspond to the code

In each of them a step is one request to a provider, one transaction, or the code between two awaits;
a call is a record with its place `pc` and the local variables that later steps read. A fault is a
process that dies, a request that fails before or after its effect, or an answer that is lost. What
is outside Viby is marked external in the map and does what the adapters rely on, no more.

`RepositoryPush`: `Version.push` from `beginRepositoryPush` to the row's completion, with the
requests of the GitHub, GitLab and Bitbucket adapters as they differ: where the head is read and
compared (`GitHubTarget`, `GitLabTarget`, `BitbucketTarget`), what the commit is bound to
(`GitHubCommit` moves a reference only forward, `GitLabCommit` applies actions to whatever the branch
has, `BitbucketCommit` names its parent), how a refusal becomes a conflict (`Reread`), pull requests,
merges and imports. Other people commit in between. Commits are numbered, a tree is three paths.

`Deployments`: `Version.deploy` with its record, prepared build and archive, the adapters' look for
the idempotency mark before they create (`Find`), Netlify's upload after the creation, and
`deployments.get` and `cancel`, whose answers are recorded late (`Observe`). The provider builds by
itself, and every sandbox build gives another result.

`Connections`: `connect`, `callback`, `operationContext` with refresh, and `disconnect` of
integrations and, as a seventh kind, of tool sources. `updateConnection` writes by id without a
condition; secrets are put before and deleted after the row that names them. `tokens` are the
credentials a provider has issued, with the session each was issued for.

`Sandboxes`: one version, its sandbox, the lease row, the preview row, and the processes that hold
`SandboxSession` objects and entries of the previews map. `open`, `get`, `retarget`, `restart`, `stop`,
cleanup and expiry interleave; `box` is what the provider has. Three of the six adapters can
host previews and reconnect; two of them (`Vercel`, `Cloudflare`) start a stopped sandbox again when
they reconnect, which `revived` records.

`RemoteEngine`: the loop of `defineRemoteGenerationEngine`: start or resume, read an event, save the
checkpoint, log the delta, settle, clear. The workers hold the attempt's lease one after another, and
each write needs it. Any request may fail, a write with or without its effect (`CallFails`). A delta whose
cursor was saved by a worker that then failed, stopped, died or lost its lease before it logged it is
`torn`: nobody asks for it again. `DeltasReachTheLog` says that only torn deltas are missing, and
`remote_delta_doc` that a result can lack one.

`EventStreams`: pages of the durable log, frames on the wire, and a client that reconnects behind its
cursor. An event that becomes visible behind a later one is `late`. A settled status is followed by one
more page, and the stream ends when that one is empty.

`HostApi`: every operation of `api-schema.ts` as the sequence of awaits its handler makes, under gates
and middleware that may answer, throw, or call `next()` twice, by a web client, other HTTP callers and
MCP tools. The tables of operations, routes, the web client's calls and the MCP tools were compared
entry by entry.

`Listings`: a walk through pages of chats, messages, versions or design evaluations while
transactions that took their time earlier commit. The clock is finer than a cursor
(`Tick`), as PostgreSQL's is. `readChatSnapshot` is one transaction.

`OutboundEvents`: `deliverEvents` of several callers over the log, their claims, the sink, the
verification of a signature, retries, dead letters and redrives, with the cursor each caller saves.
Events come into sight in any order (`AppendEvent`); one that does behind a later one is `overtaken`, and
a saved cursor may have passed it before it could be read.

### How the modules of `MCStores` correspond to the code

`MemoryRepository`: each method that writes is one step, which is what the SQLite adapter's queue
makes of it. `area` separates the generations of a chat, under the refinement mapping to
`GenerationContract`, from the rows that hang on a chat and have to go with it. `Removed` is what
the loops of `purgeDeletedChats` remove, `Cascaded` what the foreign keys of the schema say goes
with a chat, its generations and its versions, read from the migrations. `LeftBehind` names the
kinds that cascade and that no loop removes; `LocalRowsAgree` is about the others,
`PurgeLeavesNothing` about all. Bare use in one process can interleave at awaits inside a method;
see "Other observations".

`SqliteSnapshots`: `BEGIN IMMEDIATE`, load, run, write, commit, with failures in between. The delegate
is changed before the database is, and forgotten when the call fails. `AtomicStore` is what it
promises.

`Artifacts`: attachments, generated, visual, deployment and project artifacts; writers store bytes,
then commit rows, and clean up; purges commit, then delete. `RESTRICT` and row locks make a
transaction one step. A request to the store may fail with or without its effect.

`AgentTools`: the runs of attempts, the calls they have in progress side by side, the
workspace they propose, approvals as tasks, and the durable rows of external effects. `performed`
counts how often an effect took place.

`Sources`: trees of entries with locks. `Version.apply`, `AgentWorkspace.commit`, imports, forks,
restorations, and an attempt with its prepare commands, concurrent checks, capture and repair. What a
command writes is chosen freely. The log of versions is append-only by construction; the properties
are about what is appended.

`Feedback`: submissions as transactions that began at some time, in PostgreSQL, in memory, or behind a
SQLite snapshot that is imported at any time.

`EnvironmentVariables`: `set` puts a secret, upserts the row, and drops what the row named before;
`delete` removes the row first; `resolve` lists rows and reads secrets one by one; the chat may be
deleted, restored and purged.

`ToolSources`: rows and selection in PostgreSQL and in memory, `snapshot` and the creation of the
generation as two steps, and a process's cache of opened adapters with the MCP connection each has.
Adapters are let go when their registration changes or the registry closes, and are closed in a later
step.

## Runs

Passing runs:

| Run | Instance | What it shows |
| --- | --- | --- |
| `lifecycle`, part attempts | 1 generation, 2 lanes, 1 steering message, 1 repair, 3 attempts, 1 version, 1 fault | everything below but follow-ups, with a lane that crashes or a lease that is lost: one result per generation though it is executed again, attempts tell the history, steering, tasks and deletion, fencing and immutability as action properties, refinement of the contract |
| `lifecycle`, part followups | 2 generations, 1 lane, 2 attempts each, 3 versions, no fault | the same without steering, and follow-ups on the intended base among versions of the user's own |
| `liveness`, part lifecycle | 2 generations, 2 lanes, 1 message to one of them, 1 attempt, 1 fault, fair lanes | work that can run settles |
| `liveness`, part webhook | 2 generations, 2 lanes, 2 events, 1 fault, fair lanes | every selected event that is not late is delivered or dead-lettered |
| `workers`, part webhook | 1 generation, 2 lanes, 2 events in any order, 2 tries, at most two among a redrive, a management call and a fault | nothing that was in time is skipped, first delivery in order, delivered is final |
| `workers`, part embedded | 1 process, 2 calls in flight, 2 generations, 2 attempts each, 1 repair, 1 fault | running work has its run; ready work is in somebody's hands, or was let go in a way that `lost` records (`RunsAreInHand`) |
| `providers` | nine components, one at a time; see below | what Viby records and answers agrees with what was done, and nothing is repeated, undone or skipped |
| `stores` | eight components, one at a time; see below | calls in memory keep the contract; bytes, rows, caches and counts agree; effects are governed |

What the components of `providers` show:

| Part | Properties | Instance |
| --- | --- | --- |
| push | `BranchesOnlyGrow`: a branch only moves to a commit that has its old head in its history. `HistoryIsTrue`: a pushed row names a commit of its branch, on GitHub with exactly the version's files; a conflict names a head that differs; a merge or an import is of one commit | 2 calls, 1 key, 4 commits, 1 foreign, 1 fault, three adapters, every start of the repository |
| deploy | `RetriesRepeatNothing`: a call makes no deployment for a key that had one when it began. `RecordsAreTrue`: a record names a deployment of its key, and one that says it is over says so truly | 2 calls, 1 key, 2 deployments, 2 builds, 1 fault, three adapters |
| connection | `CredentialsAreSound`: a session is redeemed once, and an active connection names a secret that is there | 2 calls at once, 4 in all, 2 sessions, 3 credentials, 1 fault, seven kinds |
| sandbox | `RunningIsAccountedFor`: a running sandbox has a lease that is not stopped. `OverPreviewsStayOver` | 2 processes, 2 calls at once, 3 in all, 3 sessions, 1 fault, six adapters |
| remote | `DeltasReachTheLog`: no delta before the checkpoint is missing from the log, none of its run from a result, but for torn ones | 2 workers, 2 deltas, 2 faults, 1 failed request |
| stream | `StreamsAreFaithful`: in order, without gaps or repetition, to the end | 4 events, pages of 2, 1 reconnect, 2 frames under way, 1 fault |
| api | `AnswersTellTheEffect`: at most one run of an operation, none behind a gate, no change that a refusal denies | every operation, 2 middleware, three kinds of callers |
| listings | `PagesAreFaithful`: order, rows that stand still are read once, no message is passed, a snapshot is whole | 3 rows, a clock of two ticks and one transaction at a time, 4 collections, 2 repositories |
| outbound | `OutboundIsFaithful`: of the events in time a saved cursor covers settled ones only and they are accepted in order; a delivered event was accepted; at most `MaxSends` requests each between two redrives | 2 callers, 2 events, pages of 2, 2 tries, 1 redrive, 1 fault |

What the components of `stores` show:

| Part | Properties | Instance |
| --- | --- | --- |
| memory | `LocalKeepsContract`: the generations keep `GenerationContract`. `LocalRowsAgree`: versions are numbered densely behind their parents, a purge removes nothing that does not cascade, and of what cascades only the kinds `LeftBehind` stay, with the archive of a deployment that stayed | 2 generations, 2 tokens, 2 keys, 2 attempts, 3 versions, 2 of them edits, 2 other rows |
| sqlite | `CacheIsCurrent`, `ActsAsOneStore` (refinement of `AtomicStore`) | 2 processes, 3 revisions, sets of three rows |
| artifacts | `BytesAgree`: rows can be read, and bytes are named, in hand, or accounted for by a fault | 2 writers, 2 chats, 3 artifacts, 1 fault |
| tools | `EffectsAreGoverned`: an external effect happens at most once, and an action that needs approval only after it | 2 runs, 2 calls side by side, 2 actions, 3 attempts, 1 fault |
| sources | `SourcesAreKept`: locks hold, a version is what its changes produce, a commit makes one version, what is committed was verified | 2 paths, 2 texts and a binary, 2 changes, 2 versions at the start of an operation, 2 checks at once |
| feedback | `VotesAreCounted`: one record per key, the newest one selected, counts agree | 2 records, 2 messages, 1 key, a clock of one step, 2 transactions at once, 3 repositories |
| variables | `VariablesAreSound`: a secret that is named can be read, every secret has an owner | 2 names, 2 calls, 3 secrets, 1 fault |
| registry | `SourcesAreFaithful`: a run's adapters are of the revisions it captured, and an open one is held by a cache or about to be closed | 1 source, 2 runs, 1 edit, 2 selections, 2 adapters, 1 failure |

Runs that are expected to find a violation, each of what a document says:

| Run | What happens |
| --- | --- |
| `lifecycle_steering_doc` | a lane checks its lease and loses it; another claims; the first marks the message applied and drops it; the second succeeds without it |
| `embedded_start_doc` | `steer()` holds the row of a generation that was just started when its run claims: the claim skips the row, the run leaves, the generation stays queued |
| `connection_disconnect_doc` | a refresh reads the connection; `disconnect()` revokes it; the refresh stores its new credential and writes the row active |
| `webhook_order_doc` | an append draws its cursor and waits for the generation's row; a lifecycle event with the next cursor commits first and is delivered; the append commits behind the watermark, and its event is never sent |
| `remote_delta_doc` | a worker saves the cursor of a delta and dies; another reclaims the attempt, resumes behind the cursor and commits a result; the log lacks the delta |
| `purge_doc` | a push is recorded, its chat is deleted and purged in memory, and the push is still there |
| `remote_resume_doc` | a worker loses its lease; another reclaims the attempt and resumes from the checkpoint; the first one's cleanup cancels the remote run, and the attempt fails |

### Bounds

Lifecycle: three attempts are enough for every pair of ways an attempt can follow another and for a
third party between them; two lanes for a holder and a taker-over. Lanes are symmetric in safety runs. Two
generations cover a predecessor and its dependent; three versions cover both results and one version
of the user's own that takes the number in between. One fault is one crash, or one lease lost under a
live run; the retry, resume and repair paths replace attempts without faults. The two parts of
`lifecycle` are cut by `InPart`: with both generations and both lanes at once the states are too many
for a run, and a fault changes one attempt at a time. In `liveness` symmetry is not sound, so
`MCLiveness` names the generation that is used first (`First`) and steers one generation at most; what is
excluded differs by names only, or steers both. There is one attempt: fairness asks nothing of the
host that would append another, and a retry or a repair makes queued work of which the same holds.

`EmbeddedRuns` has one process: registries are not shared, and what another process could do to a
generation (cancel it, append an attempt, take over an expired lease) a second call of the same
process can do too, except to claim while this process still executes. Two calls are a call that
holds a lock or has committed and one that overtakes it. One fault is one of the failures listed above.
`embedded_start_doc` needs one call and no fault.

Webhooks: two events of one generation give an order to break, two of two generations a candidate that
hides another; of two events of one generation the first can be late. `MaxTries = 2` separates a retry from
the last try. `MaxUpsets = 2` lets any two of a redrive, a management call and a fault meet.

`MCProviders` and `MCStores`: two calls (workers, writers, processes, callers) are one that acts and one
that overtakes it, and with one idempotency key they always meet. Counted resources (commits,
deployments, credentials, sessions, artifacts, secrets) are as many as two calls and the initial
state need, plus one. One fault separates "failed" from "retried"; `RemoteEngine` has two, so that a
worker can lose its lease and the next one die, and one failed request beside them. `MaxLocalEdits` keeps a version number for a
generation's result. In `ToolSources` the selections of a chat end before the first adapter is opened
(`CanChoose`): a run reads its generation's snapshot and never the selection. In
`Sources` no operation begins once `MaxSources` versions exist. Model values that no component
treats specially are symmetric, and one `Permutations` serves all components.

`CHECK_DEADLOCK FALSE` everywhere: the systems are at rest when all work is done and the bounds on
calls are used up.

### Fairness

Lifecycle: lanes of `GenerationWorker` poll, and candidates are claimed in creation order, so a
generation that is claimable again and again is claimed (strong fairness of `Claim` for each
generation, by some lane). Every way `#execute` can end goes through one transaction
(weak fairness of `LaneSettles`), a begun steering transaction ends, a run that lost its lease finds
out, an abandoned lease expires. No fairness for the host: nobody has to retry, resolve or resume.
This is worker mode. An embedded run is scheduled once by the call that created the attempt, and
nobody polls, so `EventuallySettles` is not claimed for it, and `embedded_start_doc` shows that it
does not hold.

Embedded: calls, runs and timers go on (weak fairness; strong for taking a row lock, which PostgreSQL
queues), and leases expire. A host makes the calls it likes.

Webhooks: `#runLane` polls (weak fairness of a lane's steps, which includes that a request ends),
transactions end, retries fall due, leases without a sender expire. Nobody is assumed to restart a
dead worker.

## What the model refutes

Seven statements of the documentation have a run that shows a counterexample (above, and under
"findings" in `PROJECT.json`). The following are stated in the modules as well, with the words they
are taken from; TLC finds each violated, and no run repeats it.

| Definition | Statement | Counterexample |
| --- | --- | --- |
| `GenerationLifecycle!WaitsForItsTask` | a waiting generation goes on when *its* task is resolved (`docs/api/generations.md:56`) | attempt 1 pauses and is cancelled, its task stays pending; the retry pauses too; resolving the old task takes the generation on |
| `WebhookDelivery!RedrivenSettles` | a redriven delivery is delivered or dead-lettered again (`docs/api/webhooks.md:9`) | the worker that delivers it crashes; the row is found for ever, while `deliver` lists only pending rows and events after the cursor, and since it has the lowest cursor nothing else is found either |
| `WebhookDelivery!SecretAvailable` | rotation deletes the replaced secret (`docs/api/webhooks.md:54`) | the replaced secret cannot be deleted; the handler deletes the new one, which the row already names |
| `RepositoryPush!ExpectedHeadIsKept` | `expectedHead` gives optimistic concurrency (`README.md:494`, `docs/api/v1.md:277`) | GitLab's commit is not bound to the head that was compared, and applies to one that moved in between (`integration-gitlab.ts:585`) |
| `Deployments!RecordedDeploymentsCanFinish` | a lookup covers a failure after Netlify accepted the request (`docs/integrations/netlify.md:158`) | the process dies before it has sent the files; the next call finds the deployment, sends nothing and records it |
| `Deployments!ArchiveIsWhatWasDeployed` | the archive is the one "used for that deployment" (`docs/api/versions.md:118`) | of two calls that prepare at once, one deploys its own build under the other's archive |
| `AgentTools!ApprovalsArePut` | approvals pause as permission tasks (`docs/api/v1.md:198`) | a custom engine asks for approval while steering is queued: `pauseGeneration` refuses, in a catch block that nothing guards, and the attempt stays running until its lease runs out (`client.ts:4020`) |
| `ToolSources!ArchivedStaysOut` | archived registrations cannot be exposed to a new generation (`docs/api/tool-sources.md`) | the snapshot is read before the generation is created (`client.ts:1789`), and the source archived in between |
| `ToolSources!SelectionIsReplaced` | "Atomically replaces the selection" (`docs/api/tool-sources.md`) | neither chat nor sources are locked: two selections that overlap leave the union of what both want |
| `ToolSources!ClosedSourcesStayClosed` | a closed adapter has no connection | an update closes the adapter of a running generation; an MCP source connects again, and nobody closes that |

### Other observations

Found while the modules were translated, and kept in them as the code has it. They are no findings of
a run: some are documented limits, some matters of judgement.

- Lifecycle: the table of generation calls says that `resume()` works on waiting work
  (`docs/api/generations.md:111`); the code and `docs/api/v1.md:810` do not.
- Webhooks: `pause()` and `resume()` write back the name, URL and selection they read. An endpoint
  that is paused or deleted between discovery and delivery makes `deliver` throw, which ends a worker's
  `run()` (`webhooks.ts:504`).
- Event streams: a watch that starts at the beginning of a retried generation ends at the first
  attempt's `generation.failed`. At `waiting` the server ends the stream (`docs/api/v1.md:906`) and the
  web client keeps reconnecting until it gives up. A late event is not delivered behind the cursor. A
  connection that is cut inside a frame and ends cleanly is a protocol error and not retried.
- API: `POST /chats` with a prompt leaves the chat when the prompt is refused or the start fails. The
  web client has no calls for artifacts other than sources, for pull-request creation and merging, and
  for aliases.
- Outbound events: an event that commits behind a later one may be behind the cursor that a host has saved
  (`README.md:1318`, `docs/api/v1.md:918`); the cause is that of `webhook_order_doc`. Events of a deleted
  chat are not delivered. An event that is redriven behind a saved
  cursor needs a call from an earlier one.
- Listings: a chat whose `updated_at` changes during a walk may be missed, or read twice when a
  transaction with an older `now()` commits late (`docs/api/chats.md:20` says "stable order"). Messages
  are complete, since the chat row's lock and `GREATEST(clock, newest + 1 ms)` order them.
- Pushes: on a repository that has commits, GitHub's adapter puts `.gitkeep` on the default branch when
  a missing branch is pushed without a base, and it initialises an empty one before it looks at
  `expectedHead`. GitLab creates the branch before that check, too. Bitbucket reports an unchanged base as pushed
  without creating the branch, and does not bind a merge to `expectedHead`. The default key omits
  `expectedHead`, so a stored conflict is replayed. A pull request that fails fails the row of a push
  that committed. `completeRepositoryPush` overwrites whatever the row says.
- Deployments: a failed deployment of the provider is found again under its key. `observeDeployment`
  writes an older status over a newer one, and a key used for another version returns the existing row.
- Connections: besides `DisconnectIsFinal`, the paths for a missing or refused secret write what they
  read without a condition; the second of two first callbacks orphans the first one's secret; a crash
  orphans a refreshed one; a refusal by GitLab, Bitbucket or Cloudflare does not ask for
  reauthorization; the connection of an archived tool source cannot be disconnected.
- Sandboxes: `get` marks an expired preview without stopping its sandbox, so that `cleanupExpired` no
  longer finds it (`docs/api/previews.md:100`). A lease is closed even if the provider's stop failed. A
  reconnect that races with a stop starts the sandbox again. Docker, Daytona and Modal cannot host
  previews.
- Remote engines: besides what `remote_delta_doc` and `remote_resume_doc` show, a crash after the checkpoint
  was cleared and before the commit starts the run over.
- In-memory repository: used bare, calls interleave after awaits; `updateChat` or `createSourceVersion`
  can undo `deleteChat`, a retarget revives a closed preview, a cursor goes back. The SQLite adapter's
  queue excludes this, and the model has one step per method. Claims do not check that the chat lives.
- Artifacts: a lost answer to a COMMIT makes the writer delete bytes of committed rows; a delete that
  fails after a purge leaves bytes (`docs/concepts.md:43`); `RESTRICT` can make a purge or a fork fail,
  to be retried.
- Tools: the pending row of an external effect is never settled once its attempt has lost the lease.
  Keys cover tenant, user, chat and arguments, so a verification command after an edit returns the old
  result, and a tool that failed stays failed. Tools with a write effect repeat in a later attempt.
- Sources: `changes()` (`docs/api/v1.md:571`) does not give a version's entries when quality capture
  rewrote texts. A workspace commit whose answer was lost makes a second version
  (`docs/api/v1.md:630`). A check may write files that another one beside it has passed. Eager
  workspaces never delete stale files (`sandbox.ts:381`).
- Feedback: PostgreSQL reorders metadata keys while a replay is compared as JSON text, so an
  identical replay with keys in another order is refused (`docs/api/message-feedback.md:33`). An
  import selects by time and id (`docs/api/message-feedback.md:37` says "without relying on timestamps").
  In-memory analytics count deleted chats, PostgreSQL's do not.
- Environment variables: a purge leaves secret bytes; a `delete` whose secret cannot be removed throws,
  and its retry finds no row; a lost COMMIT answer makes `set` delete a secret that the row names;
  `resolve` fails when a secret it listed is replaced meanwhile.
- Tool sources: a chat's selection lists disabled sources; a failed open forgets whatever adapter has
  its key by then (`tool-source-registry.ts:372`, `tool-source-mcp.ts:99`).

## Proofs

The theorems about the lifecycle are proved for any sets of generations, lanes and steering keys and
any bounds, from `SentinelAssumption` (the sentinels are no generation and no lane) and `BoundAssumption` (the bounds
are natural numbers, and a generation has room for an attempt).

- `TypeCorrect`: `Spec => []TypeOK`. One step per action; the helpers that several actions share
  (`AppendAttempt`, `Settle`, `InsertVersion`, `EndRun`, a lease holder's run) have a lemma each.
- `NoSteeringLost`: `Spec => []NoSteeringLeftBehind`. With the types the invariant is inductive as it
  stands: success is entered only through `CanSettle`, which requires that nothing is queued, and
  steering is accepted only by open work.
- `HistoryIsTold`: `Spec => []AttemptsTellTheHistory`. The inductive invariant `Histories` adds that a
  generation that does not exist yet has no attempt. `StepOnRows` reduces every action to one of four
  changes of a generation's rows (kept, created, moved on in place, one added), and each of these keeps
  the history. That a cancellation finds an attempt that is still open needs the invariant.
- `AttemptsAreImmutable`: `Spec => OlderAttemptsImmutable`, from `Histories` and the same four cases.
- `TasksBelongToAttempts`: `Spec => []TasksMatchAttempts`, inductive with `Histories`: the four cases
  meet the three things a step can do to the tasks (`StepOnTasks`).
- `StaleRunsAreFenced`, `LeasesAreNotStolen`: both action properties follow from one lemma,
  `StepOnLease`: a step leaves a generation's rows alone, ends the run of the lease holder, lets the
  lease expire, cancels, or takes on work that no live lease protects. Types are all they need.
- `DeletedChatsStayQuiet`, `NobodyIsStranded`: in a deleted chat a generation can only be cancelled,
  requeued, claimed or failed (`DeletedStep`), and deletion itself finds nothing open.
- `CommittedOnce`: `Spec => []ResultCommittedOnce`. `StepOnResult` shows that a step either leaves a
  generation's versions and its success alone or completes it, and completion requires `running`.
  With the types the invariant is inductive: running work has no version yet, so the one that
  completion inserts is its only one.
- `FollowUpsOnResult`: `Spec => []FollowUpsEditTheIntendedResult`. The base of a generation is set when
  it is created and at each claim (`StepOnBase`), versions are never rewritten and a new one is the
  child of its generation's base (`StepOnVersions`), and what a claim reads, the version of a succeeded
  predecessor, stays (`SucceededStays`). The last fact is where `ResultCommittedOnce` strengthens the
  invariant: without it the predecessor could get a second version after the claim.
- `ImplementsContract`: `Spec => KeepsContract`. Under the refinement mapping `Result` every action is
  one action of `GenerationContract` or a stutter: `Claim` of queued work is `Start` and `Claim` of
  orphaned running work a stutter; `Complete` and `CompleteResponse` are `Finish`, whose guards are
  the two invariants above; `Pause` and `Fail` are `Stop`; whatever appends an attempt is `Requeue`,
  or a stutter when queued work is resumed. All other actions but creation and cancellation change
  nothing that a host relies on.

The theorems about durable webhooks (`WebhookDeliveryProofs`) are proved for any generations, lanes,
page sizes, tries and bounds, from `WebhookAssumption` (the sentinels are no generation and no lane;
the bounds are natural numbers, those of the log, the tries and the page positive).

- `WebhookTypesAreKept`: `Spec => []Types`. `Types` adds to `TypeOK` the lanes' other fields, that a
  row which was ever written and a lane's list belong to events of the log, and that a lane that is not
  idle has a generation.
- `DeliveredStays`: `Spec => DeliveredForGood`. `RowsGoOn` says what any step may do to a row, and
  `LanesMoveAlone` that a lane moves only by its own steps; the inductive `Told` says that a lane whose
  request was accepted, and a row that was recorded as delivered, have an event the endpoint received.
- `NothingIsSkipped` and `FirstInOrder` hold in whatever order transactions commit, of the events that are
  not late. The inductive invariant `OrderInv` has three parts. `WatermarksAreSeen`:
  a watermark is the cursor of an event that was seen. `BehindIsSettled`: an event that is in time and
  still open is after its watermark. `LaneOK`: the pending deliveries on a lane's list are behind the watermark,
  and a page misses no open event before its end, although other lanes advance the watermark, events
  are inserted and rows are redriven while the lane is on its way. `LogGoesOn` is what every step does
  to the log: an event that comes into sight comes after everything its generation has shown so far, or
  it is late. The
  page is `LowestIsLower`: what `options.limit` cuts off is after everything on the page.
  `NothingOpenBefore` then says that no open event in time is before the one a lane handles, which is both
  properties at once.

The theorems about embedded runs (`EmbeddedRunsProofs`) are proved for any processes, calls and bounds,
from `BoundAssumption` (natural numbers, and room for a generation and an attempt) and
`ProcessAssumption` (the sentinels of a lease are no process).

- `EmbeddedTypesAreKept`: `EmbeddedSpec => []EmbeddedTypeOK`. `Types` adds the fields of calls and entries: a call that
  hands work on names an attempt, and only a run that is waking dependents has a list of them.
- `WorkIsInHand`: `EmbeddedSpec => []RunsAreInHand`. `ReadyWorkInHand` is not inductive: `InHand` counts the
  holder of the lease, which queued work must not need. `HandedOn` leaves it out and is. Besides it the
  invariant `Inv` holds `RunningIsOwned`, `LeasesRun` (only running rows have a live lease, so a claim
  finds queued work free), `FreshRows` (nobody else meets the row a call is about to insert) and
  `OneAttemptEach` (a list of dependents names one attempt of each, so the run that `Wake` starts
  claims the attempt listed). A step leaves the database alone and replaces one entry (`EntryInv`), or
  writes one generation's row (`RowInv`): its own work must then be in hand again, and its follow-ups
  are touched only if it succeeds, when its run is listing them or its answer is lost. Each way into `lost`
  has its lemma, and no other step needs to put anything there.

The components of `MCStores` and `MCProviders` are proved each in its own state space, from its own
specification, for any sets and any bounds. A property alone is never inductive here: the invariants
add what a call knows at each of its places, since what it read or put in one step is used in a later
one.

### What Viby stores (`StoresProofs`)

- `ArtifactBytesAgree`: `ArtSpec => []BytesAgree`, from `ArtAssumption` (the bounds are natural numbers).
  `ArtInv` adds that what a writer has in hand is named by no row of another and is new
  (`HandsAreFree`, `NewIdsAreFree`), and that what is about to be removed is named by nobody but for a
  commit its writer did not hear of (`RemovalsAreFree`): else a cleanup could remove the bytes of any row.
- `VariablesStaySound`: `EnvSpec => []VariablesAreSound`, from nothing. `EnvInv` is about owners: a row
  names one secret, a call between two steps holds the one it has put or replaced (`CallsHold`), no two
  share one (`OneOwner`), and a stored secret has an owner unless a fault took it (`SomeOwner`).
- `ToolSourcesStayFaithful`: `ToolSrcSpec => []SourcesAreFaithful`, from `ToolSrcAssumption` (finitely many
  sources, a natural bound). `SrcInv` adds that the cache has an adapter under its own key and that only
  a queued generation's run uses one, so a capture cannot change under a run.
- `SourcesAlwaysKept`: `SourcesSpec => []SourcesAreKept`, from `SourcesAssumption`. That a list of changes
  keeps locks is a statement about a recursive function: `AfterEachUnfolds` proves that the function
  exists and `AfterEachKeeps` what it keeps, both by a least counterexample over the length. `SourcesInv` adds
  what a candidate and a workspace are while they are on their way: the tree keeps its base's locks and
  comes from the recorded changes, the commands that ran have passed, and a workspace persists once at a
  time.
- `VotesAlwaysCounted`: `FeedbackSpec => []VotesAreCounted`, from `FeedbackAssumption` (ids are positive
  numbers). `FbInv` adds that ids differ, that where a call is one step the records are in the order of
  their times, and which record a selection may be: the last one of its message, or after an import one
  of its time. The import takes the greatest id of the latest time, which exists because records are
  finitely many (`LatestOne`). For the counts, `SumCounts` shows by a least counterexample over sets of
  buckets that totals add up to the records in them, and `OneIsFuller` that the order of buckets is
  total. The queries are those of the model: two dimensions and a limit of one.
- `LocalRowsAlwaysAgree`, `LocalImplementsContract`: `LocalSpec => []LocalRowsAgree` and `LocalSpec
  => LocalKeepsContract`, from `LocalAssumption`. `LocalInv` adds that version numbers differ and
  bases are among them, that of a purged chat no row is left which a loop removes but the archive of
  a deployment (`RowsGo`, from which what cascades and is not `LeftBehind` is gone), that the
  predecessor of a running follow-up has succeeded (`Follows`), that a generation has one version if
  it has changed the chat and none otherwise (`ResultsAreOne`), and that nothing begins in a purged
  chat (`PurgedIsQuiet`). The refinement maps every method to one step of `GenerationContract` or a
  stutter, with the guards of `Finish` from the invariant.
- `TrustedDelegatesAreCurrent`, `SnapshotsImplementOneStore`: `SqSpec => []CacheIsCurrent` and
  `SqSpec => ActsAsOneStore`, for any `Mutation` relation, from `SqAssumption`. `SqInv` adds `SqInHand`:
  the process inside its transaction holds the write lock, its delegate was made from the committed
  snapshot, and what it is about to commit is one mutation of that. A commit raises the revision above
  every other delegate's, so a revision that is equal means a snapshot that is equal. `Commit` is a step
  of `AtomicStore`, every other step a stutter.

### Edges (`EdgesProofs`)

- `DeltasAlwaysReachTheLog`: `RemoteSpec => []DeltasReachTheLog`, from `RemoteAssumption` (the sentinel is
  no worker). `RemoteInv` says what is covered, that is logged or in the hands of a worker that is about
  to log it: everything up to the checkpoint, and everything of the run once a result exists or is about
  to; unless a worker was torn from the delta, which `torn` records (`Covered`): by a failed append
  or a save whose answer was lost, a stop, a death or a closed fence. `Fits` says how the place of each worker
  in the stream relates to the checkpoint while the lease is its own.
- `OutboundStaysFaithful`: `OutboundSpec => []OutboundIsFaithful`, from `OutboundAssumption` (natural bounds,
  finitely many couriers). `OutInv` says it of every courier on its way: the events in time behind its
  own cursor are settled, its page lacks none of those that follow the cursor up to its end, an answer it is about to record was accepted. Requests are
  counted against the attempts of the row and the couriers that are sending (`SendsCounted`).
- `ToolEffectsAreGoverned`: `ToolsSpec => []EffectsAreGoverned`, from nothing. `ToolInv` says that one
  call at most owns the row of an effect (`OneOwner`), how often the effect has taken place at each of
  the owner's places (`OwnerKnows`) and by what the row says (`EffectsFit`), and that what a run may do
  was allowed by the policy or by an answer it has read (`RunFits`, `AnswersFit`).
- `StreamsAlwaysFaithful`: `StreamSpec => []StreamsAreFaithful`, from `StreamAssumption` (natural bounds, those
  of the log, the page and the wire positive). `StreamInv` has three parts: the reader has everything up to
  its cursor that came in time, the wire is in order after that, and the host's page after the wire
  skips nothing.
- `AnswersAlwaysTellTheEffect`: `ApiSpec => []AnswersTellTheEffect`, from `ApiAssumption`. `ApiInv` relates the
  effect to the place in the handler and to `lastStarted` of the middleware chain. What a handler is is
  a fact about each route: after its first change it only reads, or the request asked for more steps.
  Routes are pairs in a relation, each proved by itself.
- `PagesAlwaysFaithful`: `ListingsSpec => []PagesAreFaithful`, from `ListingsAssumption` (ids are natural
  numbers). `ListInv` says that the cursor splits the rows that were read from those to come, that a
  message which is not committed yet is newer than every message listed, and that a version is listed
  with its message. A page is the set of rows with fewer than `limit` before them, and facts about it are
  facts about cardinalities.

### Hosts of others (`HostsProofs`)

None needs an assumption but `Connections` (`ConnAssumption`: the sentinel is no session).

- `RepositoryHistoryIsTrue`, `RepositoryHistoryOnlyGrows`: `PushSpec => []HistoryIsTrue` and
  `PushSpec => BranchesOnlyGrow`. `PushInv` says for each place of a call what the commits and heads it has
  read are: they are of the repository, and since that only grows (`PushGrows`, proved for every step,
  other people's included) they stay so however late the call goes on. The history of a commit is
  the least set that contains it and its parents.
- `DeploymentRecordsAreTrue`, `DeployRetriesRepeatNothing`: `DeploySpec => []RecordsAreTrue` and
  `DeploySpec => RetriesRepeatNothing`. `DeployInv` has `CallHolds`: an answer that is about to be recorded is
  true of a deployment of the call's key, a build that no row names belongs to one call, and a call sends
  the archive that was recorded when it began. A deployment that is over stays as it is, so a late answer
  remains true.
- `ConnectionCredentialsAreSound`: `ConnSpec => []CredentialsAreSound`. `ConnInv` adds that a
  credential's session is consumed and `ConnHolds`: one call at most redeems a session, a credential that
  no row names yet is known to the call that got it only, and what is about to be deleted is not what an
  active connection names.
- `SandboxesAreAccountedFor`, `OverPreviewsAreFinal`: `SbSpec => []RunningIsAccountedFor` and
  `SbSpec => OverPreviewsStayOver`. `SbInv` says that a preview is opened by one call, once, that calls hold
  sessions which exist, that whoever says that the sandbox was stopped says so after the provider did
  (`StoppedIsGone`), and what each value of the lease says of the machine (`LeaseTellsTrue`).

### Beyond the prover

Every invariant and every action property that a passing run checks is thus stated by a theorem, and so
are the three refinements. What happens eventually (`EventuallySettles`, `EveryEventSettles`) is only
model-checked: liveness under fairness is beyond TLAPS. The document runs are counterexamples and have
nothing to prove.

Two forms of the modules are due to the provers. Recursive definitions are functions, because an
operator declared `RECURSIVE` has no backend, and facts about them are proved by a least counterexample
(`LeastNat`, from `WFMin`), because the library's induction theorems take an operator as a parameter. And
trees, pages and routes are built from comprehensions instead of `@@`, folds and sorted sequences, which
the provers do not expand.

## Not modelled

- Skills, frameworks, model catalog: prompts are data for an external model; their order is a sort.
- Browser automation and visual evaluation: calls to a browser whose outcome nothing here decides.
  A failed evaluation leaves its artifacts.
- Parsing and packing of archives, diffs, search, the text, media types, sizes and checksums of files,
  serialization and validation of requests, the texts of errors and events, prompts, costs.
- The preview's server-sent events, custom preview handlers, and the SSE form of
  `startVersionPreview`.
- Telemetry, health and doctor: they observe.
- Migrations: run once; the constraints they make are used where a module needs them.
- Conformance suites and test doubles; types, cursors' encoding, the CLI.
- `client.close()`, the registry entries of worker lanes (`client.ts:4736`), the limit on steering
  restarts (`client.ts:4023`), and lock order between PostgreSQL transactions, of which a transaction is
  one step here.

## What is left

1. An instance of `EmbeddedRuns` with worker lanes and a closing client, and one with two processes.
2. One model of a chat's deletion across `Artifacts`, `EnvironmentVariables` and `Connections`: each has
   its own, and a purge meets them all.
3. Liveness of `OutboundEvents`, `RemoteEngine` and previews under a fair host.
