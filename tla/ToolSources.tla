---------------------------- MODULE ToolSources ----------------------------
(* Tool sources a user registers (tool-source-registry.ts): the rows and what *)
(* a chat selects of them, what a generation captures when it is queued, and   *)
(* the adapters a process has opened, which it caches by source and revision,  *)
(* with the MCP connection each keeps for the chat (tool-source-mcp.ts).       *)
EXTENDS Naturals, FiniteSets, Sequences, SequencesExt

CONSTANTS
    ToolSource,   \* registered sources
    SrcRun,       \* generations of the chat
    MaxEdits,     \* bound: edits of registrations
    MaxSelects,   \* bound: selections of the chat
    MaxOpened,    \* bound: adapters opened
    MaxOpenFails  \* bound: adapters that fail to open

ASSUME ToolSrcAssumption == IsFiniteSet(ToolSource) /\ MaxEdits \in Nat

VARIABLES
    selectsIn,    \* "postgres" or "memory"
    registration, \* for each source [status, rev]
    chosen,       \* rows of the chat's selection: a source and the selection that wrote it
    choosing,     \* selections in progress: [id, want, deleted, seen]
    selects,
    captured,     \* for each generation [state, sources]: pairs of a source and a revision
    opened,       \* adapters, in the order they were opened: [key, state, connection]
    cached,       \* for each key the adapter the process has cached, or 0
    uncached,     \* sources whose write is done and whose adapters are not yet let go
    closing,      \* sets of adapters let go together and to be closed
    inUse,        \* for each generation the adapters its run was given
    forgotten,    \* adapters dropped from the cache by the failure of another
    openFails
toolSrcVars == <<selectsIn, registration, chosen, choosing, selects, captured, opened, cached,
                 uncached, closing, inUse, forgotten, openFails>>

rowVars   == <<selectsIn, registration>>
chatVars  == <<chosen, choosing, selects>>
cacheVars == <<opened, cached, uncached, closing, forgotten, openFails>>

Revision == 0..MaxEdits
Key      == ToolSource \X Revision

\* A plausible bug: adapters are cached by source.
SourceKey(pair) == <<pair[1], 0>>

\* The revision is what the registration says, with the time of its last update.
CacheKey(pair) == <<pair[1], pair[2]>>

KeysOf(s) == {k \in Key : k[1] = s}

ToolSrcRest ==
    /\ registration = [s \in ToolSource |-> [status |-> "absent", rev |-> 0]]
    /\ chosen = {} /\ choosing = {}
    /\ captured = [g \in SrcRun |-> [state |-> "none", sources |-> {}]]
    /\ opened = <<>> /\ cached = [k \in Key |-> 0] /\ uncached = {} /\ closing = {}
    /\ inUse = [g \in SrcRun |-> {}] /\ forgotten = {} /\ openFails = 0
ToolSrcInit == ToolSrcRest /\ selects = 0 /\ selectsIn \in {"postgres", "memory"}
\* At rest in a composition.
ToolSrcIdle == ToolSrcRest /\ selects = MaxSelects /\ selectsIn = "memory"

Edits == Cardinality({k \in Key : k[2] > 0 /\ k[2] <= registration[k[1]].rev})

----------------------------------------------------------------------------
(* Registrations *)

CreateRegistration(s) ==
    /\ registration[s].status = "absent"
    /\ registration' = [registration EXCEPT ![s].status = "active"]
    /\ UNCHANGED <<selectsIn, chatVars, captured, cacheVars, inUse>>

WriteRegistration(s, status) ==
    /\ registration[s].status # "absent"
    /\ registration[s].rev < MaxEdits /\ Edits < MaxEdits
    /\ registration' = [registration EXCEPT ![s] = [status |-> status, rev |-> @.rev + 1]]

\* By this process, which lets its adapters go afterwards, or by another one.
WrittenBy(s) ==
    /\ uncached' \in {uncached, uncached \cup {s}}
    /\ UNCHANGED <<selectsIn, captured, opened, cached, closing, inUse, forgotten, openFails>>

UpdateRegistration(s) ==
    /\ registration[s].status # "archived"
    /\ \E status \in {"active", "disabled"} : WriteRegistration(s, status)
    /\ WrittenBy(s) /\ UNCHANGED chatVars

\* The source leaves every selection in the same transaction.  It may be archived again.
ArchiveSourceOf(s) ==
    /\ WriteRegistration(s, "archived")
    /\ chosen' = {r \in chosen : r[1] # s}
    /\ WrittenBy(s) /\ UNCHANGED <<choosing, selects>>

LetGo(keys) ==
    /\ closing' = closing \cup ({{cached[k] : k \in keys} \ {0}} \ {{}})
    /\ cached' = [k \in Key |-> IF k \in keys THEN 0 ELSE cached[k]]

\* An adapter still opening is let go too, and closed when it has opened.
CloseCached(s) ==
    /\ s \in uncached
    /\ uncached' = uncached \ {s}
    /\ LetGo(KeysOf(s))
    /\ UNCHANGED <<rowVars, chatVars, captured, opened, inUse, forgotten, openFails>>

\* The client is closed.
CloseRegistry ==
    /\ \E k \in Key : cached[k] # 0
    /\ LetGo(Key)
    /\ UNCHANGED <<rowVars, chatVars, captured, opened, uncached, inUse, forgotten, openFails>>

----------------------------------------------------------------------------
(* What a chat selects *)

\* Bound: selections are over when the first adapter is opened; a later one
\* would reach the cache only through what a generation captures.
CanChoose == selects < MaxSelects /\ opened = <<>>

RowsOf(want, id) == {<<s, id>> : s \in want}
Selectable(want) == \A s \in want : registration[s].status = "active"

SelectLocally ==
    /\ selectsIn = "memory" /\ CanChoose
    /\ \E want \in SUBSET ToolSource : Selectable(want) /\ chosen' = RowsOf(want, selects + 1)
    /\ selects' = selects + 1
    /\ UNCHANGED <<rowVars, choosing, captured, cacheVars, inUse>>

\* No row is locked until the old selection is deleted.
BeginSelect ==
    /\ selectsIn = "postgres" /\ CanChoose
    /\ \E want \in SUBSET ToolSource :
         /\ Selectable(want)
         /\ choosing' = choosing \cup {[id |-> selects + 1, want |-> want, deleted |-> FALSE, seen |-> {}]}
    /\ selects' = selects + 1
    /\ UNCHANGED <<rowVars, chosen, captured, cacheVars, inUse>>

\* The rows that the statement sees: those which another writes meanwhile stay.
DeleteSelected ==
    /\ \E t \in choosing :
         /\ ~t.deleted
         /\ choosing' = (choosing \ {t}) \cup {[t EXCEPT !.deleted = TRUE, !.seen = chosen]}
    /\ UNCHANGED <<rowVars, chosen, selects, captured, cacheVars, inUse>>

\* A row of the source that stayed fails the whole.
Conflicts(t) == \E r \in chosen \ t.seen : r[1] \in t.want

CommitSelect ==
    /\ \E t \in choosing :
         /\ t.deleted
         /\ choosing' = choosing \ {t}
         /\ chosen' = IF Conflicts(t) THEN chosen ELSE (chosen \ t.seen) \cup RowsOf(t.want, t.id)
    /\ UNCHANGED <<rowVars, selects, captured, cacheVars, inUse>>

----------------------------------------------------------------------------
(* Generations *)

\* What is kept of a registration says which revision it was.
SnapshotOf(s) == <<s, registration[s].rev>>

\* The active ones of the selection, read before the generation is created.
CaptureSources(g) ==
    /\ captured[g].state = "none"
    /\ captured' = [captured EXCEPT ![g] = [state |-> "read", sources |->
         {SnapshotOf(r[1]) : r \in {c \in chosen : registration[c[1]].status = "active"}}]]
    /\ UNCHANGED <<rowVars, chatVars, cacheVars, inUse>>

Queue(g) ==
    /\ captured[g].state = "read"
    /\ captured' = [captured EXCEPT ![g].state = "queued"]
    /\ UNCHANGED <<rowVars, chatVars, cacheVars, inUse>>

Opening(pair) ==
    [key |-> CacheKey(pair), source |-> pair, state |-> "opening", connection |-> FALSE]

\* An attempt gets what is cached and opens the rest.
ResolveSources(g) ==
    /\ captured[g].state = "queued" /\ inUse[g] = {} /\ captured[g].sources # {}
    /\ choosing = {}
    /\ LET new   == SetToSeq({p \in captured[g].sources : cached[CacheKey(p)] = 0})
           at(k) == {i \in DOMAIN new : CacheKey(new[i]) = k}
       IN /\ Len(opened) + Len(new) <= MaxOpened
          /\ opened' = opened \o [i \in DOMAIN new |-> Opening(new[i])]
          /\ cached' = [k \in Key |-> IF at(k) = {} THEN cached[k]
                                     ELSE Len(opened) + CHOOSE i \in at(k) : TRUE]
    /\ inUse' = [inUse EXCEPT ![g] = {cached'[CacheKey(p)] : p \in captured[g].sources}]
    /\ UNCHANGED <<rowVars, chatVars, captured, uncached, closing, forgotten, openFails>>

\* MCP connects when it must, also after it was closed.
Connects(i) == opened' = [opened EXCEPT ![i].connection = TRUE]

\* The run lists or calls tools once all are open.
CallTool(g) ==
    /\ \A i \in inUse[g] : opened[i].state \in {"open", "closed"}
    /\ \E i \in inUse[g] : Connects(i)
    /\ UNCHANGED <<rowVars, chatVars, captured, cached, uncached, closing, inUse, forgotten, openFails>>

\* The attempt ends, also because an adapter failed.
LeaveSources(g) ==
    /\ inUse[g] # {} /\ inUse' = [inUse EXCEPT ![g] = {}]
    /\ UNCHANGED <<rowVars, chatVars, captured, cacheVars>>

----------------------------------------------------------------------------
(* Adapters *)

OpenSucceeds(i) ==
    /\ opened[i].state = "opening"
    /\ opened' = [opened EXCEPT ![i].state = "open"]
    /\ UNCHANGED <<rowVars, chatVars, captured, cached, uncached, closing, inUse, forgotten, openFails>>

\* The key goes from the cache, whoever has it by now.
OpenFails(i) ==
    /\ openFails < MaxOpenFails /\ opened[i].state = "opening"
    /\ openFails' = openFails + 1
    /\ opened' = [opened EXCEPT ![i].state = "failed"]
    /\ cached' = [cached EXCEPT ![opened[i].key] = 0]
    /\ forgotten' = forgotten \cup ({cached[opened[i].key]} \ {0, i})
    /\ UNCHANGED <<rowVars, chatVars, captured, uncached, closing, inUse>>

\* With an MCP source its connection is closed.
Closed(adapter) == [adapter EXCEPT !.state = "closed", !.connection = FALSE]

\* All of those let go together have settled: what opened is closed.
CloseAdapters ==
    /\ \E let \in closing :
         /\ \A i \in let : opened[i].state # "opening"
         /\ closing' = closing \ {let}
         /\ opened' = [i \in DOMAIN opened |->
              IF i \in let /\ opened[i].state = "open"
              THEN Closed(opened[i]) ELSE opened[i]]
    /\ UNCHANGED <<rowVars, chatVars, captured, cached, uncached, inUse, forgotten, openFails>>

ToolSrcNext ==
    \/ \E s \in ToolSource :
         CreateRegistration(s) \/ UpdateRegistration(s) \/ ArchiveSourceOf(s) \/ CloseCached(s)
    \/ CloseRegistry \/ SelectLocally \/ BeginSelect \/ DeleteSelected \/ CommitSelect
    \/ \E g \in SrcRun :
         CaptureSources(g) \/ Queue(g) \/ ResolveSources(g) \/ CallTool(g) \/ LeaveSources(g)
    \/ \E i \in DOMAIN opened : OpenSucceeds(i) \/ OpenFails(i)
    \/ CloseAdapters

ToolSrcSpec == ToolSrcInit /\ [][ToolSrcNext]_toolSrcVars

----------------------------------------------------------------------------
(* Properties *)

\* "Workers and retries use those exact revisions even if the chat selection or
\* registration changes later" (README.md:252): whatever was updated, closed and
\* opened again meanwhile, a run is given the registrations its generation captured.
RunsUseWhatWasCaptured ==
    \A g \in SrcRun : inUse[g] # {} =>
        {opened[i].source : i \in inUse[g]} = captured[g].sources

\* An adapter that is open can still be closed: it is cached, or let go and
\* waiting to be closed.  The failure of an older one of its key makes it be forgotten.
OpenAdaptersAreHeld ==
    \A i \in DOMAIN opened \ forgotten :
        opened[i].state \in {"opening", "open"} =>
            (\E k \in Key : cached[k] = i) \/ \E let \in closing : i \in let

\* What generations use and what stays open (ToolSourceRegistry.resolve, #open, #closeCached, close).
SourcesAreFaithful == RunsUseWhatWasCaptured /\ OpenAdaptersAreHeld

\* "Archived or disabled registrations cannot be exposed to a new generation"
\* (docs/api/tool-sources.md): the snapshot is read before the generation is created.
ArchivedStaysOut ==
    [][\A g \in SrcRun : captured[g].state = "read" /\ captured'[g].state = "queued" =>
         \A p \in captured[g].sources : registration[p[1]].status = "active"]_toolSrcVars

\* "Atomically replaces the selection": two that overlap leave what both want.
SelectionIsReplaced ==
    [][\A t \in choosing \ choosing' : t.deleted /\ ~Conflicts(t) => chosen' = RowsOf(t.want, t.id)]_toolSrcVars

\* A closed adapter has no connection: a run that still uses it connects again.
ClosedSourcesStayClosed ==
    \A i \in DOMAIN opened : opened[i].state = "closed" => ~opened[i].connection
=============================================================================
