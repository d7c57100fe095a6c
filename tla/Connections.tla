------------------------------- MODULE Connections -------------------------------
(***************************************************************************)
(* Connections to providers: integrations.connect, callback, disconnect    *)
(* and operationContext (integration-client.ts), the same life cycle for   *)
(* tool sources (tool-source-authorization.ts), their Postgres stores and  *)
(* the OAuth code of the six adapters.  One user, one integration or tool  *)
(* source, one external account.  Every request and every store operation  *)
(* is a step: the connection row is read first and written later without   *)
(* a condition, so calls overtake each other.                              *)
(*                                                                         *)
(* External: the provider, which issues credentials (numbered from 1),     *)
(* lets them expire and accepts a refresh token once or many times; the    *)
(* user, who comes back from the provider with a session's state.          *)
(***************************************************************************)
EXTENDS Integers, Sequences

CONSTANTS
    ConnCall,       \* calls in progress at once
    AuthSession,    \* authorization sessions
    MaxConnCalls,   \* bound: calls begun
    MaxTokens,      \* bound: credentials issued
    MaxConnFaults   \* bound: crashes and failed or lost store operations

Kind == {"github", "gitlab", "bitbucket", "vercel", "cloudflare", "netlify", "toolSource"}
NoSession == "none"

ASSUME ConnAssumption == NoSession \notin AuthSession

VARIABLES
    kind,         \* the adapter, or an adapter of a tool source
    source,       \* the tool source's registration
    tokens,       \* credentials issued, as the session each was issued for (or NoSession)
    live,         \* credentials the provider takes for a refresh
    expired,      \* credentials past expiresAt
    sessions,     \* authorization sessions
    sessionSecrets, \* sessions whose secret is stored
    secrets,      \* credentials in the secret store
    conn,         \* the connection row
    connCall,     \* calls in progress
    begun,        \* calls begun
    lostWrites,   \* bookkeeping: credentials whose row was written but the answer was lost
    connFaults

world    == <<kind, source, tokens, live, expired>>
stores   == <<sessions, sessionSecrets, secrets, conn>>
connVars == <<world, stores, connCall, begun, lostWrites, connFaults>>

IdleConn == [pc |-> "idle"]

CAt(c, pc)  == connCall[c].pc = pc
CSet(c, r)  == connCall' = [connCall EXCEPT ![c] = r]
CGo(c, pc)  == CSet(c, [connCall[c] EXCEPT !.pc = pc])
CEnd(c)     == CSet(c, IdleConn)
Me(c)       == connCall[c]
CBegin(c, r) == CAt(c, "idle") /\ begun < MaxConnCalls /\ begun' = begun + 1 /\ CSet(c, r)

Row(status, ref) == [status |-> status, ref |-> ref]

----------------------------------------------------------------------------
(* The provider and the clock *)

Issue(session) == Len(tokens) < MaxTokens /\ tokens' = Append(tokens, session)

ExpireToken(t) ==
    /\ t \notin expired /\ expired' = expired \cup {t}
    /\ kind \notin {"vercel", "netlify"}                       \* their credentials never expire
    /\ UNCHANGED <<kind, source, tokens, live, stores, connCall, lostWrites, connFaults, begun>>

ExpireSession(s) ==
    /\ sessions[s].state = "open" /\ sessions' = [sessions EXCEPT ![s].state = "expired"]
    /\ sessionSecrets' = sessionSecrets \ {s}
    /\ UNCHANGED <<world, secrets, conn, connCall, lostWrites, connFaults, begun>>

\* toolSources.archive: the connection and its secret stay.
ArchiveSource ==
    /\ kind = "toolSource" /\ source = "active" /\ source' = "archived"
    /\ UNCHANGED <<kind, tokens, live, expired, stores, connCall, lostWrites, connFaults, begun>>

\* Every operation on a tool source begins with its registration.
Available == source = "active"

----------------------------------------------------------------------------
(* The stores *)

\* updateConnection writes by id, whatever the row has become.
UpdateConnection(status, ref) == conn' = Row(status, ref)

PutSecret(t)    == secrets' = secrets \cup {t}
\* Best effort: a failure is swallowed.
DeleteSecret(t) == secrets' \in {secrets \ {t}, IF connFaults < MaxConnFaults THEN secrets ELSE secrets \ {t}}

----------------------------------------------------------------------------
(* connect *)

\* An active connection that can be used is the answer, unless the host insists.
Connect(c, s) ==
    /\ sessions[s].state = "absent" /\ Available
    /\ \E force \in BOOLEAN :
        CBegin(c, [pc |-> IF ~force /\ conn.status = "active" THEN "select" ELSE "start",
                 then |-> "start", session |-> s, ref |-> 0, next |-> 0])
    /\ UNCHANGED <<world, stores, lostWrites, connFaults>>

\* The adapter makes the URL; a session secret is stored before the session that names it.
Start(c, secretive) ==
    /\ CAt(c, "start")
    /\ sessionSecrets' = IF secretive THEN sessionSecrets \cup {Me(c).session} ELSE sessionSecrets
    /\ CSet(c, [Me(c) EXCEPT !.pc = "register", !.ref = IF secretive THEN 1 ELSE 0])
    /\ UNCHANGED <<world, sessions, secrets, conn, lostWrites, connFaults, begun>>

GitHubStart(c)     == kind = "github" /\ \E secretive \in BOOLEAN : Start(c, secretive)
GitLabStart(c)     == kind = "gitlab" /\ Start(c, TRUE)
BitbucketStart(c)  == kind = "bitbucket" /\ Start(c, FALSE)
VercelStart(c)     == kind = "vercel" /\ Start(c, FALSE)
CloudflareStart(c) == kind = "cloudflare" /\ Start(c, FALSE)
NetlifyStart(c)    == kind = "netlify" /\ Start(c, FALSE)
SourceStart(c)     == kind = "toolSource" /\ \E secretive \in BOOLEAN : Start(c, secretive)

Register(c) ==
    LET s == Me(c).session IN
    /\ CAt(c, "register")
    /\ \/ /\ sessions[s].state = "absent"
          /\ sessions' = [sessions EXCEPT ![s] = [state |-> "open", secretive |-> Me(c).ref = 1]]
          /\ UNCHANGED <<sessionSecrets, connFaults>>
       \/ /\ connFaults < MaxConnFaults /\ connFaults' = connFaults + 1
          /\ sessionSecrets' = sessionSecrets \ {s} /\ UNCHANGED sessions
    /\ CEnd(c)
    /\ UNCHANGED <<world, secrets, conn, lostWrites, begun>>

----------------------------------------------------------------------------
(* callback *)

\* A session that is open and a callback URL that matches it.
Callback(c, s) ==
    /\ sessions[s].state = "open"
    /\ CBegin(c, [pc |-> "consume", session |-> s, ref |-> 0, next |-> 0])
    /\ UNCHANGED <<world, stores, lostWrites, connFaults>>

\* As a slip would have it: the update has no condition.
ConsumeAgain(c) ==
    LET s == Me(c).session IN
    /\ CAt(c, "consume")
    /\ sessions' = [sessions EXCEPT ![s].state = "consumed"] /\ CGo(c, "session")
    /\ UNCHANGED <<world, sessionSecrets, secrets, conn, lostWrites, connFaults, begun>>

\* One conditional update: of two callbacks with one state, one goes on.
Consume(c) ==
    LET s == Me(c).session IN
    /\ CAt(c, "consume")
    /\ IF sessions[s].state = "open"
       THEN sessions' = [sessions EXCEPT ![s].state = "consumed"] /\ CGo(c, "session")
       ELSE UNCHANGED sessions /\ CEnd(c)
    /\ UNCHANGED <<world, sessionSecrets, secrets, conn, lostWrites, connFaults, begun>>

\* An archived source or a missing session secret ends the call here.
SessionSecret(c) ==
    LET s == Me(c).session IN
    /\ CAt(c, "session")
    /\ IF Available /\ (sessions[s].secretive => s \in sessionSecrets)
       THEN CGo(c, "exchange") ELSE CEnd(c)
    /\ UNCHANGED <<world, stores, lostWrites, connFaults, begun>>

\* completeAuthorization: the code for a credential, and the account it belongs to.
Exchange(c) ==
    /\ CAt(c, "exchange")
    /\ \/ /\ Issue(Me(c).session)
          /\ live' = live \cup {Len(tokens) + 1}
          /\ CSet(c, [Me(c) EXCEPT !.pc = "put", !.next = Len(tokens) + 1])
       \/ CGo(c, "endSession") /\ UNCHANGED <<tokens, live>>   \* refused, or the user declined
    /\ UNCHANGED <<kind, source, expired, stores, lostWrites, connFaults, begun>>

GitHubExchange(c)     == kind = "github" /\ Exchange(c)
GitLabExchange(c)     == kind = "gitlab" /\ Exchange(c)
BitbucketExchange(c)  == kind = "bitbucket" /\ Exchange(c)
VercelExchange(c)     == kind = "vercel" /\ Exchange(c)
CloudflareExchange(c) == kind = "cloudflare" /\ Exchange(c)
NetlifyExchange(c)    == kind = "netlify" /\ Exchange(c)
SourceExchange(c)     == kind = "toolSource" /\ Exchange(c)

Put(c) ==
    /\ CAt(c, "put")
    /\ PutSecret(Me(c).next) /\ CGo(c, "upsert")
    /\ UNCHANGED <<world, sessions, sessionSecrets, conn, lostWrites, connFaults, begun>>

\* upsertConnection locks the row, if there is one, and tells which secret it replaced.
Upsert(c) ==
    /\ CAt(c, "upsert")
    /\ IF conn.status = "absent"
       THEN CGo(c, "insert") /\ UNCHANGED conn
       ELSE /\ UpdateConnection("active", Me(c).next)
            /\ CSet(c, [Me(c) EXCEPT !.pc = "dropReplaced", !.ref = conn.ref])
    /\ UNCHANGED <<world, sessions, sessionSecrets, secrets, lostWrites, connFaults, begun>>

\* A row that is not there cannot be locked: ON CONFLICT takes over one that came in between.
Insert(c) ==
    /\ CAt(c, "insert")
    /\ UpdateConnection("active", Me(c).next)
    /\ CGo(c, "endSession")
    /\ UNCHANGED <<world, sessions, sessionSecrets, secrets, lostWrites, connFaults, begun>>

DropReplaced(c) ==
    /\ CAt(c, "dropReplaced")
    /\ DeleteSecret(Me(c).ref) /\ CGo(c, "endSession")
    /\ UNCHANGED <<world, sessions, sessionSecrets, conn, lostWrites, connFaults, begun>>

EndSession(c) ==
    /\ CAt(c, "endSession")
    /\ sessionSecrets' = sessionSecrets \ {Me(c).session} /\ CEnd(c)
    /\ UNCHANGED <<world, sessions, secrets, conn, lostWrites, connFaults, begun>>

----------------------------------------------------------------------------
(* operationContext *)

\* A caller without a usable connection is told to connect; connect itself starts to.
Required(c) == IF Me(c).then = "start" THEN CGo(c, "start") ELSE CEnd(c)

Use(c) ==
    /\ Available
    /\ CBegin(c, [pc |-> "select", then |-> "fail", ref |-> 0, next |-> 0])
    /\ UNCHANGED <<world, stores, lostWrites, connFaults>>

SelectConnection(c) ==
    /\ CAt(c, "select")
    /\ IF conn.status = "active"
       THEN CSet(c, [Me(c) EXCEPT !.pc = "secret", !.ref = conn.ref]) ELSE Required(c)
    /\ UNCHANGED <<world, stores, lostWrites, connFaults, begun>>

\* Tool source adapters may have no refresh; Vercel's and Netlify's credentials need none.
ReadSecret(c) ==
    /\ CAt(c, "secret")
    /\ CASE Me(c).ref \notin secrets -> CGo(c, "missing")
         [] Me(c).ref \in secrets \ expired -> CEnd(c)
         [] OTHER -> CGo(c, "refresh") \/ (kind = "toolSource" /\ CGo(c, "demote"))
    /\ UNCHANGED <<world, stores, lostWrites, connFaults, begun>>

\* The secret is gone: the row is written from what was read, although it may name another by now.
Missing(c) ==
    /\ CAt(c, "missing")
    /\ UpdateConnection("required", 0) /\ Required(c)
    /\ UNCHANGED <<world, sessions, sessionSecrets, secrets, lostWrites, connFaults, begun>>

Demote(c) ==
    /\ CAt(c, "demote")
    /\ UpdateConnection("required", Me(c).ref) /\ Required(c)
    /\ UNCHANGED <<world, sessions, sessionSecrets, secrets, lostWrites, connFaults, begun>>

\* The provider may rotate the refresh token.  A refusal asks for authorization or is just an error.
Refresh(c, refusal) ==
    /\ CAt(c, "refresh")
    /\ IF Me(c).ref \in live
       THEN /\ Issue(NoSession)
            /\ \E old \in {{}, {Me(c).ref}} : live' = (live \ old) \cup {Len(tokens) + 1}
            /\ CSet(c, [Me(c) EXCEPT !.pc = "store", !.next = Len(tokens) + 1])
       ELSE /\ IF refusal = "reauthorize" THEN CGo(c, refusal) ELSE CEnd(c)
            /\ UNCHANGED <<tokens, live>>
    /\ UNCHANGED <<kind, source, expired, stores, lostWrites, connFaults, begun>>

GitHubRefresh(c)     == kind = "github" /\ Refresh(c, "reauthorize")
GitLabRefresh(c)     == kind = "gitlab" /\ Refresh(c, "error")
BitbucketRefresh(c)  == kind = "bitbucket" /\ Refresh(c, "error")
CloudflareRefresh(c) == kind = "cloudflare" /\ Refresh(c, "error")
SourceRefresh(c)     == kind = "toolSource" /\ \E r \in {"reauthorize", "error"} : Refresh(c, r)

Reauthorize(c) ==
    /\ CAt(c, "reauthorize")
    /\ UpdateConnection("required", 0) /\ CGo(c, "dropRefused")
    /\ UNCHANGED <<world, sessions, sessionSecrets, secrets, lostWrites, connFaults, begun>>

DropRefused(c) ==
    /\ CAt(c, "dropRefused")
    /\ DeleteSecret(Me(c).ref) /\ Required(c)
    /\ UNCHANGED <<world, sessions, sessionSecrets, conn, lostWrites, connFaults, begun>>

StoreRefreshed(c) ==
    /\ CAt(c, "store")
    /\ PutSecret(Me(c).next) /\ CGo(c, "adopt")
    /\ UNCHANGED <<world, sessions, sessionSecrets, conn, lostWrites, connFaults, begun>>

\* The row takes the new secret, and only then the old one goes.
Adopt(c) ==
    /\ CAt(c, "adopt")
    /\ UpdateConnection("active", Me(c).next) /\ CGo(c, "dropPrevious")
    /\ UNCHANGED <<world, sessions, sessionSecrets, secrets, lostWrites, connFaults, begun>>

DropPrevious(c) ==
    /\ CAt(c, "dropPrevious")
    /\ DeleteSecret(Me(c).ref) /\ CEnd(c)
    /\ UNCHANGED <<world, sessions, sessionSecrets, conn, lostWrites, connFaults, begun>>

----------------------------------------------------------------------------
(* disconnect *)

Disconnect(c) ==
    /\ Available /\ conn.status # "absent"
    /\ CBegin(c, [pc |-> "revoke", ref |-> conn.ref, next |-> 0])
    /\ UNCHANGED <<world, stores, lostWrites, connFaults>>

\* Best effort, with the stored secret.
Revoke(c) ==
    /\ CAt(c, "revoke")
    /\ live' \in {live, IF Me(c).ref \in secrets THEN live \ {Me(c).ref} ELSE live}
    /\ CGo(c, "mark")
    /\ UNCHANGED <<kind, source, tokens, expired, stores, lostWrites, connFaults, begun>>

GitHubRevoke(c)     == kind = "github" /\ Revoke(c)
GitLabRevoke(c)     == kind = "gitlab" /\ Revoke(c)
VercelRevoke(c)     == kind = "vercel" /\ Revoke(c)
CloudflareRevoke(c) == kind = "cloudflare" /\ Revoke(c)
SourceRevoke(c)     == kind = "toolSource" /\ Revoke(c)
SkipRevoke(c) ==
    /\ kind \in {"bitbucket", "netlify", "toolSource"} /\ CAt(c, "revoke") /\ CGo(c, "mark")
    /\ UNCHANGED <<world, stores, lostWrites, connFaults, begun>>

MarkRevoked(c) ==
    /\ CAt(c, "mark")
    /\ UpdateConnection("revoked", 0) /\ CGo(c, "dropRevoked")
    /\ UNCHANGED <<world, sessions, sessionSecrets, secrets, lostWrites, connFaults, begun>>

DropRevoked(c) ==
    /\ CAt(c, "dropRevoked")
    /\ DeleteSecret(Me(c).ref) /\ CEnd(c)
    /\ UNCHANGED <<world, sessions, sessionSecrets, conn, lostWrites, connFaults, begun>>

----------------------------------------------------------------------------
(* Failures *)

\* The process dies, or the step fails where nothing is undone.
InterruptConn(c) ==
    /\ connCall[c].pc # "idle" /\ connFaults < MaxConnFaults
    /\ connFaults' = connFaults + 1
    /\ CEnd(c)
    /\ UNCHANGED <<world, stores, lostWrites, begun>>

\* The write of the row fails, or its answer is lost: the new secret is removed, if that works.
WriteFails(c) ==
    /\ connCall[c].pc \in {"upsert", "insert", "adopt"} /\ connFaults < MaxConnFaults
    /\ connFaults' = connFaults + 1
    /\ \/ UNCHANGED <<conn, lostWrites>>
       \/ UpdateConnection("active", Me(c).next) /\ lostWrites' = lostWrites \cup {Me(c).next}
    /\ secrets' \in {secrets, secrets \ {Me(c).next}}
    /\ IF CAt(c, "adopt") THEN CEnd(c) ELSE CGo(c, "endSession")
    /\ UNCHANGED <<world, sessions, sessionSecrets, begun>>

----------------------------------------------------------------------------
ConnStores ==
    /\ source = "active" /\ tokens = <<>> /\ live = {} /\ expired = {}
    /\ sessions = [s \in AuthSession |-> [state |-> "absent", secretive |-> FALSE]]
    /\ sessionSecrets = {} /\ secrets = {} /\ conn = Row("absent", 0)
    /\ connCall = [c \in ConnCall |-> IdleConn]
    /\ lostWrites = {} /\ connFaults = 0

ConnInit == ConnStores /\ kind \in Kind /\ begun = 0
ConnIdle == ConnStores /\ kind = "github" /\ begun = MaxConnCalls

ConnNext ==
    \/ ArchiveSource
    \/ \E t \in 1..Len(tokens) : ExpireToken(t)
    \/ \E s \in AuthSession : ExpireSession(s) \/ \E c \in ConnCall : Connect(c, s) \/ Callback(c, s)
    \/ \E c \in ConnCall :
        \/ GitHubStart(c) \/ GitLabStart(c) \/ BitbucketStart(c) \/ VercelStart(c)
        \/ CloudflareStart(c) \/ NetlifyStart(c) \/ SourceStart(c) \/ Register(c)
        \/ Consume(c) \/ SessionSecret(c)
        \/ GitHubExchange(c) \/ GitLabExchange(c) \/ BitbucketExchange(c) \/ VercelExchange(c)
        \/ CloudflareExchange(c) \/ NetlifyExchange(c) \/ SourceExchange(c)
        \/ Put(c) \/ Upsert(c) \/ Insert(c) \/ DropReplaced(c) \/ EndSession(c)
        \/ Use(c) \/ SelectConnection(c) \/ ReadSecret(c) \/ Missing(c) \/ Demote(c)
        \/ GitHubRefresh(c) \/ GitLabRefresh(c) \/ BitbucketRefresh(c) \/ CloudflareRefresh(c)
        \/ SourceRefresh(c) \/ Reauthorize(c) \/ DropRefused(c) \/ StoreRefreshed(c)
        \/ Adopt(c) \/ DropPrevious(c)
        \/ Disconnect(c) \/ GitHubRevoke(c) \/ GitLabRevoke(c) \/ VercelRevoke(c)
        \/ CloudflareRevoke(c) \/ SourceRevoke(c) \/ SkipRevoke(c)
        \/ MarkRevoked(c) \/ DropRevoked(c)
        \/ InterruptConn(c) \/ WriteFails(c)

ConnSpec == ConnInit /\ [][ConnNext]_connVars

----------------------------------------------------------------------------
(* Properties *)

\* The state of a session is worth one authorization (docs/api/v1.md: "hashed and single use"):
\* callbacks that race with one state get one credential between them.
SessionRedeemedOnce ==
    \A i, j \in 1..Len(tokens) : tokens[i] = tokens[j] /\ tokens[i] # NoSession => i = j

\* An active connection names a secret that is there, whatever refreshes, reconnects and
\* disconnects overlap and wherever one of them dies: a secret goes only after the row let go of
\* it, and whoever writes the row later names one of its own.  The exception is a write that took
\* effect while its answer was lost, since the caller then removes the secret it had put.
ActiveNamesSecret ==
    conn.status = "active" => conn.ref \in secrets \cup lostWrites

\* Authorization sessions and credentials (completeAuthorization, refresh, disconnect).
CredentialsAreSound == SessionRedeemedOnce /\ ActiveNamesSecret

\* A disconnected connection is not used again before a new authorization (docs/integrations/
\* bitbucket.md: "Disconnect always revokes and deletes Viby's local encrypted connection, which
\* prevents further SDK use").  A refresh that had read the row writes it active again.
DisconnectIsFinal ==
    [][conn.status = "revoked" /\ conn'.status = "active" => tokens[conn'.ref] # NoSession]_connVars
=============================================================================
