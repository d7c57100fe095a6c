------------------------------- MODULE Sandboxes -------------------------------
(***************************************************************************)
(* Sandbox sessions and leases (sandbox.ts), the six sandbox adapters and  *)
(* the previews that run in a sandbox (preview.ts), with their Postgres    *)
(* rows.  One version, one sandbox, its lease and its preview; several     *)
(* processes, each with its own SandboxSession objects and its own map of  *)
(* previews.  A step is one call to the store or the provider, or the code *)
(* between two of them.                                                    *)
(*                                                                         *)
(* External: the provider's sandbox and the server in it; the clock, with  *)
(* one deadline for the sandbox, its lease and its preview.                *)
(***************************************************************************)
EXTENDS Integers, Sequences

CONSTANTS
    SbProc,        \* processes
    SbCall,        \* calls in progress at once
    MaxSbCalls,    \* bound: calls begun
    MaxSbSessions, \* bound: SandboxSession objects
    MaxSbFaults    \* bound: crashes and failed provider or store calls

SandboxKind == {"docker", "e2b", "vercel", "cloudflare", "daytona", "modal"}
Previewing  == {"e2b", "vercel", "cloudflare"}    \* with background processes, URLs and reconnect
PreviewOver == {"failed", "stopped", "expired"}
PreviewLive == {"starting", "ready"}

VARIABLES
    sbProvider,  \* the configured adapter
    machine,     \* the provider's sandbox: "absent", "running" or "gone"
    serving,     \* whether the preview's server answers
    due,         \* whether expiresAt has passed
    lease,       \* the sandbox lease row
    preview,     \* the preview row
    sess,        \* SandboxSession objects: their process and the state of their stop promise
    tracked,     \* the previews registry of each process: its session for the preview, or 0
    sbCall,      \* calls in progress
    sbBegun,     \* calls begun
    revived,     \* bookkeeping: a stopped sandbox was started again by a reconnect
    strayed,     \* bookkeeping: a crash or a failed stop may have left a sandbox
    sbFaults

box     == <<machine, serving>>
rows    == <<lease, preview>>
handles == <<sess, tracked>>
marks   == <<revived, strayed>>
sbVars  == <<sbProvider, box, due, rows, handles, sbCall, sbBegun, marks, sbFaults>>

IdleSb == [pc |-> "idle", proc |-> "none", op |-> "none", s |-> 0]

SbAt(c, pc)      == sbCall[c].pc = pc
SbOp(c, pc, op)  == SbAt(c, pc) /\ sbCall[c].op = op
SbGo(c, pc)      == sbCall' = [sbCall EXCEPT ![c].pc = pc]
SbWith(c, pc, s) == sbCall' = [sbCall EXCEPT ![c] = [@ EXCEPT !.pc = pc, !.s = s]]
SbEnd(c)         == sbCall' = [sbCall EXCEPT ![c] = IdleSb]
ProcOf(c)        == sbCall[c].proc
SessionOf(c)     == sbCall[c].s
SbBegin(c, p, op, pc, s) ==
    /\ SbAt(c, "idle") /\ sbBegun < MaxSbCalls /\ sbBegun' = sbBegun + 1
    /\ sbCall' = [sbCall EXCEPT ![c] = [pc |-> pc, proc |-> p, op |-> op, s |-> s]]

SbFault       == sbFaults < MaxSbFaults /\ sbFaults' = sbFaults + 1
Box(m)        == machine' = m /\ serving' = (serving /\ m = "running")
Status(p, st) == p' = [p EXCEPT !.status = st]
Track(p, s)   == tracked' = [tracked EXCEPT ![p] = s]
NewSession(p) == Len(sess) < MaxSbSessions /\ sess' = Append(sess, [proc |-> p, stop |-> "no"])

----------------------------------------------------------------------------
(* The rows *)

\* All of them are conditional updates.
CloseLease(st)  == lease' = IF lease = "active" THEN st ELSE lease
ClosePreview(st) == preview' = IF preview.status \in PreviewLive THEN [preview EXCEPT !.status = st] ELSE preview
FailPreview     == ClosePreview("failed")

\* mutant: markPreviewReady without its condition
ReadyAnyway(c) == SbEnd(c) /\ Status(preview, "ready")

\* A preview that is over makes markPreviewReady an error: open fails, reconnect's caller gets it.
MarkReady(c) ==
    IF preview.status \in PreviewLive
    THEN SbEnd(c) /\ Status(preview, "ready")
    ELSE /\ IF sbCall[c].op = "open" THEN SbGo(c, "fail") ELSE SbEnd(c)
         /\ UNCHANGED preview

----------------------------------------------------------------------------
(* SandboxRegistry.open *)

\* previews.start coalesces the opens of a process; another process would open a sandbox of its own.
OpenPreview(c, p) ==
    /\ machine = "absent" /\ \A d \in SbCall : sbCall[d].op # "open"
    /\ SbBegin(c, p, "open", "create", 0)
    /\ UNCHANGED <<sbProvider, box, due, rows, handles, marks, sbFaults>>

\* Created; or refused, with nothing at the provider; or aborted with something there, which the
\* adapter removes (cleans) as best it can.
Create(c, cleans) ==
    /\ SbOp(c, "create", "open")
    /\ \/ Box("running") /\ SbGo(c, "lease") /\ UNCHANGED <<strayed, sbFaults>>
       \/ SbEnd(c) /\ UNCHANGED <<box, strayed, sbFaults>>
       \/ /\ cleans /\ SbEnd(c) /\ Box("gone") /\ UNCHANGED <<strayed, sbFaults>>
       \/ /\ SbFault /\ SbEnd(c) /\ Box("running") /\ strayed' = TRUE
    /\ UNCHANGED <<sbProvider, due, rows, handles, sbBegun, revived>>

\* An aborted `docker run` leaves the container to the daemon: only its client is killed.
DockerCreate(c)     == sbProvider = "docker" /\ Create(c, FALSE)
E2BCreate(c)        == sbProvider = "e2b" /\ Create(c, FALSE)
VercelCreate(c)     == sbProvider = "vercel" /\ Create(c, FALSE)
CloudflareCreate(c) == sbProvider = "cloudflare" /\ Create(c, TRUE)
DaytonaCreate(c)    == sbProvider = "daytona" /\ Create(c, TRUE)
ModalCreate(c)      == sbProvider = "modal" /\ Create(c, TRUE)

\* Without its row the sandbox is stopped again; that may fail too.
CreateLease(c) ==
    /\ SbAt(c, "lease")
    /\ \/ /\ lease' = "active" /\ NewSession(ProcOf(c)) /\ SbWith(c, "files", Len(sess) + 1)
          /\ UNCHANGED <<box, strayed, sbFaults>>
       \/ /\ SbFault /\ SbEnd(c) /\ UNCHANGED <<lease, sess>>
          /\ \/ Box("gone") /\ UNCHANGED strayed
             \/ strayed' = TRUE /\ UNCHANGED box
    /\ UNCHANGED <<sbProvider, due, preview, tracked, sbBegun, revived>>

\* writeFiles on a session that was not stopped; a failure stops the session.
Materialize(c) ==
    /\ SbOp(c, "files", "open")
    /\ \/ sess[SessionOf(c)].stop = "no" /\ machine = "running" /\ SbGo(c, "row")
       \/ SbGo(c, "stop")
    /\ UNCHANGED <<sbProvider, box, due, rows, handles, sbBegun, marks, sbFaults>>

----------------------------------------------------------------------------
(* PreviewRegistry.open *)

\* A provider without the capabilities, or a lease that is no longer active, ends the preview
\* before it has a row; the sandbox goes, unless the caller keeps it.
CreatePreview(c) ==
    /\ SbAt(c, "row")
    /\ IF sbProvider \in Previewing /\ lease = "active"
       THEN /\ preview' = [status |-> "starting", version |-> 1]
            /\ Track(ProcOf(c), SessionOf(c)) /\ SbGo(c, "launch")
       ELSE /\ SbGo(c, "stop") \/ SbEnd(c)
            /\ UNCHANGED <<preview, tracked>>
    /\ UNCHANGED <<sbProvider, box, due, lease, sess, sbBegun, marks, sbFaults>>

\* Files, preparation commands and the server's process.
Launch(c) ==
    /\ SbAt(c, "launch")
    /\ \/ /\ sess[SessionOf(c)].stop = "no" /\ machine = "running"
          /\ serving' = TRUE /\ SbGo(c, "wait")
       \/ SbGo(c, "fail") /\ UNCHANGED serving
    /\ UNCHANGED <<sbProvider, machine, due, rows, handles, sbBegun, marks, sbFaults>>

\* waitForPort against process.wait: ready, or timed out, aborted or exited.
Await(c) ==
    /\ SbAt(c, "wait")
    /\ \/ sess[SessionOf(c)].stop = "no" /\ serving /\ SbGo(c, "ready")
       \/ SbGo(c, "fail")
    /\ UNCHANGED <<sbProvider, box, due, rows, handles, sbBegun, marks, sbFaults>>

Ready(c) ==
    /\ SbAt(c, "ready") /\ MarkReady(c)
    /\ UNCHANGED <<sbProvider, box, due, lease, handles, sbBegun, marks, sbFaults>>

\* retainSandboxOnFailure leaves the sandbox to the generation that owns it.
FailCall(c) ==
    /\ SbAt(c, "fail")
    /\ FailPreview
    /\ \/ SbGo(c, "stop") /\ UNCHANGED tracked
       \/ SbEnd(c) /\ Track(ProcOf(c), 0)
    /\ UNCHANGED <<sbProvider, box, due, lease, sess, sbBegun, marks, sbFaults>>

----------------------------------------------------------------------------
(* SandboxSession.stop *)

\* The first caller starts the provider's stop; every later one gets the same promise.
StopBegins(c) ==
    /\ SbAt(c, "stop") /\ sess[SessionOf(c)].stop = "no"
    /\ sess' = [sess EXCEPT ![SessionOf(c)].stop = "pending"]
    /\ SbGo(c, "stopping")
    /\ UNCHANGED <<sbProvider, box, due, rows, tracked, sbBegun, marks, sbFaults>>

\* mutant: the provider's error is swallowed
ProviderStopSwallowed(c) ==
    /\ SbAt(c, "stopping")
    /\ \/ Box("gone") /\ UNCHANGED sbFaults
       \/ SbFault /\ UNCHANGED box
    /\ SbGo(c, "stopped")
    /\ UNCHANGED <<sbProvider, due, rows, handles, sbBegun, marks>>

\* The provider removes the sandbox, or answers with an error (an abort, say) and may have.
ProviderStop(c) ==
    /\ SbAt(c, "stopping")
    /\ \/ Box("gone") /\ SbGo(c, "stopped") /\ UNCHANGED <<strayed, sbFaults>>
       \/ /\ SbFault /\ SbGo(c, "unstopped") /\ strayed' = TRUE
          /\ UNCHANGED box \/ Box("gone")
    /\ UNCHANGED <<sbProvider, due, rows, handles, sbBegun, revived>>

DockerStop(c)     == sbProvider = "docker" /\ ProviderStop(c)
E2BStop(c)        == sbProvider = "e2b" /\ ProviderStop(c)
VercelStop(c)     == sbProvider = "vercel" /\ ProviderStop(c)
CloudflareStop(c) == sbProvider = "cloudflare" /\ ProviderStop(c)
DaytonaStop(c)    == sbProvider = "daytona" /\ ProviderStop(c)
ModalStop(c)      == sbProvider = "modal" /\ ProviderStop(c)

\* `finally`: the lease is closed after a failed stop as well, and the promise settles.
StopSettles(c) ==
    /\ sbCall[c].pc \in {"stopped", "unstopped"}
    /\ \/ /\ CloseLease("stopped")
          /\ sess' = [sess EXCEPT ![SessionOf(c)].stop = sbCall[c].pc]
          /\ UNCHANGED sbFaults
       \/ /\ SbFault /\ UNCHANGED lease                      \* the store fails, so stop rejects
          /\ sess' = [sess EXCEPT ![SessionOf(c)].stop = "unstopped"]
    /\ SbGo(c, "stop")
    /\ UNCHANGED <<sbProvider, box, due, preview, tracked, sbBegun, marks>>

\* What each caller does with the settled promise.
StopReturns(c) ==
    LET result == sess[SessionOf(c)].stop
        op     == sbCall[c].op IN
    /\ SbAt(c, "stop") /\ result \in {"stopped", "unstopped"}
    /\ CASE op = "stop" /\ result = "unstopped" -> SbEnd(c) /\ UNCHANGED tracked
         [] op = "end" -> SbEnd(c) /\ UNCHANGED tracked
         [] op = "open" -> SbEnd(c) /\ Track(ProcOf(c), 0)
         [] OTHER -> SbGo(c, "close") /\ Track(ProcOf(c), 0)
    /\ UNCHANGED <<sbProvider, box, due, rows, sess, sbBegun, marks, sbFaults>>

\* closePreviewSession, or failPreviewSession after a reconnect that found no server.
Close(c) ==
    /\ SbAt(c, "close")
    /\ ClosePreview(CASE sbCall[c].op = "stop" -> "stopped"
                      [] sbCall[c].op = "cleanup" -> "expired"
                      [] OTHER -> "failed")
    /\ SbEnd(c)
    /\ UNCHANGED <<sbProvider, box, due, lease, handles, sbBegun, marks, sbFaults>>

----------------------------------------------------------------------------
(* PreviewRegistry.get, retarget, reconnect, stop *)

\* stop coalesces the stops of a process.
Visit(c, p) ==
    /\ preview.status # "none"
    /\ \E op \in {"get", "retarget", "reconnect", "stop"} :
        /\ op = "stop" => \A d \in SbCall : ~(ProcOf(d) = p /\ sbCall[d].op = "stop")
        /\ SbBegin(c, p, op, "get", 0)
    /\ UNCHANGED <<sbProvider, box, due, rows, handles, marks, sbFaults>>

\* get closes an active preview that is past its time: the row only, nothing is stopped.
GetPreview(c) ==
    /\ SbAt(c, "get")
    /\ CASE preview.status \in PreviewLive /\ due -> ClosePreview("expired") /\ SbEnd(c)
         [] preview.status \in PreviewOver \/ sbCall[c].op = "get" -> SbEnd(c) /\ UNCHANGED preview
         [] OTHER -> SbGo(c, IF sbCall[c].op = "retarget" THEN "retarget" ELSE "session") /\ UNCHANGED preview
    /\ UNCHANGED <<sbProvider, box, due, lease, handles, sbBegun, marks, sbFaults>>

Retarget(c) ==
    /\ SbAt(c, "retarget")
    /\ preview' = IF preview.status \in PreviewLive THEN [preview EXCEPT !.version = 2] ELSE preview
    /\ SbEnd(c)
    /\ UNCHANGED <<sbProvider, box, due, lease, handles, sbBegun, marks, sbFaults>>

\* stop takes the tracked session as it is; reconnect takes it unless it was stopped.
FindSession(c) ==
    LET s == tracked[ProcOf(c)] IN
    /\ SbAt(c, "session")
    /\ CASE s # 0 /\ sbCall[c].op = "stop" -> SbWith(c, "stop", s)
         [] s # 0 /\ sess[s].stop = "no" -> SbWith(c, "probe", s)
         [] OTHER -> SbGo(c, "readLease")
    /\ UNCHANGED <<sbProvider, box, due, rows, handles, sbBegun, marks, sbFaults>>

\* Without a session, stop closes a preview past its time and reports any other failure.
SessionMissing(c) ==
    IF sbCall[c].op = "stop" /\ due THEN SbWith(c, "expire", 0) ELSE SbEnd(c)

ReadLease(c) ==
    /\ SbAt(c, "readLease")
    /\ CASE lease # "active" -> SessionMissing(c) /\ UNCHANGED lease
         [] lease = "active" /\ due -> CloseLease("expired") /\ SessionMissing(c)
         [] OTHER -> SbGo(c, "connect") /\ UNCHANGED lease
    /\ UNCHANGED <<sbProvider, box, due, preview, handles, sbBegun, marks, sbFaults>>

ExpirePreview(c) ==
    /\ SbAt(c, "expire") /\ ClosePreview("expired") /\ SbEnd(c)
    /\ UNCHANGED <<sbProvider, box, due, lease, handles, sbBegun, marks, sbFaults>>

\* The adapter's reconnect, and the state of the sandbox once it has answered.
ConnectTo(c, m) ==
    /\ SbAt(c, "connect")
    /\ Box(m) /\ revived' = (revived \/ m # machine) /\ strayed' = (strayed \/ m # machine)
    /\ NewSession(ProcOf(c)) /\ Track(ProcOf(c), Len(sess) + 1)
    /\ SbWith(c, IF sbCall[c].op = "stop" THEN "stop" ELSE "probe", Len(sess) + 1)
    /\ UNCHANGED <<sbProvider, due, rows, sbBegun, sbFaults>>

E2BConnect(c) == sbProvider = "e2b" /\ machine = "running" /\ ConnectTo(c, machine)
\* resume: TRUE starts a sandbox that was stopped
VercelConnect(c) == sbProvider = "vercel" /\ ConnectTo(c, "running")
\* getSandbox only makes a handle: the first operation starts a container for it
CloudflareConnect(c) == sbProvider = "cloudflare" /\ ConnectTo(c, machine)
ConnectFails(c) ==
    /\ SbAt(c, "connect") /\ SessionMissing(c)
    /\ UNCHANGED <<sbProvider, box, due, rows, handles, sbBegun, marks, sbFaults>>

\* waitForPort: a failure stops the sandbox, unless the caller gave up waiting.
Probe(c) ==
    LET up == sess[SessionOf(c)].stop = "no" IN
    /\ SbAt(c, "probe")
    /\ IF up /\ sbProvider = "cloudflare"
       THEN /\ Box("running") /\ revived' = (revived \/ machine = "gone")
            /\ strayed' = (strayed \/ machine = "gone")
       ELSE UNCHANGED <<box, revived, strayed>>
    /\ \/ up /\ serving /\ SbGo(c, "ready")
       \/ SbGo(c, "stop") \/ SbEnd(c)
    /\ UNCHANGED <<sbProvider, due, rows, handles, sbBegun, sbFaults>>

----------------------------------------------------------------------------
(* cleanupExpired, stopAll and commands *)

\* listExpiredPreviewSessions returned the preview; only this process's session is stopped.
Cleanup(c, p) ==
    /\ preview.status \in PreviewLive /\ due
    /\ SbBegin(c, p, "cleanup", IF tracked[p] # 0 THEN "stop" ELSE "close", tracked[p])
    /\ UNCHANGED <<sbProvider, box, due, rows, handles, marks, sbFaults>>

\* SandboxRegistry.stopAll, or the session's owner.
EndSandbox(c, s) ==
    /\ sess[s].stop = "no" /\ SbBegin(c, sess[s].proc, "end", "stop", s)
    /\ UNCHANGED <<sbProvider, box, due, rows, handles, marks, sbFaults>>

\* #assertRunning comes before the policy, which may take its time.
Command(c, s) ==
    /\ sess[s].stop = "no" /\ SbBegin(c, sess[s].proc, "use", "authorize", s)
    /\ UNCHANGED <<sbProvider, box, due, rows, handles, marks, sbFaults>>

Authorize(c) ==
    /\ SbAt(c, "authorize")
    /\ SbGo(c, "execute") \/ SbEnd(c)
    /\ UNCHANGED <<sbProvider, box, due, rows, handles, sbBegun, marks, sbFaults>>

\* A command or file operation, and the state it leaves the sandbox in: an abort ends it where the
\* adapter cannot end the operation alone.
Execute(c, after) ==
    /\ SbAt(c, "execute")
    /\ \E m \in after :
        /\ Box(m) /\ revived' = (revived \/ (m = "running" /\ machine = "gone"))
        /\ strayed' = (strayed \/ (m = "running" /\ machine = "gone"))
    /\ SbEnd(c)
    /\ UNCHANGED <<sbProvider, due, rows, handles, sbBegun, sbFaults>>

DockerExecute(c)     == sbProvider = "docker" /\ Execute(c, {machine})
E2BExecute(c)        == sbProvider = "e2b" /\ Execute(c, {machine})
VercelExecute(c)     == sbProvider = "vercel" /\ Execute(c, {machine})
CloudflareExecute(c) == sbProvider = "cloudflare" /\ Execute(c, {"running", "gone"})
DaytonaExecute(c)    == sbProvider = "daytona" /\ Execute(c, {machine})
ModalExecute(c)      == sbProvider = "modal" /\ Execute(c, {machine, "gone"})

----------------------------------------------------------------------------
(* The environment *)

Deadline ==
    /\ ~due /\ lease # "none" /\ due' = TRUE
    /\ UNCHANGED <<sbProvider, box, rows, handles, sbCall, sbBegun, marks, sbFaults>>

ProviderExpires ==
    /\ due /\ machine = "running" /\ Box("gone")
    /\ UNCHANGED <<sbProvider, due, rows, handles, sbCall, sbBegun, marks, sbFaults>>

CrashProc(p) ==
    /\ SbFault /\ strayed' = TRUE
    /\ sbCall' = [c \in SbCall |-> IF ProcOf(c) = p THEN IdleSb ELSE sbCall[c]]
    /\ Track(p, 0) /\ sess' = [s \in DOMAIN sess |-> IF sess[s].proc = p THEN [sess[s] EXCEPT !.stop = "lost"] ELSE sess[s]]
    /\ UNCHANGED <<sbProvider, box, due, rows, sbBegun, revived>>

----------------------------------------------------------------------------
SbStores ==
    /\ machine = "absent" /\ serving = FALSE /\ due = FALSE /\ lease = "none"
    /\ preview = [status |-> "none", version |-> 1]
    /\ sess = <<>> /\ tracked = [p \in SbProc |-> 0]
    /\ sbCall = [c \in SbCall |-> IdleSb]
    /\ revived = FALSE /\ strayed = FALSE

SbInit == SbStores /\ sbProvider \in SandboxKind /\ sbBegun = 0 /\ sbFaults = 0
SbIdle == SbStores /\ sbProvider = "docker" /\ sbBegun = MaxSbCalls /\ sbFaults = MaxSbFaults

SbNext ==
    \/ Deadline \/ ProviderExpires
    \/ \E p \in SbProc : CrashProc(p) \/ \E c \in SbCall : OpenPreview(c, p) \/ Visit(c, p) \/ Cleanup(c, p)
    \/ \E c \in SbCall, s \in DOMAIN sess : EndSandbox(c, s) \/ Command(c, s)
    \/ \E c \in SbCall :
        \/ DockerCreate(c) \/ E2BCreate(c) \/ VercelCreate(c) \/ CloudflareCreate(c)
        \/ DaytonaCreate(c) \/ ModalCreate(c)
        \/ CreateLease(c) \/ Materialize(c) \/ CreatePreview(c) \/ Launch(c) \/ Await(c)
        \/ Ready(c) \/ FailCall(c)
        \/ StopBegins(c) \/ DockerStop(c) \/ E2BStop(c) \/ VercelStop(c) \/ CloudflareStop(c)
        \/ DaytonaStop(c) \/ ModalStop(c) \/ StopSettles(c) \/ StopReturns(c) \/ Close(c)
        \/ GetPreview(c) \/ Retarget(c) \/ FindSession(c) \/ ReadLease(c) \/ ExpirePreview(c)
        \/ E2BConnect(c) \/ VercelConnect(c) \/ CloudflareConnect(c) \/ ConnectFails(c) \/ Probe(c)
        \/ Authorize(c) \/ DockerExecute(c) \/ E2BExecute(c) \/ VercelExecute(c)
        \/ CloudflareExecute(c) \/ DaytonaExecute(c) \/ ModalExecute(c)

SbSpec == SbInit /\ [][SbNext]_sbVars

----------------------------------------------------------------------------
(* Properties *)

\* A sandbox that runs is one the rows account for (preview.ts open and #stop, sandbox.ts open):
\* while its preview is recorded "stopped" it does not run, and once no call is in progress it
\* has a lease that was not stopped, so a later call or its deadline finds it.  A reconnect that
\* raced with the stop can start it again (Vercel, Cloudflare), and a crash or a provider that
\* refused to stop can leave it.
RunningIsAccountedFor ==
    machine = "running" =>
        /\ preview.status = "stopped" => revived
        /\ (\A c \in SbCall : SbAt(c, "idle")) => lease \in {"active", "expired"} \/ strayed

\* A preview that is over stays as it ended, whatever open, reconnect, retarget, stop and cleanup
\* calls of any process were still on their way (markPreviewReady, failPreviewSession,
\* closePreviewSession and retargetPreviewSession).
OverPreviewsStayOver ==
    [][preview.status \in PreviewOver => preview' = preview]_sbVars
=============================================================================
