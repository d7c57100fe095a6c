----------------------------- MODULE Deployments -----------------------------
(***************************************************************************)
(* Version.deploy and the connected deployment operations: the durable     *)
(* record (client.ts, postgres-repository.ts), the prepared artifact       *)
(* (deployment-preparation.ts), the neutral workflow                       *)
(* (deployment-integrations.ts) and the Vercel, Cloudflare Pages and       *)
(* Netlify adapters.  Each request to the provider and each transaction is *)
(* a step, so calls with one key overlap, processes die between an effect  *)
(* and its record, and status lookups overtake each other.                 *)
(*                                                                         *)
(* External: the provider's deployments, which build by themselves, the    *)
(* sandbox that builds a version (every build differs), the byte store.    *)
(***************************************************************************)
EXTENDS Integers, Sequences

CONSTANTS
    DeployCall,       \* host calls
    DeployKey,        \* idempotency keys
    MaxDeploys,       \* bound: deployments at the provider
    MaxBuilds,        \* bound: sandbox builds
    MaxDeployFaults   \* bound: crashes and failed requests

Host       == {"vercel", "cloudflare", "netlify"}
Finished   == {"ready", "failed", "cancelled"}
Source     == 0                  \* the version's own files; builds count from 1
Prebuilt(h) == h # "vercel"

VARIABLES
    host,           \* which adapter the handle uses
    project,        \* the project exists at the provider
    deploys,        \* the provider's deployments: [key, files, missing, status]
    builds,         \* sandbox builds made so far
    stored,         \* builds whose archive is in the artifact store
    deployRow,      \* viby.deployments, by idempotency key
    artifact,       \* viby.deployment_artifacts, by key: the build, 0 for none
    deployCall,     \* host calls
    deployFaults

atProvider == <<host, project, deploys>>
history    == <<deployRow, artifact>>
deployVars == <<atProvider, builds, stored, history, deployCall, deployFaults>>

NoRecord   == [status |-> "absent", dep |-> 0]
IdleDeploy == [pc |-> "idle"]
DoneDeploy == [pc |-> "done"]

DAt(c, pc)   == deployCall[c].pc = pc
DKey(c)      == deployCall[c].key
DSet(c, r)   == deployCall' = [deployCall EXCEPT ![c] = r]
DGo(c, pc)   == DSet(c, [deployCall[c] EXCEPT !.pc = pc])
WithKey(k)   == {d \in 1..Len(deploys) : deploys[d].key = k}

----------------------------------------------------------------------------
(* The provider *)

\* A deployment whose files are all there is built, and stays what it then is.
ProviderBuilds(d) ==
    /\ deploys[d].status = "building" /\ ~deploys[d].missing
    /\ \E s \in {"ready", "failed"} : deploys' = [deploys EXCEPT ![d].status = s]
    /\ UNCHANGED <<host, project, builds, stored, history, deployCall, deployFaults>>

NewDeployment(c, missing) ==
    /\ Len(deploys) < MaxDeploys
    /\ deploys' = Append(deploys, [key |-> DKey(c), files |-> deployCall[c].files,
                                   missing |-> missing, status |-> "building"])

\* What the call will record: a deployment and the status it had in the answer.
Answer(c, d, status, pc) ==
    DSet(c, [deployCall[c] EXCEPT !.dep = d, !.status = status, !.pc = pc])

----------------------------------------------------------------------------
(* The durable record *)

\* beginDeployment inserts a pending row unless the key has one.
BeginRecord(k) ==
    deployRow' = IF deployRow[k] = NoRecord
                 THEN [deployRow EXCEPT ![k].status = "pending"] ELSE deployRow

\* storedDeploymentResult: a row that is neither pending nor failed answers the call.
ReplaysRecord(k) == deployRow[k].status \notin {"absent", "pending", "failed"}

\* completeDeployment writes what the provider said, over whatever the row says.
CompleteRecord(k, d, status) ==
    deployRow' = [deployRow EXCEPT ![k] = [status |-> status, dep |-> d]]

\* failDeployment marks a pending row only.
FailRecord(k) ==
    deployRow' = IF deployRow[k].status = "pending"
                 THEN [deployRow EXCEPT ![k].status = "failed"] ELSE deployRow

\* observeDeployment finds the row by the provider's id, if one has it.
ObserveRecord(d, status) ==
    deployRow' = [k \in DeployKey |->
        IF deployRow[k].dep = d THEN [deployRow[k] EXCEPT !.status = status] ELSE deployRow[k]]

----------------------------------------------------------------------------
(* Version.deploy *)

BeginDeploy(c, k) ==
    /\ DAt(c, "idle")
    /\ BeginRecord(k)
    /\ DSet(c, IF ReplaysRecord(k) THEN DoneDeploy
               ELSE [pc |-> IF Prebuilt(host) THEN "prepare" ELSE "project",
                     key |-> k, known |-> artifact[k], since |-> Len(deploys),
                     files |-> Source, dep |-> 0, status |-> "pending"])
    /\ UNCHANGED <<atProvider, builds, stored, artifact, deployFaults>>

\* The archive the row named when the call began, or a build in a fresh sandbox
\* (install, build, list the output, read it), which may fail.
Prepare(c) ==
    /\ DAt(c, "prepare")
    /\ IF deployCall[c].known # 0
       THEN /\ IF deployCall[c].known \in stored
               THEN DSet(c, [deployCall[c] EXCEPT !.files = deployCall[c].known, !.pc = "project"])
               ELSE DGo(c, "fail")
            /\ UNCHANGED builds
       ELSE /\ builds < MaxBuilds
            /\ builds' = builds + 1
            /\ \/ DSet(c, [deployCall[c] EXCEPT !.files = builds + 1, !.pc = "archive"])
               \/ DGo(c, "fail")
    /\ UNCHANGED <<atProvider, stored, history, deployFaults>>

\* createDeploymentArtifact: nothing to do when the row has one, else the bytes are stored first.
Archive(c) ==
    /\ DAt(c, "archive")
    /\ IF artifact[DKey(c)] # 0
       THEN DGo(c, "project") /\ UNCHANGED stored
       ELSE DGo(c, "link") /\ stored' = stored \cup {deployCall[c].files}
    /\ UNCHANGED <<atProvider, builds, history, deployFaults>>

\* The row that names them follows; bytes that lost are removed, or stay if that fails, and the
\* call goes on with the files it built itself.  A failed transaction removes them too.
Link(c) ==
    LET mine == deployCall[c].files
        won  == artifact[DKey(c)] = 0
        afterRemoval == {stored \ {mine}, stored} IN
    /\ DAt(c, "link")
    /\ \/ /\ artifact' = IF won THEN [artifact EXCEPT ![DKey(c)] = mine] ELSE artifact
          /\ stored' \in IF won THEN {stored} ELSE afterRemoval
          /\ DGo(c, "project")
          /\ UNCHANGED deployFaults
       \/ /\ deployFaults < MaxDeployFaults /\ deployFaults' = deployFaults + 1
          /\ stored' \in afterRemoval
          /\ DGo(c, "fail")
          /\ UNCHANGED artifact
    /\ UNCHANGED <<atProvider, builds, deployRow>>

\* resolveProject: look the target up; a missing one is created if the host said so.
ResolveProject(c) ==
    /\ DAt(c, "project")
    /\ IF project THEN DGo(c, "find") ELSE DGo(c, "create") \/ DGo(c, "fail")
    /\ UNCHANGED <<atProvider, builds, stored, history, deployFaults>>

\* A name that was taken in between is refused.
CreateProject(c) ==
    /\ DAt(c, "create")
    /\ project' = TRUE
    /\ DGo(c, IF project THEN "fail" ELSE "find")
    /\ UNCHANGED <<host, deploys, builds, stored, history, deployFaults>>

VercelCreateProject(c)     == host = "vercel" /\ CreateProject(c)
CloudflareCreateProject(c) == host = "cloudflare" /\ CreateProject(c)
NetlifyCreateProject(c)    == host = "netlify" /\ CreateProject(c)

\* mutant: the provider is not asked
FindNothing(c) ==
    /\ DAt(c, "find")
    /\ DGo(c, "upload")
    /\ UNCHANGED <<atProvider, builds, stored, history, deployFaults>>

\* The adapters mark a deployment with the key (metadata, commit hash, title) and look for the
\* mark before they create one.  A deployment that is found is the answer, in whatever state.
Find(c) ==
    /\ DAt(c, "find")
    /\ IF WithKey(DKey(c)) = {} THEN DGo(c, "upload")
       ELSE \E d \in WithKey(DKey(c)) : Answer(c, d, deploys[d].status, "deployed")
    /\ UNCHANGED <<atProvider, builds, stored, history, deployFaults>>

VercelFind(c)     == host = "vercel" /\ Find(c)
CloudflareFind(c) == host = "cloudflare" /\ Find(c)
NetlifyFind(c)    == host = "netlify" /\ Find(c)

\* Files an adapter cannot take (none, too many, too large, twice the same path) are refused
\* before any effect: by Vercel and Cloudflare before the lookup, by Netlify after it.
Rejects(c, pc) ==
    /\ DAt(c, pc) /\ DGo(c, "fail")
    /\ UNCHANGED <<atProvider, builds, stored, history, deployFaults>>
VercelRejects(c)     == host = "vercel" /\ Rejects(c, "find")
CloudflareRejects(c) == host = "cloudflare" /\ Rejects(c, "find")
NetlifyRejects(c)    == host = "netlify" /\ Rejects(c, "upload")

\* Vercel and Cloudflare take the files first, by content, and then a deployment that names them.
VercelDeploy(c) ==
    /\ host = "vercel" /\ DAt(c, "upload")
    /\ NewDeployment(c, FALSE)
    /\ Answer(c, Len(deploys) + 1, "building", "deployed")
    /\ UNCHANGED <<host, project, builds, stored, history, deployFaults>>

CloudflareDeploy(c) ==
    /\ host = "cloudflare" /\ DAt(c, "upload")
    /\ NewDeployment(c, FALSE)
    /\ Answer(c, Len(deploys) + 1, "building", "deployed")
    /\ UNCHANGED <<host, project, builds, stored, history, deployFaults>>

\* Netlify makes the deployment from digests, tells which files it lacks, and gets them.
NetlifyDeploy(c) ==
    /\ host = "netlify" /\ DAt(c, "upload")
    /\ NewDeployment(c, TRUE)
    /\ Answer(c, Len(deploys) + 1, "building", "diff")
    /\ UNCHANGED <<host, project, builds, stored, history, deployFaults>>

\* Polled until the comparison is over, rejected, or too slow.
WaitForDiff(c) ==
    /\ host = "netlify" /\ DAt(c, "diff")
    /\ DGo(c, "send") \/ DGo(c, "fail")
    /\ UNCHANGED <<atProvider, builds, stored, history, deployFaults>>

UploadMissing(c) ==
    /\ host = "netlify" /\ DAt(c, "send")
    /\ deploys' = [deploys EXCEPT ![deployCall[c].dep].missing = FALSE]
    /\ DGo(c, "deployed")
    /\ UNCHANGED <<host, project, builds, stored, history, deployFaults>>

\* The project is read once more for its link, and the record is completed.
CompleteDeploy(c) ==
    /\ DAt(c, "deployed")
    /\ CompleteRecord(DKey(c), deployCall[c].dep, deployCall[c].status)
    /\ DSet(c, DoneDeploy)
    /\ UNCHANGED <<atProvider, builds, stored, artifact, deployFaults>>

FailDeploy(c) ==
    /\ DAt(c, "fail")
    /\ FailRecord(DKey(c))
    /\ DSet(c, DoneDeploy)
    /\ UNCHANGED <<atProvider, builds, stored, artifact, deployFaults>>

\* A request fails and the call records it, or the process dies and records nothing.
InterruptDeploy(c) ==
    /\ deployCall[c].pc \notin {"idle", "done", "fail"} /\ deployFaults < MaxDeployFaults
    /\ deployFaults' = deployFaults + 1
    /\ \/ DSet(c, DoneDeploy)
       \/ deployCall[c].pc \notin {"link", "observed", "cancel"} /\ DGo(c, "fail")
    /\ UNCHANGED <<atProvider, builds, stored, history>>

----------------------------------------------------------------------------
(* deployments.get and deployments.cancel *)

Look(c, d) ==
    /\ DAt(c, "idle")
    /\ \E pc \in IF deploys[d].status = "cancelled" THEN {"observed"} ELSE {"observed", "cancel"} :
        /\ pc = "cancel" => host # "cloudflare"      \* Pages has no cancellation
        /\ DSet(c, [pc |-> pc, dep |-> d, status |-> deploys[d].status])
    /\ UNCHANGED <<atProvider, builds, stored, history, deployFaults>>

\* mutant: a refusal is taken for a cancellation
CancelAnyway(c) ==
    /\ DAt(c, "cancel")
    /\ DSet(c, [deployCall[c] EXCEPT !.status = "cancelled", !.pc = "observed"])
    /\ UNCHANGED <<atProvider, builds, stored, history, deployFaults>>

\* The provider refuses for a deployment that is over; the answer is recorded as cancelled.
CancelDeploy(c) ==
    LET d == deployCall[c].dep IN
    /\ DAt(c, "cancel")
    /\ IF deploys[d].status = "building"
       THEN /\ deploys' = [deploys EXCEPT ![d].status = "cancelled"]
            /\ DSet(c, [deployCall[c] EXCEPT !.status = "cancelled", !.pc = "observed"])
       ELSE DSet(c, DoneDeploy) /\ UNCHANGED deploys
    /\ UNCHANGED <<host, project, builds, stored, history, deployFaults>>

VercelCancel(c)  == host = "vercel" /\ CancelDeploy(c)
NetlifyCancel(c) == host = "netlify" /\ CancelDeploy(c)

Observe(c) ==
    /\ DAt(c, "observed")
    /\ ObserveRecord(deployCall[c].dep, deployCall[c].status)
    /\ DSet(c, DoneDeploy)
    /\ UNCHANGED <<atProvider, builds, stored, artifact, deployFaults>>

----------------------------------------------------------------------------
DeployIdle ==
    /\ host = "vercel" /\ project = FALSE /\ deploys = <<>>
    /\ builds = 0 /\ stored = {}
    /\ deployRow = [k \in DeployKey |-> NoRecord] /\ artifact = [k \in DeployKey |-> 0]
    /\ deployCall = [c \in DeployCall |-> DoneDeploy] /\ deployFaults = 0

DeployInit ==
    /\ host \in Host /\ project \in BOOLEAN /\ deploys = <<>>
    /\ builds = 0 /\ stored = {}
    /\ deployRow = [k \in DeployKey |-> NoRecord] /\ artifact = [k \in DeployKey |-> 0]
    /\ deployCall = [c \in DeployCall |-> IdleDeploy] /\ deployFaults = 0

DeployNext ==
    \/ \E d \in 1..Len(deploys) : ProviderBuilds(d)
    \/ \E c \in DeployCall :
        \/ \E k \in DeployKey : BeginDeploy(c, k)
        \/ Prepare(c) \/ Archive(c) \/ Link(c) \/ ResolveProject(c)
        \/ VercelCreateProject(c) \/ CloudflareCreateProject(c) \/ NetlifyCreateProject(c)
        \/ VercelFind(c) \/ CloudflareFind(c) \/ NetlifyFind(c)
        \/ VercelRejects(c) \/ CloudflareRejects(c) \/ NetlifyRejects(c)
        \/ VercelDeploy(c) \/ CloudflareDeploy(c)
        \/ NetlifyDeploy(c) \/ WaitForDiff(c) \/ UploadMissing(c)
        \/ CompleteDeploy(c) \/ FailDeploy(c) \/ InterruptDeploy(c)
        \/ \E d \in 1..Len(deploys) : Look(c, d)
        \/ VercelCancel(c) \/ NetlifyCancel(c) \/ Observe(c)

DeploySpec == DeployInit /\ [][DeployNext]_deployVars

----------------------------------------------------------------------------
(* Properties *)

\* A retry repeats no effect (README.md: a safe retry reuses the persisted provider result or
\* preparation artifact): a call creates no deployment for a key that had one when the call
\* began, whoever died in between, and files it sends are those of the archive that was
\* recorded when it began.  Calls that overlap from the start may both deploy.
RetriesRepeatNothing ==
    [][\A c \in DeployCall : Len(deploys') > Len(deploys) /\ deployCall[c] # deployCall'[c] =>
         /\ \A d \in 1..deployCall[c].since : deploys[d].key # DKey(c)
         /\ deployCall[c].known # 0 => deploys'[Len(deploys')].files = deployCall[c].known
      ]_deployVars

\* A record that says a deployment is over says so truly, although answers are recorded late and
\* out of order: it names a deployment of its own key, and that one ended in that way.  The bytes
\* of the archive a row names are never removed, not by the call that lost the race for the row.
RecordsAreTrue ==
    \A k \in DeployKey :
        /\ deployRow[k].dep # 0 =>
            /\ deploys[deployRow[k].dep].key = k
            /\ deployRow[k].status \in Finished => deploys[deployRow[k].dep].status = deployRow[k].status
        /\ artifact[k] # 0 => artifact[k] \in stored

\* A recorded deployment can be built (docs/integrations/netlify.md: "provider lookup covers a
\* process failure after Netlify accepted the request but before Viby recorded the result").
\* Netlify lacks the files when the process died before it sent them: the next call finds the
\* deployment, sends nothing and records it.
RecordedDeploymentsCanFinish ==
    \A k \in DeployKey : deployRow[k].dep # 0 =>
        \/ ~deploys[deployRow[k].dep].missing
        \/ \E c \in DeployCall : deployCall[c].pc \in {"diff", "send"} /\ deployCall[c].dep = deployRow[k].dep

\* The archive of a record is what was deployed (docs/api/versions.md: "the immutable prebuilt
\* ZIP used for that deployment").  Of two calls that prepare at once, one deploys its own build
\* under the other's archive.
ArchiveIsWhatWasDeployed ==
    \A k \in DeployKey : artifact[k] # 0 /\ deployRow[k].dep # 0
        => deploys[deployRow[k].dep].files = artifact[k]
=============================================================================
