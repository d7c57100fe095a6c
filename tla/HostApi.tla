------------------------------ MODULE HostApi ------------------------------
(***************************************************************************)
(* A request to the product API: createVibyApi (api-host.ts) with the      *)
(* host's gates and middleware, the routes, and their callers: the web     *)
(* client, other HTTP clients and the MCP tools.  An operation is named    *)
(* by its id in api-schema.ts, and a route by the steps its handler takes, *)
(* each an await at which the handler may fail and others may act.         *)
(*                                                                         *)
(*   chat, version, generation   loads one; it may be gone                 *)
(*   found                       loads a webhook, preview or tool source   *)
(*   query, body, fields         checks what the request carries           *)
(*   read                        reads more                                *)
(*   do, delete, restore         changes state through the SDK             *)
(*   more, reuse, configured     where the handler may be done             *)
(***************************************************************************)
EXTENDS Integers, Sequences

CONSTANTS
    MiddlewareCount   \* entries of options.middleware

ASSUME ApiAssumption == MiddlewareCount \in Nat

VARIABLES
    request,    \* who asks and how far it came: [via, prog, matched, pc]
    started,    \* lastStarted of runApiMiddleware
    outcome,    \* what each dispatch resolved to, the operation's being the last
    work,       \* the handler: [at, changes, runs]
    chatLive,   \* the chat the request is about exists and is not deleted
    told        \* what the caller got to know

apiVars == <<request, started, outcome, work, chatLive, told>>

----------------------------------------------------------------------------
(* The routes: what the handler of each operation does *)

For(operations, prog) == {<<o, prog>> : o \in operations}

WebhookRoutes ==
    For({"listWebhooks", "getWebhook"}, <<"read">>) \cup
    For({"createWebhook", "updateWebhook", "deliverWebhookEvents"}, <<"body", "do">>) \cup
    For({"deleteWebhook", "pauseWebhook", "resumeWebhook", "rotateWebhookSecret",
         "redriveWebhookDelivery"}, <<"do">>) \cup
    For({"listWebhookDeliveries"}, <<"query", "read">>)

ToolSourceRoutes ==
    For({"listToolSources"}, <<"query", "read">>) \cup
    For({"createToolSource"}, <<"body", "do">>) \cup
    For({"getToolSource"}, <<"found">>) \cup
    For({"getToolSourceConnection"}, <<"found", "read">>) \cup
    For({"updateToolSource", "connectToolSource"}, <<"found", "body", "do">>) \cup
    For({"archiveToolSource", "disconnectToolSource"}, <<"found", "do">>)

\* A repository is read first when the import names one; the chat and its version are one
\* change, the version is read back.
ImportSteps == <<"body", "read", "do", "read">>

\* A chat is created before the prompt that may come with it is looked at.
ChatsRoutes ==
    For({"listChats"}, <<"query", "read">>) \cup
    For({"createChat"}, <<"body", "do", "more", "fields", "do">>) \cup
    For({"importChat"}, ImportSteps)

ChatRoutes ==
    For({"getChat"}, <<"query", "read">>) \cup
    For({"updateChat"}, <<"chat", "body", "do">>) \cup
    For({"deleteChat"}, <<"chat", "body", "delete">>) \cup
    For({"restoreChat"}, <<"restore">>) \cup
    For({"listEnvironmentVariables"}, <<"chat", "query", "read">>) \cup
    For({"deleteEnvironmentVariable"}, <<"chat", "do">>) \cup
    For({"setEnvironmentVariable", "setChatToolSources"}, <<"chat", "body", "do">>) \cup
    For({"getAttachment", "getChatToolSources", "listChatRepositoryLinks",
         "listChatRepositoryPushes", "listChatDeploymentProjects",
         "listChatDeployments"}, <<"chat", "read">>)

MessageRoutes ==
    For({"listMessages"}, <<"chat", "query", "read">>) \cup
    For({"listQueuedGenerations"}, <<"chat", "read", "read">>) \cup
    For({"getMessage", "listMessageFeedback"}, <<"chat", "read">>) \cup
    For({"startGeneration", "submitMessageFeedback", "enqueueGeneration",
         "startChatInspection"}, <<"chat", "body", "do">>)

\* The body names the connection, the repository, the branch and the commit.
PushSteps == <<"chat", "version", "body", "do">>

DeploySteps == <<"chat", "version", "body", "do">>

\* Without previews the host answers 501; a ready preview of the version is used again.
PreviewSteps == <<"chat", "version", "configured", "reuse", "do">>

VersionRoutes ==
    For({"listVersions"}, <<"chat", "query", "read">>) \cup
    For({"getVersion", "getProjectArtifact", "listVisualArtifacts", "getVisualArtifact",
         "listVersionChanges", "listVersionPushes", "listVersionDeployments",
         "getDeploymentArtifact", "downloadVersion"}, <<"chat", "version", "read">>) \cup
    For({"applyVersionChanges", "restoreVersion"}, <<"chat", "version", "body", "do", "read">>) \cup
    For({"forkVersion"}, <<"chat", "version", "body", "do", "read", "read">>) \cup
    For({"pushVersion"}, PushSteps) \cup
    For({"deployVersion"}, DeploySteps) \cup
    For({"startIteration", "startVersionInspection"}, <<"chat", "version", "body", "do">>) \cup
    For({"startVersionPreview"}, PreviewSteps)

PreviewRoutes ==
    For({"listPreviews"}, <<"query", "read">>) \cup
    For({"cleanupPreviews"}, <<"body", "do">>) \cup
    For({"getPreview"}, <<"found">>) \cup
    For({"stopPreview", "stopPreviewAlias", "reconnectPreview"}, <<"found", "do">>)

GenerationRoutes ==
    For({"getGeneration"}, <<"read">>) \cup
    For({"listProviderRequestAttribution", "getGeneratedArtifact",
         "listGenerationSteering"}, <<"generation", "read">>) \cup
    For({"streamGenerationEvents"}, <<"generation", "query">>) \cup
    For({"pageGenerationEvents"}, <<"generation", "query", "read">>) \cup
    For({"steerGeneration", "cancelGeneration"}, <<"generation", "body", "do">>) \cup
    For({"retryGeneration", "resumeGeneration"}, <<"generation", "do", "read">>) \cup
    For({"resolveGenerationTask"}, <<"generation", "body", "do", "read">>)

\* Aliases that take the chat from the body or the query.
CompactRoutes ==
    For({"iterateVersionAlias", "inspectVersionAlias"}, <<"body", "chat", "version", "fields", "do">>) \cup
    For({"downloadVersionAlias"}, <<"query", "chat", "version", "read">>) \cup
    For({"previewVersionAlias"}, <<"body", "chat", "version", "configured", "reuse", "do">>)

IntegrationRoutes ==
    For({"listIntegrations"}, <<"read">>) \cup
    For({"listIntegrationCategory", "listIntegrationConnections", "listRepositoryOwners",
         "listRepositories", "listRepositoryBranches", "listDeploymentProjects",
         "getProviderDeployment"}, <<"query", "read">>) \cup
    For({"connectIntegration", "createRepository", "createRepositoryBranch",
         "createPullRequest", "mergePullRequest", "createDeploymentProject",
         "cancelProviderDeployment"}, <<"query", "body", "do">>) \cup
    For({"disconnectIntegration"}, <<"query", "do">>)

Routes ==
    For({"queryFeedbackAnalytics"}, <<"query", "read">>) \cup WebhookRoutes \cup ToolSourceRoutes \cup
    ChatsRoutes \cup ChatRoutes \cup MessageRoutes \cup VersionRoutes \cup PreviewRoutes \cup
    GenerationRoutes \cup CompactRoutes \cup IntegrationRoutes

----------------------------------------------------------------------------
(* The operations of api-schema.ts that a request is matched with, and the  *)
(* callers                                                                   *)

Operations == {
    "listChats", "createChat", "importChat", "getChat", "updateChat", "deleteChat",
    "restoreChat", "getAttachment", "listEnvironmentVariables", "setEnvironmentVariable",
    "deleteEnvironmentVariable", "getChatToolSources", "setChatToolSources",
    "listChatRepositoryLinks", "listChatRepositoryPushes", "listChatDeploymentProjects",
    "listChatDeployments", "listMessages", "startGeneration", "listQueuedGenerations",
    "enqueueGeneration", "getMessage", "listMessageFeedback", "submitMessageFeedback",
    "queryFeedbackAnalytics", "listWebhooks", "createWebhook", "getWebhook", "updateWebhook",
    "deleteWebhook", "pauseWebhook", "resumeWebhook", "rotateWebhookSecret",
    "deliverWebhookEvents", "listWebhookDeliveries", "redriveWebhookDelivery",
    "startChatInspection", "listVersions", "getVersion", "getProjectArtifact",
    "listVisualArtifacts", "getVisualArtifact", "listVersionChanges", "applyVersionChanges",
    "restoreVersion", "forkVersion", "listVersionPushes", "pushVersion",
    "listVersionDeployments", "deployVersion", "getDeploymentArtifact", "startIteration",
    "startVersionInspection", "downloadVersion", "startVersionPreview", "listPreviews",
    "cleanupPreviews", "getPreview", "stopPreview", "stopPreviewAlias", "reconnectPreview",
    "getGeneration", "listProviderRequestAttribution", "getGeneratedArtifact",
    "streamGenerationEvents", "pageGenerationEvents", "listGenerationSteering",
    "steerGeneration", "cancelGeneration", "retryGeneration", "resumeGeneration",
    "resolveGenerationTask", "listToolSources", "createToolSource", "getToolSource",
    "updateToolSource", "archiveToolSource", "getToolSourceConnection", "connectToolSource",
    "disconnectToolSource", "listIntegrations", "listIntegrationCategory",
    "listIntegrationConnections", "connectIntegration", "disconnectIntegration",
    "listRepositoryOwners", "listRepositories", "createRepository", "listRepositoryBranches",
    "createRepositoryBranch", "createPullRequest", "mergePullRequest",
    "listDeploymentProjects", "createDeploymentProject", "getProviderDeployment",
    "cancelProviderDeployment", "iterateVersionAlias", "inspectVersionAlias",
    "downloadVersionAlias", "previewVersionAlias"}

\* What the methods of the web client ask for.
WebChats == [
    list |-> "listChats", create |-> "createChat", import |-> "importChat", get |-> "getChat",
    update |-> "updateChat", delete |-> "deleteChat", restore |-> "restoreChat",
    repositoryLinks |-> "listChatRepositoryLinks",
    repositoryPushes |-> "listChatRepositoryPushes",
    deploymentProjects |-> "listChatDeploymentProjects", deployments |-> "listChatDeployments",
    inspect |-> "startChatInspection", queueList |-> "listQueuedGenerations",
    queueCreate |-> "enqueueGeneration", environmentList |-> "listEnvironmentVariables",
    environmentSet |-> "setEnvironmentVariable",
    environmentDelete |-> "deleteEnvironmentVariable"]

WebMessages == [
    list |-> "listMessages", get |-> "getMessage", create |-> "startGeneration",
    submitFeedback |-> "submitMessageFeedback", listFeedback |-> "listMessageFeedback"]

WebVersions == [
    list |-> "listVersions", get |-> "getVersion", changes |-> "listVersionChanges",
    apply |-> "applyVersionChanges", restore |-> "restoreVersion", fork |-> "forkVersion",
    repositoryPushes |-> "listVersionPushes", push |-> "pushVersion",
    deployments |-> "listVersionDeployments", deploy |-> "deployVersion",
    iterate |-> "startIteration", inspect |-> "startVersionInspection",
    download |-> "downloadVersion", preview |-> "startVersionPreview",
    previewStream |-> "startVersionPreview", toolSources |-> "getChatToolSources",
    setToolSources |-> "setChatToolSources"]

WebGenerations == [
    get |-> "getGeneration", events |-> "pageGenerationEvents",
    providerRequests |-> "listProviderRequestAttribution",
    stream |-> "streamGenerationEvents", cancel |-> "cancelGeneration",
    retry |-> "retryGeneration", resume |-> "resumeGeneration",
    steering |-> "listGenerationSteering", steer |-> "steerGeneration",
    resolveTask |-> "resolveGenerationTask"]

WebPreviews == [
    list |-> "listPreviews", get |-> "getPreview", stop |-> "stopPreview",
    reconnect |-> "reconnectPreview", cleanup |-> "cleanupPreviews"]

WebIntegrations == [
    list |-> "listIntegrationCategory", connections |-> "listIntegrationConnections",
    connect |-> "connectIntegration", disconnect |-> "disconnectIntegration",
    owners |-> "listRepositoryOwners", repositories |-> "listRepositories",
    createRepository |-> "createRepository", branches |-> "listRepositoryBranches",
    createBranch |-> "createRepositoryBranch", projects |-> "listDeploymentProjects",
    createProject |-> "createDeploymentProject", getDeployment |-> "getProviderDeployment",
    cancelDeployment |-> "cancelProviderDeployment", analytics |-> "queryFeedbackAnalytics"]

WebWebhooks == [
    list |-> "listWebhooks", create |-> "createWebhook", get |-> "getWebhook",
    update |-> "updateWebhook", delete |-> "deleteWebhook", pause |-> "pauseWebhook",
    resume |-> "resumeWebhook", rotateSecret |-> "rotateWebhookSecret",
    deliver |-> "deliverWebhookEvents", deliveries |-> "listWebhookDeliveries",
    redrive |-> "redriveWebhookDelivery"]

WebToolSources == [
    list |-> "listToolSources", create |-> "createToolSource", get |-> "getToolSource",
    update |-> "updateToolSource", archive |-> "archiveToolSource",
    connection |-> "getToolSourceConnection", connect |-> "connectToolSource",
    disconnect |-> "disconnectToolSource"]

WebCalls ==
    UNION {{f[m] : m \in DOMAIN f} : f \in {WebChats, WebMessages, WebVersions, WebGenerations,
           WebPreviews, WebIntegrations, WebWebhooks, WebToolSources}}

\* The MCP tools call the SDK of their scope themselves; their input is checked by its schema.
McpTools ==
    For({"chat_list"}, <<"fields", "read">>) \cup
    For({"chat_create"}, <<"fields", "do">>) \cup
    For({"chat_get"}, <<"fields", "chat", "read">>) \cup
    For({"generation_start"}, <<"fields", "chat", "do", "read">>) \cup
    For({"generation_get", "generation_events"}, <<"fields", "generation", "read">>) \cup
    For({"generation_cancel", "generation_steer"}, <<"fields", "generation", "do">>) \cup
    For({"generation_task_resolve"}, <<"fields", "generation", "do", "read">>)

McpVersionTools ==
    For({"version_list"}, <<"fields", "chat", "read">>) \cup
    For({"version_files", "version_download"}, <<"fields", "chat", "version", "read">>) \cup
    For({"version_iterate", "version_inspect"}, <<"fields", "chat", "version", "do", "read">>)

----------------------------------------------------------------------------
(* Gates *)

Ask(via, prog, matched, pc) ==
    /\ request.pc = "unasked"
    /\ request' = [via |-> via, prog |-> prog, matched |-> matched, pc |-> pc]
    /\ UNCHANGED <<started, outcome, work, chatLive, told>>

\* Over HTTP: an operation is matched, other paths and methods are answered 404 or 405 by the
\* route; the callbacks of providers pass by the gates.
AskOverHttp ==
    \/ \E r \in Routes :
         /\ \/ r[1] \in WebCalls /\ Ask("web", r[2], r[1] \in Operations, "authenticate")
            \/ Ask("http", r[2], r[1] \in Operations, "authenticate")
    \/ Ask("http", <<"unknown">>, FALSE, "authenticate")
    \/ Ask("callback", <<"do">>, FALSE, "enter")

AskOverMcp ==
    \E t \in McpTools \cup McpVersionTools : Ask("mcp", t[2], FALSE, "enter")

\* The host's authenticate, authorize and admit, in this order: each lets the request through,
\* answers it, or throws.
Gate(pc, next) ==
    /\ request.pc = pc
    /\ \/ request' = [request EXCEPT !.pc = next] /\ UNCHANGED told
       \/ request' = [request EXCEPT !.pc = "answered"] /\ told' = "gate"
    /\ UNCHANGED <<started, outcome, work, chatLive>>

AuthenticateRequest == Gate("authenticate", IF request.matched THEN "authorize" ELSE "enter")
AuthorizeRequest    == Gate("authorize", "admit")
AdmitRequest        == Gate("admit", "enter")

----------------------------------------------------------------------------
(* Middleware: runApiMiddleware *)

Operation == MiddlewareCount
Direct    == ~request.matched
Inside    == request.pc \in {"inside", "answered"}

\* As a slip would have it: next() may be called again.
MayStartAgain(i) == TRUE

\* dispatch(i) goes on only behind the last one that was started.
MayStart(i) == i > started

Dispatch(i) ==
    /\ MayStart(i)
    /\ started' = i
    /\ work' = IF i = Operation THEN [work EXCEPT !.at = 1, !.runs = @ + 1] ELSE work

\* A matched operation enters the chain; everything else goes to its handler.
Enter ==
    /\ request.pc = "enter"
    /\ Dispatch(IF Direct THEN Operation ELSE 0)
    /\ request' = [request EXCEPT !.pc = "inside"]
    /\ UNCHANGED <<outcome, chatLive, told>>

\* A middleware that was started calls next(): once or more, and even after it returned.
CallNext(i) ==
    /\ Inside /\ ~Direct /\ i <= started
    /\ Dispatch(i + 1)
    /\ UNCHANGED <<request, outcome, chatLive, told>>

\* It returns what next() gave it or a response of its own; what it gets wrong is answered 400.
Return(i) ==
    /\ Inside /\ ~Direct /\ i <= started /\ outcome[i] = "open"
    /\ \E x \in {"host"} \cup ({outcome[i + 1]} \ {"open"}) :
           outcome' = [outcome EXCEPT ![i] = x]
    /\ UNCHANGED <<request, started, work, chatLive, told>>

\* The outermost result is the answer, errors as errorResponse classifies them.  The caller
\* gets it or never knows; the web client throws a VibyApiClientError for what is not a success.
AnswerRequest ==
    LET x == outcome[IF Direct THEN Operation ELSE 0] IN
    /\ request.pc = "inside" /\ x # "open"
    /\ request' = [request EXCEPT !.pc = "answered"]
    /\ told' \in {x, "lost"}
    /\ UNCHANGED <<started, outcome, work, chatLive>>

----------------------------------------------------------------------------
(* Handlers *)

Handling   == work.at > 0 /\ outcome[Operation] = "open"
Step      == request.prog[work.at]
AboutChat == \E i \in DOMAIN request.prog :
                 request.prog[i] \in {"chat", "version", "generation"}

Proceed ==
    IF work.at = Len(request.prog)
    THEN outcome' = [outcome EXCEPT ![Operation] = "ok"] /\ work' = work
    ELSE work' = [work EXCEPT !.at = @ + 1] /\ UNCHANGED outcome

\* "refused" is 400, 404, 409 and 413, "failed" 500, 501 and 502.
End(how) == outcome' = [outcome EXCEPT ![Operation] = how] /\ work' = work

Load ==
    /\ Handling /\ Step \in {"chat", "version", "generation", "found"}
    /\ \/ (chatLive \/ Step = "found") /\ Proceed
       \/ (~chatLive \/ Step # "chat") /\ End("refused")
       \/ End("failed")
    /\ UNCHANGED <<request, started, chatLive, told>>

\* What the request carries is too large, no JSON, or not what the operation takes.
CheckBody ==
    /\ Handling /\ Step \in {"body", "unknown"}
    /\ (Step = "body" /\ (Proceed \/ End("failed"))) \/ End("refused")
    /\ UNCHANGED <<request, started, chatLive, told>>

CheckQuery ==
    /\ Handling /\ Step = "query"
    /\ Proceed \/ End("refused")
    /\ UNCHANGED <<request, started, chatLive, told>>

CheckFields ==
    /\ Handling /\ Step = "fields"
    /\ Proceed \/ End("refused")
    /\ UNCHANGED <<request, started, chatLive, told>>

\* What was changed before is there to be read, unless the chat is deleted in between.
ReadMore ==
    /\ Handling /\ Step = "read"
    /\ \/ Proceed
       \/ End("failed")
       \/ (work.changes = 0 \/ ~chatLive) /\ End("refused")
    /\ UNCHANGED <<request, started, chatLive, told>>

\* An SDK call changes state and returns, refuses, or fails with its change made or not.
Change ==
    /\ Handling /\ Step \in {"do", "delete", "restore"}
    /\ \/ /\ AboutChat => chatLive
          /\ Step = "restore" => ~chatLive
          /\ chatLive' = CASE Step = "delete"  -> FALSE
                           [] Step = "restore" -> TRUE
                           [] OTHER -> chatLive
          /\ \/ IF work.at = Len(request.prog)
                THEN /\ outcome' = [outcome EXCEPT ![Operation] = "ok"]
                     /\ work' = [work EXCEPT !.changes = @ + 1]
                ELSE /\ UNCHANGED outcome
                     /\ work' = [work EXCEPT !.changes = @ + 1, !.at = @ + 1]
             \/ /\ outcome' = [outcome EXCEPT ![Operation] = "failed"]
                /\ work' = [work EXCEPT !.changes = @ + 1]
       \/ End("refused") /\ UNCHANGED chatLive
       \/ End("failed") /\ UNCHANGED chatLive
    /\ UNCHANGED <<request, started, told>>

\* A chat without a prompt is done, a ready preview is used again, a host without previews
\* answers 501.
MayBeDone ==
    /\ Handling /\ Step \in {"more", "reuse", "configured"}
    /\ Proceed \/ End(IF Step = "configured" THEN "failed" ELSE "ok")
    /\ UNCHANGED <<request, started, chatLive, told>>

\* Another request deletes the chat.
DeletedMeanwhile ==
    /\ chatLive /\ chatLive' = FALSE
    /\ UNCHANGED <<request, started, outcome, work, told>>

----------------------------------------------------------------------------

ApiInit ==
    /\ request = [via |-> "none", prog |-> <<>>, matched |-> FALSE, pc |-> "unasked"]
    /\ started = -1
    /\ outcome = [i \in 0..Operation |-> "open"]
    /\ work = [at |-> 0, changes |-> 0, runs |-> 0]
    /\ chatLive = TRUE /\ told = "nothing"

ApiNext ==
    \/ AskOverHttp \/ AskOverMcp
    \/ AuthenticateRequest \/ AuthorizeRequest \/ AdmitRequest \/ Enter
    \/ \E i \in 0..(Operation - 1) : CallNext(i) \/ Return(i)
    \/ AnswerRequest
    \/ Load \/ CheckBody \/ CheckQuery \/ CheckFields \/ ReadMore \/ Change \/ MayBeDone
    \/ DeletedMeanwhile

ApiSpec == ApiInit /\ [][ApiNext]_apiVars

----------------------------------------------------------------------------

\* A handler that has created a chat and is asked for more.
ChatFirst == \E i \in 1..work.at : request.prog[i] = "more"

\* What a caller is told can be relied on, whatever middleware does with next() and whoever
\* deletes the chat meanwhile: an operation runs at most once, what a gate stops does not run,
\* nothing changes that the host's policy has not seen, and a refused request has changed
\* nothing.  A chat created for a prompt that is then refused is the exception, as is one whose
\* result was deleted before it could be read back (createVibyApi and its routes).
AnswersTellTheEffect ==
    /\ work.runs <= 1
    /\ told = "gate" => work.runs = 0
    /\ work.changes > 0 => request.matched \/ request.via \in {"mcp", "callback"}
    /\ told = "refused" => work.changes = 0 \/ ~chatLive \/ ChatFirst

=============================================================================
