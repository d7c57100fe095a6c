---------------------------- MODULE MCProviders ----------------------------
(* What Viby does at its edges: repository hosts, deployment hosts,         *)
(* connected accounts, sandboxes, remote engines, sinks of its events, and  *)
(* the requests, listings and event streams of its own clients.  The        *)
(* components share no state, so one run checks each by itself: `part` says *)
(* which one moves.                                                         *)
EXTENDS RepositoryPush, Deployments, Connections, Sandboxes, RemoteEngine,
        EventStreams, HostApi, Listings, OutboundEvents, TLC

CONSTANTS c1, c2, s1, s2

VARIABLE part

hostVars == <<pushVars, deployVars, connVars, sbVars, remoteVars>>
edgeVars == <<streamVars, apiVars, lsVars, outVars>>

HostsIdle == PushIdle /\ DeployIdle /\ ConnIdle /\ SbIdle /\ RemoteInit
EdgesIdle == StreamInit /\ ApiInit /\ ListingsIdle /\ OutboundIdle

AllInit ==
    \/ part = "push" /\ EdgesIdle /\ PushInit /\ DeployIdle /\ ConnIdle /\ SbIdle /\ RemoteInit
    \/ part = "deploy" /\ EdgesIdle /\ PushIdle /\ DeployInit /\ ConnIdle /\ SbIdle /\ RemoteInit
    \/ part = "connection" /\ EdgesIdle /\ PushIdle /\ DeployIdle /\ ConnInit /\ SbIdle /\ RemoteInit
    \/ part = "sandbox" /\ EdgesIdle /\ PushIdle /\ DeployIdle /\ ConnIdle /\ SbInit /\ RemoteInit
    \/ part = "remote" /\ EdgesIdle /\ HostsIdle
    \/ part = "stream" /\ HostsIdle /\ EdgesIdle
    \/ part = "api" /\ HostsIdle /\ EdgesIdle
    \/ part = "listings" /\ HostsIdle /\ StreamInit /\ ApiInit /\ ListingsInit /\ OutboundIdle
    \/ part = "outbound" /\ HostsIdle /\ EdgesIdle

AllNext ==
    /\ UNCHANGED part
    /\ \/ /\ part = "push" /\ PushNext
          /\ UNCHANGED <<deployVars, connVars, sbVars, remoteVars, edgeVars>>
       \/ /\ part = "deploy" /\ DeployNext
          /\ UNCHANGED <<pushVars, connVars, sbVars, remoteVars, edgeVars>>
       \/ /\ part = "connection" /\ ConnNext
          /\ UNCHANGED <<pushVars, deployVars, sbVars, remoteVars, edgeVars>>
       \/ /\ part = "sandbox" /\ SbNext
          /\ UNCHANGED <<pushVars, deployVars, connVars, remoteVars, edgeVars>>
       \/ /\ part = "remote" /\ RemoteNext
          /\ UNCHANGED <<pushVars, deployVars, connVars, sbVars, edgeVars>>
       \/ part = "stream" /\ StreamNext /\ UNCHANGED <<hostVars, apiVars, lsVars, outVars>>
       \/ part = "api" /\ ApiNext /\ UNCHANGED <<hostVars, streamVars, lsVars, outVars>>
       \/ part = "listings" /\ ListingsNext /\ UNCHANGED <<hostVars, streamVars, apiVars, outVars>>
       \/ part = "outbound" /\ OutboundNext /\ UNCHANGED <<hostVars, streamVars, apiVars, lsVars>>

AllSpec == AllInit /\ [][AllNext]_<<part, hostVars, edgeVars>>

ProviderSymmetry == Permutations({c1, c2}) \cup Permutations({s1, s2})

=============================================================================
