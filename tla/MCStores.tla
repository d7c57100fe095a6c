------------------------------ MODULE MCStores ------------------------------
(* What Viby keeps besides the rows of the lifecycle: the in-memory         *)
(* repository, its SQLite snapshots, artifacts, tool calls, sources,        *)
(* feedback, environment variables and tool sources.  The components share  *)
(* no state, so one run checks each by itself: `part` says which one moves. *)
EXTENDS MemoryRepository, SqliteSnapshots, Artifacts, AgentTools, Sources, Feedback,
        EnvironmentVariables, ToolSources, TLC

CONSTANTS a1, a2, t1, t2, k1, k2, m1, m2, m3

VARIABLE part

AllInit ==
    /\ SqInit /\ ArtInit
    /\ part \in {"memory", "sqlite", "artifacts", "tools", "sources", "feedback",
                "variables", "registry"}
    /\ IF part = "memory" THEN LocalInit ELSE LocalIdle
    /\ IF part = "tools" THEN ToolsInit ELSE ToolsIdle
    /\ IF part = "sources" THEN SourcesInit ELSE SourcesIdle
    /\ IF part = "feedback" THEN FeedbackInit ELSE FeedbackIdle
    /\ IF part = "variables" THEN EnvInit ELSE EnvIdle
    /\ IF part = "registry" THEN ToolSrcInit ELSE ToolSrcIdle

AllNext ==
    /\ UNCHANGED part
    /\ \/ /\ part = "memory" /\ LocalNext
          /\ UNCHANGED <<sqVars, artVars, toolVars, srcVars, fbVars, envVars, toolSrcVars>>
       \/ /\ part = "sqlite" /\ SqNext
          /\ UNCHANGED <<localVars, artVars, toolVars, srcVars, fbVars, envVars, toolSrcVars>>
       \/ /\ part = "artifacts" /\ ArtNext
          /\ UNCHANGED <<localVars, sqVars, toolVars, srcVars, fbVars, envVars, toolSrcVars>>
       \/ /\ part = "tools" /\ ToolsNext
          /\ UNCHANGED <<localVars, sqVars, artVars, srcVars, fbVars, envVars, toolSrcVars>>
       \/ /\ part = "sources" /\ SourcesNext
          /\ UNCHANGED <<localVars, sqVars, artVars, toolVars, fbVars, envVars, toolSrcVars>>
       \/ /\ part = "feedback" /\ FeedbackNext
          /\ UNCHANGED <<localVars, sqVars, artVars, toolVars, srcVars, envVars, toolSrcVars>>
       \/ /\ part = "variables" /\ EnvNext
          /\ UNCHANGED <<localVars, sqVars, artVars, toolVars, srcVars, fbVars, toolSrcVars>>
       \/ /\ part = "registry" /\ ToolSrcNext
          /\ UNCHANGED <<localVars, sqVars, artVars, toolVars, srcVars, fbVars, envVars>>

allVars == <<part, localVars, sqVars, artVars, toolVars, srcVars, fbVars, envVars, toolSrcVars>>

AllSpec == AllInit /\ [][AllNext]_allVars

StoreSymmetry ==
    Permutations({a1, a2}) \cup Permutations({t1, t2}) \cup Permutations({k1, k2})

\* A repository holds a set of rows; a method adds one that is missing.
Rows    == SUBSET {m1, m2, m3}
Methods == {<<v, w>> \in Rows \X Rows : \E m \in {m1, m2, m3} \ v : w = v \cup {m}}

=============================================================================
