------------------------ MODULE EnvironmentVariables ------------------------
(* The variables of a chat's environment (environment.ts): rows in            *)
(* PostgreSQL, and the bytes of secret ones in the secret store, which no      *)
(* transaction covers.  Calls interleave at every await, the process may die,  *)
(* and the answer of a commit may be lost.                                     *)
EXTENDS Naturals, FiniteSets

CONSTANTS
    EnvName,      \* names of variables (of one environment of one chat)
    EnvCall,      \* calls in progress
    MaxSecrets,   \* bound: secrets put
    MaxEnvFaults  \* bound: failures and lost answers

VARIABLES
    envChat,      \* "active", "deleted" or "purged"
    envRow,       \* for each name {}, {PlainRef}, or {r} of a secret with reference r
    storedSecrets,       \* references the secret store has
    envCall,      \* for each call [pc, name, ref]
    listed,       \* for each resolve the references it has still to read
    putCount,     \* references given out
    strays,       \* secrets that a failure or a purge has left without a row
    unheard,      \* secrets whose row was committed while the caller saw an error
    envFaults
envVars == <<envChat, envRow, storedSecrets, envCall, listed, putCount, strays, unheard, envFaults>>

PlainRef   == 0
IdleEnv == [pc |-> "idle", name |-> "none", ref |-> PlainRef]

EnvAt(c, pc) == envCall[c].pc = pc
EnvGo(c, pc) == envCall' = [envCall EXCEPT ![c].pc = pc]
EnvEnd(c)    == envCall' = [envCall EXCEPT ![c] = IdleEnv]
\* Drop the secret next, if there is one.
EnvDrop(c, named) ==
    \/ \E r \in named \ {PlainRef} : envCall' = [envCall EXCEPT ![c].pc = "drop", ![c].ref = r]
    \/ named \subseteq {PlainRef} /\ EnvEnd(c)

EnvStores ==
    /\ envChat = "active" /\ envRow = [v \in EnvName |-> {}]
    /\ storedSecrets = {} /\ envCall = [c \in EnvCall |-> IdleEnv]
    /\ listed = [c \in EnvCall |-> {}]
    /\ strays = {} /\ unheard = {} /\ envFaults = 0
EnvInit == EnvStores /\ putCount = 0
\* At rest in a composition.
EnvIdle == EnvStores /\ putCount = MaxSecrets

----------------------------------------------------------------------------
(* set *)

SetVariable(c, v) ==
    /\ EnvAt(c, "idle")
    /\ \/ /\ envCall' = [envCall EXCEPT ![c] = [pc |-> "upsert", name |-> v, ref |-> PlainRef]]
          /\ UNCHANGED <<storedSecrets, putCount>>
       \/ /\ putCount < MaxSecrets
          /\ putCount' = putCount + 1
          /\ storedSecrets' = storedSecrets \cup {putCount + 1}
          /\ envCall' = [envCall EXCEPT ![c] = [pc |-> "upsert", name |-> v, ref |-> putCount + 1]]
    /\ UNCHANGED <<envChat, envRow, listed, strays, unheard, envFaults>>

\* A plausible bug: only a row that becomes plain is asked what it named.
ReplacedByPlain(c) == IF envCall[c].ref = PlainRef THEN envRow[envCall[c].name] ELSE {}

\* What the row named before is the caller's to delete.
Replaced(c) == envRow[envCall[c].name]

\* The chat's row and the variable's are locked: a write and what it replaces
\* are one step.
WriteRow(c) == envChat = "active" /\ envRow' = [envRow EXCEPT ![envCall[c].name] = {envCall[c].ref}]

\* A chat that is deleted refuses, and the new secret goes.
UpsertVariable(c) ==
    /\ EnvAt(c, "upsert")
    /\ IF envChat = "active"
       THEN /\ WriteRow(c)
            /\ EnvDrop(c, Replaced(c))
       ELSE EnvDrop(c, {envCall[c].ref}) /\ UNCHANGED envRow
    /\ UNCHANGED <<envChat, storedSecrets, listed, putCount, strays, unheard, envFaults>>

----------------------------------------------------------------------------
(* delete *)

DeleteRow(v) ==
    /\ envChat = "active" /\ envRow[v] # {}
    /\ envRow' = [envRow EXCEPT ![v] = {}]

DeleteVariable(c, v) ==
    /\ EnvAt(c, "idle") /\ DeleteRow(v)
    /\ EnvDrop(c, envRow[v])
    /\ UNCHANGED <<envChat, storedSecrets, listed, putCount, strays, unheard, envFaults>>

\* Of the new, the replaced or the deleted secret.
DropSecret(c) ==
    /\ EnvAt(c, "drop")
    /\ storedSecrets' = storedSecrets \ {envCall[c].ref}
    /\ EnvEnd(c)
    /\ UNCHANGED <<envChat, envRow, listed, putCount, strays, unheard, envFaults>>

----------------------------------------------------------------------------
(* resolve, for a sandbox or a deployment *)

ListedRows == IF envChat = "active" THEN UNION {envRow[v] : v \in EnvName} ELSE {}

Resolve(c) ==
    /\ EnvAt(c, "idle") /\ ListedRows # {}
    /\ EnvGo(c, "read")
    /\ listed' = [listed EXCEPT ![c] = ListedRows]
    /\ UNCHANGED <<envChat, envRow, storedSecrets, putCount, strays, unheard, envFaults>>

\* The secrets are read one by one; one that is gone fails the whole.
ReadVariable(c) ==
    /\ EnvAt(c, "read")
    /\ IF listed[c] = {} THEN EnvEnd(c) /\ UNCHANGED listed
       ELSE \E p \in listed[c] :
              IF p \in storedSecrets \cup {PlainRef}
              THEN listed' = [listed EXCEPT ![c] = @ \ {p}] /\ UNCHANGED envCall
              ELSE listed' = [listed EXCEPT ![c] = {}] /\ EnvEnd(c)
    /\ UNCHANGED <<envChat, envRow, storedSecrets, putCount, strays, unheard, envFaults>>

----------------------------------------------------------------------------
(* The chat, and failures *)

DeleteEnvChat ==
    /\ envChat = "active" /\ envChat' = "deleted"
    /\ UNCHANGED <<envRow, storedSecrets, envCall, listed, putCount, strays, unheard, envFaults>>
RestoreEnvChat ==
    /\ envChat = "deleted" /\ envChat' = "active"
    /\ UNCHANGED <<envRow, storedSecrets, envCall, listed, putCount, strays, unheard, envFaults>>

\* The rows go with the chat; nobody removes the bytes.
PurgeEnvChat ==
    /\ envChat = "deleted" /\ envChat' = "purged"
    /\ envRow' = [v \in EnvName |-> {}]
    /\ strays' = strays \cup (storedSecrets \cap UNION {envRow[v] : v \in EnvName})
    /\ UNCHANGED <<storedSecrets, envCall, listed, putCount, unheard, envFaults>>

EnvFault == envFaults < MaxEnvFaults /\ envFaults' = envFaults + 1

\* The process dies, or the secret cannot be deleted: set forgets the error,
\* delete throws it, and its retry finds no row.
AbandonVariable(c) ==
    /\ EnvFault /\ ~EnvAt(c, "idle")
    /\ strays' = strays \cup ({envCall[c].ref} \cap storedSecrets)
    /\ listed' = [listed EXCEPT ![c] = {}]
    /\ EnvEnd(c)
    /\ UNCHANGED <<envChat, envRow, storedSecrets, putCount, unheard>>

\* The upsert fails, having taken effect or not; the new secret is dropped, and
\* what the row named before is nobody's.
UpsertUnheard(c) ==
    /\ EnvFault /\ EnvAt(c, "upsert")
    /\ EnvDrop(c, {envCall[c].ref})
    /\ \/ UNCHANGED <<envRow, strays, unheard>>
       \/ /\ WriteRow(c)
          /\ strays' = strays \cup (envRow[envCall[c].name] \cap storedSecrets)
          /\ unheard' = unheard \cup ({envCall[c].ref} \ {PlainRef})
    /\ UNCHANGED <<envChat, storedSecrets, listed, putCount>>

EnvNext ==
    \/ \E c \in EnvCall :
         \/ \E v \in EnvName : SetVariable(c, v) \/ DeleteVariable(c, v)
         \/ UpsertVariable(c) \/ DropSecret(c) \/ Resolve(c) \/ ReadVariable(c)
         \/ AbandonVariable(c) \/ UpsertUnheard(c)
    \/ DeleteEnvChat \/ RestoreEnvChat \/ PurgeEnvChat

EnvSpec == EnvInit /\ [][EnvNext]_envVars

----------------------------------------------------------------------------
(* Properties *)

\* A secret variable can be resolved: its row names bytes that are stored,
\* whatever sets and deletes of the name overlap and fail, except where a
\* caller dropped the secret of a commit it did not hear of.
SecretsCanBeRead ==
    \A v \in EnvName : envRow[v] \subseteq storedSecrets \cup unheard \cup {PlainRef}

\* Bytes of a secret that was replaced or deleted do not stay: each stored one
\* is named by one row, or a call still has it in hand, or a failure or the
\* purge of the chat has left it.
SecretsHaveAnOwner ==
    \A r \in storedSecrets \ (strays \cup unheard) :
       Cardinality({v \in EnvName : r \in envRow[v]}) + Cardinality({c \in EnvCall : envCall[c].ref = r}) = 1

\* Rows and secret bytes agree (EnvironmentManager.set, delete and the chat's purge).
VariablesAreSound == SecretsCanBeRead /\ SecretsHaveAnOwner
=============================================================================
