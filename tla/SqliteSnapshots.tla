-------------------------- MODULE SqliteSnapshots --------------------------
(***************************************************************************)
(* The SQLite adapter (src/persistence-sqlite.ts): one row with a revision *)
(* and a snapshot of a whole MemoryRepository.  Each process keeps the     *)
(* repository it has decoded last, its delegate, with the revision it came *)
(* from, and runs one call at a time.  A mutation takes SQLite's write     *)
(* lock, loads the latest snapshot, runs the method on the delegate, and   *)
(* writes the delegate back.  Whatever fails on the way is rolled back in  *)
(* the database, but not in the delegate, which is forgotten instead.      *)
(***************************************************************************)
EXTENDS Integers

CONSTANTS
    SqProcess, NoProcess,
    Value, First, Mutation,   \* see AtomicStore
    MaxRevision

ASSUME SqAssumption ==
    /\ NoProcess \notin SqProcess
    /\ First \in Value
    /\ Mutation \subseteq Value \X Value
    /\ MaxRevision \in Nat

VARIABLES
    stored,    \* the committed row of viby_state
    writer,    \* the process inside BEGIN IMMEDIATE, or NoProcess
    draft,     \* the row as the writer has updated it
    delegate,  \* process -> the repository in its memory
    revision,  \* process -> localRevision
    at         \* process -> how far its call has come

sqVars == <<stored, writer, draft, delegate, revision, at>>

Stage == {"idle", "begun", "loaded", "applied", "written", "failed"}
Snapshot == [revision : Nat, value : Value]
Unknown == -1

TypeOK ==
    /\ stored \in Snapshot
    /\ writer \in SqProcess \cup {NoProcess}
    /\ draft \in Snapshot
    /\ delegate \in [SqProcess -> Value]
    /\ revision \in [SqProcess -> Nat \cup {Unknown}]
    /\ at \in [SqProcess -> Stage]

-----------------------------------------------------------------------------

Goto(p, stage) == at' = [at EXCEPT ![p] = stage]
Keep(p) == UNCHANGED revision
Forget(p) == revision' = [revision EXCEPT ![p] = Unknown]

LoadNothing(p) == UNCHANGED <<delegate, revision>>

\* loadLatest: decodes the snapshot unless its revision is the delegate's.
LoadLatest(p) ==
    IF revision[p] = stored.revision
    THEN UNCHANGED <<delegate, revision>>
    ELSE /\ delegate' = [delegate EXCEPT ![p] = stored.value]
         /\ revision' = [revision EXCEPT ![p] = stored.revision]

\* A getter or a list; what it returns is what the delegate then holds.
Read(p) ==
    /\ at[p] = "idle"
    /\ LoadLatest(p)
    /\ UNCHANGED <<stored, writer, draft, at>>

Begin(p) ==
    /\ at[p] = "idle" /\ writer = NoProcess
    /\ stored.revision < MaxRevision
    /\ writer' = p
    /\ Goto(p, "begun")
    /\ UNCHANGED <<stored, draft, delegate, revision>>

Load(p) ==
    /\ at[p] = "begun"
    /\ LoadLatest(p)
    /\ Goto(p, "loaded")
    /\ UNCHANGED <<stored, writer, draft>>

Apply(p) ==
    /\ at[p] = "loaded"
    /\ \E v \in Value :
         /\ <<delegate[p], v>> \in Mutation
         /\ delegate' = [delegate EXCEPT ![p] = v]
    /\ Goto(p, "applied")
    /\ UNCHANGED <<stored, writer, draft, revision>>

\* The method throws, and may have written to some of the delegate's maps before.
Throw(p) ==
    /\ at[p] = "loaded"
    /\ \E v \in Value : delegate' = [delegate EXCEPT ![p] = v]
    /\ Goto(p, "failed")
    /\ UNCHANGED <<stored, writer, draft, revision>>

Write(p) ==
    /\ at[p] = "applied"
    /\ draft' = [revision |-> revision[p] + 1, value |-> delegate[p]]
    /\ Goto(p, "written")
    /\ UNCHANGED <<stored, writer, delegate, revision>>

Commit(p) ==
    /\ at[p] = "written"
    /\ stored' = draft
    /\ revision' = [revision EXCEPT ![p] = draft.revision]
    /\ writer' = NoProcess
    /\ Goto(p, "idle")
    /\ UNCHANGED <<draft, delegate>>

\* Loading, serializing, the update or the commit itself fails.
Interrupt(p) ==
    /\ at[p] \in {"begun", "applied", "written"}
    /\ Goto(p, "failed")
    /\ UNCHANGED <<stored, writer, draft, delegate, revision>>

Rollback(p) ==
    /\ at[p] = "failed"
    /\ Forget(p)
    /\ writer' = NoProcess
    /\ Goto(p, "idle")
    /\ UNCHANGED <<stored, draft, delegate>>

\* The process ends, or closes the adapter between two calls; SQLite rolls its transaction
\* back.  When it opens the file again it starts from an empty delegate.
Reopen(p) ==
    /\ delegate' = [delegate EXCEPT ![p] = First]
    /\ Forget(p)
    /\ writer' = IF writer = p THEN NoProcess ELSE writer
    /\ Goto(p, "idle")
    /\ UNCHANGED <<stored, draft>>

SqInit ==
    /\ stored = [revision |-> 0, value |-> First]
    /\ writer = NoProcess
    /\ draft = stored
    /\ delegate = [p \in SqProcess |-> First]
    /\ revision = [p \in SqProcess |-> Unknown]
    /\ at = [p \in SqProcess |-> "idle"]

SqNext ==
    \E p \in SqProcess :
        \/ Read(p) \/ Begin(p) \/ Load(p) \/ Apply(p) \/ Throw(p) \/ Write(p)
        \/ Commit(p) \/ Interrupt(p) \/ Rollback(p) \/ Reopen(p)

SqSpec == SqInit /\ [][SqNext]_sqVars

-----------------------------------------------------------------------------

\* A process that believes its delegate is current is right: a revision names one snapshot,
\* and no failed call has left its traces in a delegate that is still trusted.
CacheIsCurrent ==
    \A p \in SqProcess :
        at[p] \in {"idle", "begun", "loaded"} /\ revision[p] = stored.revision =>
            delegate[p] = stored.value

Store == INSTANCE AtomicStore WITH value <- stored.value

\* However many processes share the file and whatever fails in them, what they have
\* committed is what one repository would hold: no acknowledged change is lost, and none is
\* made of a stale snapshot or of the remains of a failed call.
ActsAsOneStore == Store!Spec

=============================================================================
