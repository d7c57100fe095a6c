------------------------------ MODULE Artifacts ------------------------------
(***************************************************************************)
(* Binary bytes beside the PostgreSQL rows that name them: attachments,   *)
(* generated, visual, deployment and project artifacts                     *)
(* (postgres-repository.ts) in a filesystem or S3 store.  The store takes  *)
(* no part in the transaction: a writer stores its bytes first, then       *)
(* commits the rows, and deletes the bytes again when that fails; a purge  *)
(* commits the removal of the rows first and deletes their bytes after.    *)
(* Between two steps of a writer others run, a request to the store may    *)
(* fail with or without its effect, the answer to a COMMIT may be lost and *)
(* the process may die.                                                    *)
(*                                                                         *)
(* A transaction is one step: its row locks and the RESTRICT of            *)
(* version_files.artifact_id serialise a purge with a fork.                *)
(***************************************************************************)
EXTENDS Integers, FiniteSets

CONSTANTS
    ArtWriter,      \* concurrent calls
    ArtChat,
    MaxArtifacts,   \* bound: identifiers handed out
    MaxArtFaults    \* bound: failed requests, lost answers and crashes

ASSUME ArtAssumption == MaxArtifacts \in Nat /\ MaxArtFaults \in Nat

Artifact == 1..MaxArtifacts
ArtKind  == {"attachment", "steering", "generated", "visual", "deployment", "project"}

VARIABLES
    chats,      \* [ArtChat -> "absent" | "live" | "deleted" | "purged"]
    artRows,    \* the rows: [kind, chat] by artifact
    entries,    \* version_files that name a project artifact, as <<chat, artifact>>
    bytes,      \* artifacts whose bytes the store holds
    calls,      \* [pc, kind, chat, todo, stored] of each call
    lost,       \* bookkeeping: bytes or rows a fault put beyond anyone's knowledge
    artUsed, artFaults

artVars == <<chats, artRows, entries, bytes, calls, lost, artUsed, artFaults>>

NoArtifact == [kind |-> "none"]
Resting    == [pc |-> "idle"]
Over       == [pc |-> "over"]

Become(w, r) == calls' = [calls EXCEPT ![w] = r]
Named(a)     == artRows[a] # NoArtifact
RowsIn(c)    == {a \in Artifact : Named(a) /\ artRows[a].kind # "project" /\ artRows[a].chat = c}
FilesOf(c)   == {a \in Artifact : <<c, a>> \in entries}
Fault        == artFaults < MaxArtFaults /\ artFaults' = artFaults + 1

\* One steering per idempotency key and one prepared output per deployment (here: per chat).
Unique(kind) == kind \in {"steering", "deployment"}
Taken(k, c)  == \E a \in RowsIn(c) : artRows[a].kind = k

----------------------------------------------------------------------------
(* A write: bytes first, then the rows *)

\* A message, a result or a pause may carry several artifacts, a capture or a build one.  A
\* steering and a deployment artifact that exist already are returned without storing anything.
BeginWrite(w) == \E kind \in ArtKind, c \in ArtChat, n \in {1, 2} :
    /\ calls[w] = Resting
    /\ artUsed + n <= MaxArtifacts
    /\ kind \in {"visual", "deployment"} => n = 1
    /\ chats[c] = (IF kind = "project" THEN "absent" ELSE "live")
    /\ IF Unique(kind) /\ Taken(kind, c)
       THEN Become(w, Over) /\ UNCHANGED artUsed
       ELSE /\ Become(w, [pc |-> "put", kind |-> kind, chat |-> c,
                          todo |-> (artUsed + 1)..(artUsed + n), stored |-> {}])
            /\ artUsed' = artUsed + n
    /\ UNCHANGED <<chats, artRows, entries, bytes, lost, artFaults>>

Put(w) ==
    /\ calls[w].pc = "put" /\ calls[w].todo # {}
    /\ LET a == CHOOSE x \in calls[w].todo : \A y \in calls[w].todo : x <= y IN
        /\ bytes' = bytes \cup {a}
        /\ Become(w, [calls[w] EXCEPT !.todo = @ \ {a}, !.stored = @ \cup {a}])
    /\ UNCHANGED <<chats, artRows, entries, lost, artUsed, artFaults>>

\* A put that throws: what was stored before it is removed.  S3 may have kept the object all the
\* same; the filesystem store renames a complete temporary file or leaves nothing.
PutFails(w) ==
    /\ calls[w].pc = "put" /\ calls[w].todo # {} /\ Fault
    /\ \E kept \in SUBSET calls[w].todo :
        /\ Cardinality(kept) <= 1
        /\ bytes' = bytes \cup kept
        /\ lost' = lost \cup kept
    /\ Become(w, [calls[w] EXCEPT !.pc = "clean", !.todo = {}])
    /\ UNCHANGED <<chats, artRows, entries, artUsed>>

\* What each transaction demands of the chat.  Attachments come with a message of a chat that is
\* not deleted, and a steering besides with a key nobody used yet.
NewGeneration(c) == chats[c] = "live"
NewSteering(c)   == chats[c] = "live" /\ ~Taken("steering", c)

\* A result is committed by the attempt that holds its lease, which a deleted chat has not.
NewResult(c) == chats[c] = "live"

\* A capture and a prepared output are inserted out of a join with the chat.
NewCapture(c) == chats[c] = "live"
NewBuild(c)   == chats[c] = "live" /\ ~Taken("deployment", c)

\* importChat makes the chat.
NewChat(c) == chats[c] = "absent"

Accepts(w) ==
    LET c == calls[w].chat IN
    CASE calls[w].kind = "attachment" -> NewGeneration(c)
      [] calls[w].kind = "steering"   -> NewSteering(c)
      [] calls[w].kind = "generated"  -> NewResult(c)
      [] calls[w].kind = "visual"     -> NewCapture(c)
      [] calls[w].kind = "deployment" -> NewBuild(c)
      [] calls[w].kind = "project"    -> NewChat(c)

\* The rows of a call, and for an import its chat and version entries.
InsertRows(w) ==
    LET s == calls[w].stored  k == calls[w].kind  c == calls[w].chat IN
    /\ artRows' = [a \in Artifact |->
            IF a \in s THEN [kind |-> k, chat |-> c] ELSE artRows[a]]
    /\ IF k = "project"
       THEN chats' = [chats EXCEPT ![c] = "live"] /\ entries' = entries \cup ({c} \X s)
       ELSE UNCHANGED <<chats, entries>>

\* The transaction: a refusal is an error and removes the bytes again, and so does the answer
\* that another call's row has the key or the deployment already.
NameThem(w) ==
    /\ calls[w].pc = "put" /\ calls[w].todo = {}
    /\ IF ~Accepts(w)
       THEN /\ Become(w, [calls[w] EXCEPT !.pc = "clean"])
            /\ UNCHANGED <<chats, artRows, entries>>
       ELSE InsertRows(w) /\ Become(w, Over)
    /\ UNCHANGED <<bytes, lost, artUsed, artFaults>>

\* The connection fails.  The transaction may have been rolled back or committed; the catch
\* block removes the bytes either way.
NameFails(w) ==
    /\ calls[w].pc = "put" /\ calls[w].todo = {} /\ Fault
    /\ Become(w, [calls[w] EXCEPT !.pc = "clean"])
    /\ \/ UNCHANGED <<chats, artRows, entries, lost>>
       \/ /\ Accepts(w)
          /\ InsertRows(w)
          /\ lost' = lost \cup calls[w].stored
    /\ UNCHANGED <<bytes, artUsed>>

\* The deletions of a failed write and of a purge, all started, none waited for by another, and
\* a failure of one swallowed.
RemoveBytes(w) ==
    /\ calls[w].pc = "clean" /\ calls[w].stored # {}
    /\ \E a \in calls[w].stored :
        /\ Become(w, [calls[w] EXCEPT !.stored = @ \ {a}])
        /\ \/ bytes' = bytes \ {a} /\ UNCHANGED <<lost, artFaults>>
           \/ Fault /\ lost' = lost \cup {a} /\ UNCHANGED bytes
    /\ UNCHANGED <<chats, artRows, entries, artUsed>>

EndCall(w) ==
    /\ calls[w].pc = "clean" /\ calls[w].stored = {}
    /\ Become(w, Over)
    /\ UNCHANGED <<chats, artRows, entries, bytes, lost, artUsed, artFaults>>

CallCrashes(w) ==
    /\ calls[w].pc \in {"put", "clean"} /\ Fault
    /\ lost' = lost \cup calls[w].stored
    /\ Become(w, Over)
    /\ UNCHANGED <<chats, artRows, entries, bytes, artUsed>>

----------------------------------------------------------------------------
(* Chats *)

\* fork() makes a chat whose first version has the entries of a version that still exists; the
\* chat it comes from may have been deleted after fork() looked.
Fork == \E from, to \in ArtChat :
    /\ chats[from] \in {"live", "deleted"} /\ chats[to] = "absent"
    /\ chats' = [chats EXCEPT ![to] = "live"]
    /\ entries' = entries \cup ({to} \X FilesOf(from))
    /\ UNCHANGED <<artRows, bytes, calls, lost, artUsed, artFaults>>

CreateChat == \E c \in ArtChat :
    /\ chats[c] = "absent"
    /\ chats' = [chats EXCEPT ![c] = "live"]
    /\ UNCHANGED <<artRows, entries, bytes, calls, lost, artUsed, artFaults>>

RemoveChat == \E c \in ArtChat :
    /\ chats[c] = "live"
    /\ chats' = [chats EXCEPT ![c] = "deleted"]
    /\ UNCHANGED <<artRows, entries, bytes, calls, lost, artUsed, artFaults>>

BringBack == \E c \in ArtChat :
    /\ chats[c] = "deleted"
    /\ chats' = [chats EXCEPT ![c] = "live"]
    /\ UNCHANGED <<artRows, entries, bytes, calls, lost, artUsed, artFaults>>

\* As a slip would have it: every artifact a purged version names goes.
AllShared(dead) == UNION {FilesOf(c) : c \in dead}

\* The project artifacts of purged chats that no version of another chat names.
Unshared(dead) ==
    (UNION {FilesOf(c) : c \in dead}) \ (UNION {FilesOf(c) : c \in ArtChat \ dead})

\* A purge removes a batch of chats whose retention is over with all their rows, and takes the
\* locations of the bytes along; when COMMIT's answer is lost nobody has them any more.
Purge(w) == \E dead \in SUBSET {c \in ArtChat : chats[c] = "deleted"} :
    LET gone == (UNION {RowsIn(c) : c \in dead}) \cup Unshared(dead) IN
    /\ calls[w] = Resting /\ dead # {}
    /\ chats' = [c \in ArtChat |-> IF c \in dead THEN "purged" ELSE chats[c]]
    /\ artRows' = [a \in Artifact |-> IF a \in gone THEN NoArtifact ELSE artRows[a]]
    /\ entries' = {x \in entries : x[1] \notin dead}
    /\ \/ /\ Become(w, [pc |-> "clean", kind |-> "purge", todo |-> {}, stored |-> gone])
          /\ UNCHANGED <<lost, artFaults>>
       \/ Fault /\ lost' = lost \cup gone /\ Become(w, Over)
    /\ UNCHANGED <<bytes, artUsed>>

----------------------------------------------------------------------------
ArtIdle ==
    /\ chats = [c \in ArtChat |-> "absent"]
    /\ artRows = [a \in Artifact |-> NoArtifact]
    /\ entries = {} /\ bytes = {} /\ lost = {}
    /\ calls = [w \in ArtWriter |-> Resting]
    /\ artUsed = 0 /\ artFaults = 0

ArtInit == ArtIdle

ArtNext ==
    \/ Fork \/ CreateChat \/ RemoveChat \/ BringBack
    \/ \E w \in ArtWriter :
        \/ BeginWrite(w) \/ Put(w) \/ PutFails(w) \/ NameThem(w) \/ NameFails(w)
        \/ RemoveBytes(w) \/ EndCall(w) \/ CallCrashes(w) \/ Purge(w)

ArtSpec == ArtInit /\ [][ArtNext]_artVars

----------------------------------------------------------------------------
(* Properties *)

\* A row can be read: its bytes are in the store, unless the answer to its COMMIT was lost
\* and the writer took that for a failure.  Forks share project artifacts with the version
\* they came from, so a purge of one chat must leave those of another.
RowsCanBeRead ==
    /\ \A a \in Artifact : Named(a) => a \in bytes \cup lost
    /\ \A x \in entries : Named(x[2]) /\ x[2] \in bytes \cup lost

\* Bytes nobody names are still in the hands of the call that will remove them; only a fault
\* leaves bytes behind for good.
BytesAreAccountedFor ==
    \A a \in bytes :
        Named(a) \/ a \in lost \/ \E w \in ArtWriter :
            calls[w].pc \in {"put", "clean"} /\ a \in calls[w].stored

\* Rows and stored bytes (artifact writes, purges, forks).
BytesAgree == RowsCanBeRead /\ BytesAreAccountedFor

==============================================================================
