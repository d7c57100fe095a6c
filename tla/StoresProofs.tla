---------------------------- MODULE StoresProofs ----------------------------
(***************************************************************************)
(* Theorems about what Viby stores besides the rows of the lifecycle, one  *)
(* component after the other, for any number of writers, callers and rows. *)
(***************************************************************************)
EXTENDS Artifacts, EnvironmentVariables, ToolSources, Sources, Feedback,
        MemoryRepository, SqliteSnapshots, FiniteSetTheorems, NaturalsInduction,
        WellFoundedInduction, TLAPS

LEMMA ArtBounds == MaxArtifacts \in Nat /\ MaxArtFaults \in Nat
BY ArtAssumption DEF ArtAssumption

(* Artifacts: rows and stored bytes *)

WriteCall == [pc: {"put", "clean"}, kind: ArtKind, chat: ArtChat,
              todo: SUBSET Artifact, stored: SUBSET Artifact]
PurgeCall == [pc: {"clean"}, kind: {"purge"}, todo: SUBSET Artifact, stored: SUBSET Artifact]
ArtRow    == [kind: ArtKind, chat: ArtChat]

ArtTypes ==
    /\ chats \in [ArtChat -> {"absent", "live", "deleted", "purged"}]
    /\ artRows \in [Artifact -> ArtRow \cup {NoArtifact}]
    /\ entries \subseteq ArtChat \X Artifact
    /\ bytes \subseteq Artifact /\ lost \subseteq Artifact
    /\ calls \in [ArtWriter -> {Resting, Over} \cup WriteCall \cup PurgeCall]
    /\ artUsed \in 0..MaxArtifacts /\ artFaults \in 0..MaxArtFaults

Writing(w) == calls[w].pc = "put"
Busy(w)    == calls[w].pc \in {"put", "clean"}
Hand(w)    == calls[w].todo \cup calls[w].stored

\* A version names project artifacts that have a row.
EntriesHaveRows == \A x \in entries : Named(x[2]) /\ artRows[x[2]].kind = "project"

\* What a writer has in hand nobody else has, no row names yet, and what it stored is there.
HandsAreFree ==
    \A w \in ArtWriter : Writing(w) =>
        /\ calls[w].stored \subseteq bytes
        /\ \A a \in Hand(w) : ~Named(a)
        /\ \A v \in ArtWriter \ {w} : Busy(v) => Hand(v) \cap Hand(w) = {}

\* What is being removed has no row, except for a commit its writer did not hear of.
RemovalsAreFree ==
    \A w \in ArtWriter : calls[w].pc = "clean" =>
        /\ calls[w].todo = {}
        /\ \A a \in calls[w].stored : ~Named(a) \/ a \in lost

\* Identifiers are new.
NewIdsAreFree ==
    \A a \in Artifact : a > artUsed => ~Named(a) /\ \A w \in ArtWriter : Busy(w) => a \notin Hand(w)

ArtInv == /\ ArtTypes /\ EntriesHaveRows /\ HandsAreFree /\ RemovalsAreFree /\ NewIdsAreFree
          /\ BytesAgree

LEMMA OverIs == Over.pc = "over" /\ Resting.pc = "idle"
BY DEF Over, Resting

LEMMA ArtInitInv == ArtInit => ArtInv
BY ArtBounds DEF ArtInit, ArtIdle, ArtInv, ArtTypes, EntriesHaveRows, HandsAreFree, RemovalsAreFree,
   NewIdsAreFree, BytesAgree, RowsCanBeRead, BytesAreAccountedFor, Named, Writing, Busy, Resting

\* A call that has something in hand.
LEMMA BusyCall ==
    ASSUME ArtTypes, NEW w \in ArtWriter
    PROVE  /\ Busy(w) => /\ calls[w] \in WriteCall \cup PurgeCall
                         /\ calls[w].todo \in SUBSET Artifact /\ calls[w].stored \in SUBSET Artifact
           /\ Writing(w) => calls[w] \in WriteCall /\ calls[w].chat \in ArtChat
                            /\ calls[w].kind \in ArtKind
BY DEF ArtTypes, Busy, Writing, WriteCall, PurgeCall, Resting, Over

\* What becomes of a call in the transitions of BeginWrite, Put, PutFails and so on.
LEMMA NextCall ==
    ASSUME NEW r \in WriteCall
    PROVE  /\ LET x == [r EXCEPT !.pc = "clean"] IN
              x \in WriteCall /\ x.pc = "clean" /\ x.todo = r.todo /\ x.stored = r.stored
           /\ LET x == [r EXCEPT !.pc = "clean", !.todo = {}] IN
              x \in WriteCall /\ x.pc = "clean" /\ x.todo = {} /\ x.stored = r.stored
BY DEF WriteCall

LEMMA StoredCall ==
    ASSUME NEW r, NEW T, NEW S, T \in SUBSET Artifact, S \in SUBSET Artifact, r \in WriteCall
    PROVE  LET x == [r EXCEPT !.todo = T, !.stored = S] IN
           x \in WriteCall /\ x.pc = r.pc /\ x.todo = T /\ x.stored = S
BY DEF WriteCall

LEMMA CleanedCall ==
    ASSUME NEW r, NEW S, S \in SUBSET Artifact, r \in WriteCall \cup PurgeCall
    PROVE  LET x == [r EXCEPT !.stored = S] IN
           x \in WriteCall \cup PurgeCall /\ x.pc = r.pc /\ x.todo = r.todo /\ x.stored = S
BY DEF WriteCall, PurgeCall

LEMMA BecomeStep ==
    ASSUME ArtTypes, NEW w \in ArtWriter, NEW r, Become(w, r),
           r \in {Resting, Over} \cup WriteCall \cup PurgeCall
    PROVE  /\ calls' \in [ArtWriter -> {Resting, Over} \cup WriteCall \cup PurgeCall]
           /\ calls'[w] = r /\ \A v \in ArtWriter \ {w} : calls'[v] = calls[v]
BY DEF ArtTypes, Become

\* A call that moves without touching the rows.
HandOf(r) == r.todo \cup r.stored

LEMMA MoveInv ==
    ASSUME ArtInv, NEW w \in ArtWriter, NEW r, Become(w, r),
           r \in {Resting, Over} \cup WriteCall \cup PurgeCall,
           UNCHANGED <<chats, artRows, entries>>,
           bytes' \subseteq Artifact, lost \subseteq lost', lost' \subseteq Artifact,
           artUsed' \in 0..MaxArtifacts, artUsed <= artUsed', artFaults' \in 0..MaxArtFaults,
           \A a \in bytes \ bytes' : calls[w].pc = "clean" /\ a \in calls[w].stored,
           \A a \in bytes' \ bytes : a \in lost' \/ (r.pc = "put" /\ a \in r.stored),
           r.pc = "put" =>
             /\ r.stored \subseteq bytes'
             /\ \/ Writing(w) /\ HandOf(r) \subseteq Hand(w)
                \/ \A a \in HandOf(r) : artUsed < a /\ a <= artUsed',
           r.pc = "clean" => r.todo = {} /\ Busy(w) /\ r.stored \subseteq calls[w].stored,
           Busy(w) => \A a \in calls[w].stored \cap bytes' :
                        a \in lost' \/ Named(a) \/ (r.pc \in {"put", "clean"} /\ a \in r.stored)
    PROVE  ArtInv'
<1>1. /\ calls' \in [ArtWriter -> {Resting, Over} \cup WriteCall \cup PurgeCall]
      /\ calls'[w] = r /\ \A v \in ArtWriter \ {w} : calls'[v] = calls[v]
  BY BecomeStep DEF ArtInv
<1>2. ArtTypes' /\ \A a : Named(a)' = Named(a)
  BY <1>1 DEF ArtInv, ArtTypes, Named
<1>3. /\ \A v \in ArtWriter \ {w} : Busy(v)' = Busy(v) /\ Writing(v)' = Writing(v) /\ Hand(v)' = Hand(v)
      /\ Busy(w)' = (r.pc \in {"put", "clean"}) /\ Writing(w)' = (r.pc = "put") /\ Hand(w)' = HandOf(r)
  BY <1>1 DEF Busy, Writing, Hand, HandOf
<1>4. Busy(w) => Hand(w) \in SUBSET Artifact
  BY BusyCall DEF ArtInv, Hand
<1>5. Busy(w)' => HandOf(r) \in SUBSET Artifact
  <2>1. Busy(w)' => r \in WriteCall \cup PurgeCall
    BY <1>3, OverIs
  <2>2. r \in WriteCall \cup PurgeCall => r.todo \in SUBSET Artifact /\ r.stored \in SUBSET Artifact
    BY DEF WriteCall, PurgeCall
  <2>3. QED
    BY <2>1, <2>2 DEF HandOf
<1>6. \A a \in Artifact : Busy(w)' /\ a \in HandOf(r) =>
        (Busy(w) /\ a \in Hand(w)) \/ (r.pc = "put" /\ artUsed < a /\ a <= artUsed')
  BY <1>3 DEF HandOf, Hand, Writing, Busy
<1>7. artUsed \in Nat /\ artUsed' \in Nat /\ \A a \in Artifact : a \in Nat
  BY ArtBounds DEF ArtInv, ArtTypes, Artifact
<1>8. EntriesHaveRows'
  BY <1>2 DEF ArtInv, EntriesHaveRows
<1>9. \A v \in ArtWriter : Writing(v) /\ v # w => Hand(v) \cap bytes \subseteq bytes'
  <2> SUFFICES ASSUME NEW v \in ArtWriter, Writing(v), v # w, NEW a \in Hand(v) \cap bytes
               PROVE  a \in bytes'
    OBVIOUS
  <2>1. Busy(w) => Hand(w) \cap Hand(v) = {}
    BY DEF ArtInv, HandsAreFree
  <2>2. QED
    BY <2>1 DEF Busy, Hand
<1>10. HandsAreFree'
  <2> SUFFICES ASSUME NEW u \in ArtWriter, Writing(u)'
               PROVE  /\ calls'[u].stored \subseteq bytes'
                      /\ \A a \in Hand(u)' : ~Named(a)
                      /\ \A v \in ArtWriter \ {u} : Busy(v)' => Hand(v)' \cap Hand(u)' = {}
    BY <1>2 DEF HandsAreFree
  <2>1. CASE u # w
    <3>1. /\ Writing(u) /\ calls'[u] = calls[u] /\ Hand(u)' = Hand(u) /\ Busy(u)
          /\ Hand(u) \in SUBSET Artifact
      BY <1>1, <1>3, <2>1, BusyCall DEF Writing, Busy, ArtInv, Hand
    <3>2. calls[u].stored \subseteq bytes'
      BY <1>9, <2>1, <3>1 DEF ArtInv, HandsAreFree, Hand
    <3>3. Busy(w)' => Hand(w)' \cap Hand(u) = {}
      <4> SUFFICES ASSUME Busy(w)', NEW a \in Hand(w)', a \in Hand(u) PROVE FALSE
        OBVIOUS
      <4>1. a \in Artifact /\ a \in HandOf(r)
        BY <1>3, <3>1
      <4>2. CASE Busy(w) /\ a \in Hand(w)
        BY <2>1, <3>1, <4>2 DEF ArtInv, HandsAreFree
      <4>3. CASE artUsed < a
        BY <1>7, <3>1, <4>1, <4>3 DEF ArtInv, NewIdsAreFree
      <4>4. QED
        BY <1>6, <4>1, <4>2, <4>3
    <3>4. QED
      BY <1>3, <2>1, <3>1, <3>2, <3>3 DEF ArtInv, HandsAreFree
  <2>2. CASE u = w
    <3>1. r.pc = "put" /\ r.stored \subseteq bytes' /\ Hand(u)' = HandOf(r) /\ Busy(w)'
      BY <1>3, <2>2
    <3>2. CASE Writing(w) /\ HandOf(r) \subseteq Hand(w)
      BY <1>1, <1>3, <2>2, <3>1, <3>2 DEF ArtInv, HandsAreFree
    <3>3. CASE \A a \in HandOf(r) : artUsed < a /\ a <= artUsed'
      <4>1. \A a \in HandOf(r) : a \in Artifact /\ a > artUsed
        BY <1>5, <1>7, <3>1, <3>3
      <4>2. QED
        BY <1>1, <1>3, <2>2, <3>1, <4>1 DEF ArtInv, NewIdsAreFree
    <3>4. QED
      BY <3>1, <3>2, <3>3
  <2>3. QED
    BY <2>1, <2>2
<1>11. RemovalsAreFree'
  <2> SUFFICES ASSUME NEW u \in ArtWriter, calls'[u].pc = "clean"
               PROVE  /\ calls'[u].todo = {}
                      /\ \A a \in calls'[u].stored : ~Named(a) \/ a \in lost'
    BY <1>2 DEF RemovalsAreFree
  <2>1. CASE u # w
    BY <1>1, <2>1 DEF ArtInv, RemovalsAreFree
  <2>2. CASE u = w
    <3>1. r.todo = {} /\ Busy(w) /\ r.stored \subseteq calls[w].stored /\ calls'[u] = r
      BY <1>1, <2>2
    <3>2. \A a \in calls[w].stored : ~Named(a) \/ a \in lost
      BY <3>1 DEF ArtInv, RemovalsAreFree, HandsAreFree, Busy, Writing, Hand
    <3>3. QED
      BY <3>1, <3>2
  <2>3. QED
    BY <2>1, <2>2
<1>12. NewIdsAreFree'
  <2> SUFFICES ASSUME NEW a \in Artifact, a > artUsed'
               PROVE  ~Named(a) /\ \A v \in ArtWriter : Busy(v)' => a \notin Hand(v)'
    BY <1>2 DEF NewIdsAreFree
  <2>1. a > artUsed /\ ~(a <= artUsed')
    BY <1>7
  <2>2. ~Named(a) /\ \A v \in ArtWriter : Busy(v) => a \notin Hand(v)
    BY <2>1 DEF ArtInv, NewIdsAreFree
  <2>3. Busy(w)' => a \notin Hand(w)'
    BY <1>3, <1>6, <2>1, <2>2
  <2>4. QED
    BY <1>3, <2>2, <2>3
<1>13. RowsCanBeRead'
  <2>1. \A a \in Artifact : Named(a) => a \in bytes' \cup lost'
    <3> SUFFICES ASSUME NEW a \in Artifact, Named(a), a \notin bytes', a \notin lost PROVE FALSE
      OBVIOUS
    <3>1. a \in bytes
      BY DEF ArtInv, BytesAgree, RowsCanBeRead
    <3>2. calls[w].pc = "clean" /\ a \in calls[w].stored
      BY <3>1
    <3>3. QED
      BY <3>2 DEF ArtInv, RemovalsAreFree
  <2>2. \A x \in entries : x[2] \in Artifact
    BY DEF ArtInv, ArtTypes
  <2>3. QED
    BY <1>2, <1>8, <2>1, <2>2 DEF RowsCanBeRead, EntriesHaveRows
<1>14. BytesAreAccountedFor'
  <2> SUFFICES ASSUME NEW a \in bytes', a \notin lost', ~Named(a)
               PROVE  \E v \in ArtWriter : calls'[v].pc \in {"put", "clean"} /\ a \in calls'[v].stored
    BY <1>2 DEF BytesAreAccountedFor
  <2>1. CASE a \notin bytes
    BY <1>1, <2>1
  <2>2. CASE a \in bytes
    <3>1. PICK v \in ArtWriter : calls[v].pc \in {"put", "clean"} /\ a \in calls[v].stored
      BY <2>2 DEF ArtInv, BytesAgree, BytesAreAccountedFor
    <3>2. CASE v = w
      BY <1>1, <3>1, <3>2 DEF Busy
    <3>3. CASE v # w
      BY <1>1, <3>1, <3>3
    <3>4. QED
      BY <3>2, <3>3
  <2>3. QED
    BY <2>1, <2>2
<1>15. QED
  BY <1>2, <1>8, <1>10, <1>11, <1>12, <1>13, <1>14 DEF ArtInv, BytesAgree

LEMMA FaultStep == ArtTypes /\ Fault => artFaults' \in 0..MaxArtFaults
BY ArtBounds DEF ArtTypes, Fault

LEMMA BeginWriteInv ==
    ASSUME ArtInv, NEW w \in ArtWriter, BeginWrite(w)
    PROVE  ArtInv'
<1>1. PICK kind \in ArtKind, c \in ArtChat, n \in {1, 2} :
        /\ calls[w] = Resting /\ artUsed + n <= MaxArtifacts
        /\ UNCHANGED <<chats, artRows, entries, bytes, lost, artFaults>>
        /\ \/ Become(w, Over) /\ UNCHANGED artUsed
           \/ /\ Become(w, [pc |-> "put", kind |-> kind, chat |-> c,
                            todo |-> (artUsed + 1)..(artUsed + n), stored |-> {}])
              /\ artUsed' = artUsed + n
  BY DEF BeginWrite
<1>2. ~Busy(w) /\ calls[w].pc # "clean"
  BY <1>1, OverIs DEF Busy
<1>3. bytes' \subseteq Artifact /\ lost' \subseteq Artifact /\ artFaults' \in 0..MaxArtFaults
      /\ artUsed \in 0..MaxArtifacts
  BY <1>1 DEF ArtInv, ArtTypes
<1>4. CASE Become(w, Over) /\ UNCHANGED artUsed
  BY <1>1, <1>2, <1>3, <1>4, OverIs, MoveInv
<1>5. CASE /\ Become(w, [pc |-> "put", kind |-> kind, chat |-> c,
                         todo |-> (artUsed + 1)..(artUsed + n), stored |-> {}])
           /\ artUsed' = artUsed + n
  <2> DEFINE r == [pc |-> "put", kind |-> kind, chat |-> c,
                   todo |-> (artUsed + 1)..(artUsed + n), stored |-> {}]
  <2>1. /\ (artUsed + 1)..(artUsed + n) \in SUBSET Artifact
        /\ \A a \in (artUsed + 1)..(artUsed + n) : artUsed < a /\ a <= artUsed'
        /\ artUsed' \in 0..MaxArtifacts /\ artUsed <= artUsed'
    BY <1>1, <1>3, <1>5, ArtBounds DEF Artifact
  <2>2. /\ r \in WriteCall /\ r.pc = "put" /\ r.stored = {}
        /\ HandOf(r) = (artUsed + 1)..(artUsed + n)
    BY <2>1 DEF WriteCall, HandOf
  <2>3. Become(w, r)
    BY <1>5
  <2> HIDE DEF r
  <2>4. QED
    BY <1>1, <1>2, <1>3, <2>1, <2>2, <2>3, MoveInv
<1>6. QED
  BY <1>1, <1>4, <1>5

LEMMA LeastOf ==
    ASSUME NEW S \in SUBSET Artifact, S # {}
    PROVE  (CHOOSE x \in S : \A y \in S : x <= y) \in S
<1>1. S \in SUBSET Nat
  BY DEF Artifact
<1>2. \E x \in S : \A y \in S : <<y, x>> \notin OpToRel(<, Nat)
  BY <1>1, NatLessThanWellFounded, WFMin
<1>3. PICK x \in S : \A y \in S : ~(y < x)
  BY <1>1, <1>2 DEF OpToRel
<1>4. \A y \in S : x <= y
  BY <1>1, <1>3, SMT
<1>5. QED
  BY <1>4

LEMMA PutInv ==
    ASSUME ArtInv, NEW w \in ArtWriter, Put(w)
    PROVE  ArtInv'
<1>1. Writing(w) /\ calls[w].pc = "put" /\ calls[w] \in WriteCall /\ calls[w].todo \in SUBSET Artifact
      /\ calls[w].stored \in SUBSET Artifact /\ calls[w].todo # {} /\ Busy(w)
  BY BusyCall DEF Put, Writing, Busy, ArtInv
<1>2. PICK a \in calls[w].todo :
        /\ bytes' = bytes \cup {a}
        /\ Become(w, [calls[w] EXCEPT !.todo = @ \ {a}, !.stored = @ \cup {a}])
        /\ UNCHANGED <<chats, artRows, entries, lost, artUsed, artFaults>>
  BY <1>1, LeastOf DEF Put
<1> DEFINE T == calls[w].todo \ {a}
           S == calls[w].stored \cup {a}
           r == [calls[w] EXCEPT !.todo = T, !.stored = S]
<1>3. Become(w, r) /\ T \in SUBSET Artifact /\ S \in SUBSET Artifact
  BY <1>1, <1>2
<1>4. r \in WriteCall /\ r.pc = "put" /\ r.todo = T /\ r.stored = S
  <2> HIDE DEF T, S
  <2>1. QED
    BY <1>1, <1>3 DEF WriteCall
<1> HIDE DEF r
<1>5. HandOf(r) \subseteq Hand(w) /\ r.stored \subseteq bytes' /\ a \in r.stored
      /\ calls[w].stored \subseteq r.stored
  BY <1>1, <1>2, <1>4 DEF HandOf, Hand, ArtInv, HandsAreFree
<1>6. /\ bytes' \subseteq Artifact /\ lost' \subseteq Artifact /\ artFaults' \in 0..MaxArtFaults
      /\ artUsed' \in 0..MaxArtifacts /\ artUsed <= artUsed'
  BY <1>1, <1>2, ArtBounds DEF ArtInv, ArtTypes
<1>7. QED
  BY <1>1, <1>2, <1>3, <1>4, <1>5, <1>6, MoveInv

LEMMA PutFailsInv ==
    ASSUME ArtInv, NEW w \in ArtWriter, PutFails(w)
    PROVE  ArtInv'
<1> DEFINE r == [calls[w] EXCEPT !.pc = "clean", !.todo = {}]
<1>1. Writing(w) /\ calls[w] \in WriteCall /\ calls[w].todo \in SUBSET Artifact
      /\ calls[w].stored \in SUBSET Artifact /\ Busy(w)
  BY BusyCall DEF PutFails, Writing, Busy, ArtInv
<1>2. PICK kept \in SUBSET calls[w].todo :
        /\ bytes' = bytes \cup kept /\ lost' = lost \cup kept
        /\ Become(w, r) /\ Fault /\ UNCHANGED <<chats, artRows, entries, artUsed>>
  BY DEF PutFails
<1>3. r \in WriteCall /\ r.pc = "clean" /\ r.todo = {} /\ r.stored = calls[w].stored
  BY <1>1, NextCall
<1> HIDE DEF r
<1>4. /\ bytes' \subseteq Artifact /\ lost' \subseteq Artifact /\ artFaults' \in 0..MaxArtFaults
      /\ artUsed' \in 0..MaxArtifacts /\ artUsed <= artUsed'
  BY <1>1, <1>2, FaultStep, ArtBounds DEF ArtInv, ArtTypes
<1>5. QED
  BY <1>1, <1>2, <1>3, <1>4, MoveInv

\* A refused transaction, or one that was rolled back.
LEMMA RollbackInv ==
    ASSUME ArtInv, NEW w \in ArtWriter, Writing(w), calls[w].todo = {},
           Become(w, [calls[w] EXCEPT !.pc = "clean"]),
           UNCHANGED <<chats, artRows, entries, bytes, lost, artUsed>>,
           artFaults' \in 0..MaxArtFaults
    PROVE  ArtInv'
<1> DEFINE r == [calls[w] EXCEPT !.pc = "clean"]
<1>1. calls[w] \in WriteCall /\ Busy(w)
  BY BusyCall DEF Writing, Busy, ArtInv
<1>2. r \in WriteCall /\ r.pc = "clean" /\ r.todo = {} /\ r.stored = calls[w].stored
  BY <1>1, NextCall
<1>3. Become(w, r)
  OBVIOUS
<1> HIDE DEF r
<1>4. /\ bytes' \subseteq Artifact /\ lost' \subseteq Artifact
      /\ artUsed' \in 0..MaxArtifacts /\ artUsed <= artUsed'
  BY ArtBounds DEF ArtInv, ArtTypes
<1>5. QED
  BY <1>1, <1>2, <1>3, <1>4, MoveInv

LEMMA RemoveBytesInv ==
    ASSUME ArtInv, NEW w \in ArtWriter, RemoveBytes(w)
    PROVE  ArtInv'
<1>1. /\ calls[w].pc = "clean" /\ Busy(w) /\ calls[w] \in WriteCall \cup PurgeCall
      /\ calls[w].stored \in SUBSET Artifact /\ calls[w].todo = {}
  BY BusyCall DEF RemoveBytes, Busy, ArtInv, RemovalsAreFree
<1>2. PICK a \in calls[w].stored :
        /\ Become(w, [calls[w] EXCEPT !.stored = @ \ {a}])
        /\ \/ bytes' = bytes \ {a} /\ UNCHANGED <<lost, artFaults>>
           \/ Fault /\ lost' = lost \cup {a} /\ UNCHANGED bytes
        /\ UNCHANGED <<chats, artRows, entries, artUsed>>
  BY DEF RemoveBytes
<1> DEFINE S == calls[w].stored \ {a}
           r == [calls[w] EXCEPT !.stored = S]
<1>3. Become(w, r) /\ S \in SUBSET Artifact
  BY <1>1, <1>2
<1>4. r \in WriteCall \cup PurgeCall /\ r.pc = "clean" /\ r.todo = {} /\ r.stored = S
  <2> HIDE DEF S
  <2>1. QED
    BY <1>1, <1>3, CleanedCall
<1> HIDE DEF r
<1>5. /\ bytes' \subseteq Artifact /\ lost' \subseteq Artifact /\ artFaults' \in 0..MaxArtFaults
      /\ artUsed' \in 0..MaxArtifacts /\ artUsed <= artUsed' /\ lost \subseteq lost'
  BY <1>1, <1>2, FaultStep, ArtBounds DEF ArtInv, ArtTypes
<1>6. QED
  BY <1>1, <1>2, <1>3, <1>4, <1>5, MoveInv

LEMMA CallEndsInv ==
    ASSUME ArtInv, NEW w \in ArtWriter, EndCall(w) \/ CallCrashes(w)
    PROVE  ArtInv'
<1>1. /\ Busy(w) /\ Become(w, Over) /\ UNCHANGED <<chats, artRows, entries, bytes, artUsed>>
      /\ lost \subseteq lost' /\ \A a \in calls[w].stored : a \in lost'
      /\ lost' \subseteq lost \cup calls[w].stored /\ (UNCHANGED artFaults \/ Fault)
  BY DEF EndCall, CallCrashes, Busy
<1>2. calls[w].stored \in SUBSET Artifact
  BY <1>1, BusyCall DEF ArtInv
<1>3. /\ bytes' \subseteq Artifact /\ lost' \subseteq Artifact /\ artFaults' \in 0..MaxArtFaults
      /\ artUsed' \in 0..MaxArtifacts /\ artUsed <= artUsed'
  BY <1>1, <1>2, FaultStep, ArtBounds DEF ArtInv, ArtTypes
<1>4. QED
  BY <1>1, <1>3, OverIs, MoveInv

\* The rows of a write are inserted, and its writer hears of it or not.
LEMMA InsertInv ==
    ASSUME ArtInv, NEW w \in ArtWriter, NEW r \in {Over} \cup WriteCall, Writing(w),
           calls[w].todo = {}, Accepts(w), InsertRows(w), Become(w, r),
           UNCHANGED <<bytes, artUsed>>, artFaults' \in 0..MaxArtFaults,
           \/ r = Over /\ UNCHANGED lost
           \/ /\ r.pc = "clean" /\ r.todo = {} /\ r.stored = calls[w].stored
              /\ lost' = lost \cup calls[w].stored
    PROVE  ArtInv'
<1> DEFINE s == calls[w].stored
           k == calls[w].kind
           c == calls[w].chat
<1>1. /\ calls[w] \in WriteCall /\ s \in SUBSET Artifact /\ Busy(w) /\ Hand(w) = s
      /\ k \in ArtKind /\ c \in ArtChat
  BY BusyCall DEF Writing, Busy, Hand, ArtInv
<1>2. /\ calls' \in [ArtWriter -> {Resting, Over} \cup WriteCall \cup PurgeCall]
      /\ calls'[w] = r /\ \A v \in ArtWriter \ {w} : calls'[v] = calls[v]
  BY BecomeStep DEF ArtInv
<1>3. /\ artRows' \in [Artifact -> ArtRow \cup {NoArtifact}]
      /\ \A a \in s : artRows'[a].kind = k /\ Named(a)'
      /\ \A a \in Artifact \ s : artRows'[a] = artRows[a] /\ Named(a)' = Named(a)
  <2>1. [kind |-> k, chat |-> c] \in ArtRow /\ [kind |-> k, chat |-> c] # NoArtifact
    <3>1. "none" \notin ArtKind
      BY DEF ArtKind
    <3>2. [kind |-> k, chat |-> c].kind # NoArtifact.kind
      BY <1>1, <3>1 DEF NoArtifact
    <3>3. QED
      BY <1>1, <3>2 DEF ArtRow
  <2>2. artRows' = [a \in Artifact |-> IF a \in s THEN [kind |-> k, chat |-> c] ELSE artRows[a]]
    BY DEF InsertRows
  <2>3. \A a \in s : artRows'[a] = [kind |-> k, chat |-> c]
    BY <1>1, <2>2
  <2>4. \A a \in Artifact \ s : artRows'[a] = artRows[a]
    BY <2>2
  <2>5. QED
    BY <2>1, <2>2, <2>3, <2>4, <1>1 DEF ArtInv, ArtTypes, Named
<1>4. /\ chats' \in [ArtChat -> {"absent", "live", "deleted", "purged"}]
      /\ entries' \subseteq ArtChat \X Artifact
      /\ \A x \in entries' : x \in entries \/ (k = "project" /\ x[2] \in s)
  BY <1>1 DEF InsertRows, ArtInv, ArtTypes
<1> HIDE DEF s, k, c
<1>5. \A a \in Artifact : a \in s => ~Named(a) /\ a \in bytes
  BY <1>1 DEF ArtInv, HandsAreFree, s
<1>6. ArtTypes'
  BY <1>1, <1>2, <1>3, <1>4 DEF ArtInv, ArtTypes, s
<1>7. EntriesHaveRows'
  <2> SUFFICES ASSUME NEW x \in entries'
               PROVE  Named(x[2])' /\ artRows'[x[2]].kind = "project"
    BY DEF EntriesHaveRows, Named
  <2>1. CASE k = "project" /\ x[2] \in s
    BY <1>3, <2>1
  <2>2. CASE x \in entries
    <3>1. x[2] \in Artifact /\ Named(x[2]) /\ artRows[x[2]].kind = "project"
      BY <2>2 DEF ArtInv, ArtTypes, EntriesHaveRows
    <3>2. x[2] \notin s
      BY <1>5, <3>1
    <3>3. QED
      BY <1>3, <3>1, <3>2
  <2>3. QED
    BY <1>4, <2>1, <2>2
<1>8. ~Writing(w)' /\ (Busy(w)' => Hand(w)' = s /\ calls'[w].pc = "clean")
  BY <1>2, OverIs DEF Writing, Busy, Hand, s
<1>9. \A v \in ArtWriter \ {w} :
        Writing(v)' = Writing(v) /\ Busy(v)' = Busy(v) /\ Hand(v)' = Hand(v)
  BY <1>2 DEF Writing, Busy, Hand
<1>10. HandsAreFree'
  <2> SUFFICES ASSUME NEW u \in ArtWriter, Writing(u)'
               PROVE  /\ calls'[u].stored \subseteq bytes
                      /\ \A a \in Hand(u)' : ~Named(a)'
                      /\ \A v \in ArtWriter \ {u} : Busy(v)' => Hand(v)' \cap Hand(u)' = {}
    BY DEF HandsAreFree, Named, Hand
  <2>1. u # w /\ Writing(u) /\ Busy(u) /\ Hand(u)' = Hand(u) /\ calls'[u] = calls[u]
    BY <1>2, <1>8, <1>9 DEF Writing, Busy
  <2>2. Hand(u) \in SUBSET Artifact
    BY <2>1, BusyCall DEF ArtInv, Hand
  <2>3. Hand(w) \cap Hand(u) = {}
    BY <1>1, <2>1 DEF ArtInv, HandsAreFree
  <2>4. \A a \in Hand(u) : ~Named(a)'
    BY <1>1, <1>3, <2>1, <2>2, <2>3 DEF ArtInv, HandsAreFree
  <2>5. QED
    BY <1>1, <1>8, <1>9, <2>1, <2>3, <2>4 DEF ArtInv, HandsAreFree
<1>11. RemovalsAreFree'
  <2> SUFFICES ASSUME NEW u \in ArtWriter, calls'[u].pc = "clean"
               PROVE  /\ calls'[u].todo = {}
                      /\ \A a \in calls'[u].stored : ~Named(a)' \/ a \in lost'
    BY DEF RemovalsAreFree, Named
  <2>1. CASE u = w
    BY <1>2, <2>1, OverIs
  <2>2. CASE u # w
    <3>1. calls'[u] = calls[u] /\ calls[u].pc = "clean" /\ Busy(u) /\ lost \subseteq lost'
      BY <1>2, <2>2 DEF Busy
    <3>2. calls[u].stored \in SUBSET Artifact /\ Hand(u) \cap s = {}
      BY <1>1, <2>2, <3>1, BusyCall DEF ArtInv, HandsAreFree
    <3>3. calls[u].stored \cap s = {}
      BY <3>2 DEF Hand
    <3>4. QED
      BY <1>3, <3>1, <3>2, <3>3 DEF ArtInv, RemovalsAreFree
  <2>3. QED
    BY <2>1, <2>2
<1>12. NewIdsAreFree'
  <2>1. \A a \in Artifact : a > artUsed => a \notin s
    BY <1>1 DEF ArtInv, NewIdsAreFree
  <2>2. \A a \in Artifact : a > artUsed => ~Named(a)'
    BY <1>3, <2>1 DEF ArtInv, NewIdsAreFree
  <2>3. \A a \in Artifact, v \in ArtWriter : a > artUsed /\ Busy(v)' => a \notin Hand(v)'
    BY <1>8, <1>9, <2>1 DEF ArtInv, NewIdsAreFree
  <2>4. QED
    BY <2>2, <2>3 DEF NewIdsAreFree, Named, Busy, Hand
<1>13. RowsCanBeRead'
  <2>1. lost \subseteq lost' /\ bytes' = bytes
    OBVIOUS
  <2>2. \A a \in Artifact : Named(a)' => a \in bytes \cup lost'
    BY <1>3, <1>5, <2>1 DEF ArtInv, BytesAgree, RowsCanBeRead
  <2>3. \A x \in entries' : x[2] \in Artifact /\ Named(x[2])'
    BY <1>4, <1>7 DEF EntriesHaveRows, Named
  <2>4. QED
    BY <2>1, <2>2, <2>3 DEF RowsCanBeRead, Named
<1>14. BytesAreAccountedFor'
  <2> SUFFICES ASSUME NEW a \in bytes, a \notin lost', ~Named(a)'
               PROVE  \E v \in ArtWriter : calls'[v].pc \in {"put", "clean"} /\ a \in calls'[v].stored
    BY DEF BytesAreAccountedFor, Named
  <2>1. a \in Artifact /\ a \notin s /\ ~Named(a) /\ a \notin lost
    BY <1>3 DEF ArtInv, ArtTypes
  <2>2. PICK v \in ArtWriter : calls[v].pc \in {"put", "clean"} /\ a \in calls[v].stored
    BY <2>1 DEF ArtInv, BytesAgree, BytesAreAccountedFor
  <2>3. v # w
    BY <2>1, <2>2 DEF s
  <2>4. QED
    BY <1>2, <2>2, <2>3
<1>15. QED
  BY <1>6, <1>7, <1>10, <1>11, <1>12, <1>13, <1>14 DEF ArtInv, BytesAgree

LEMMA NameInv ==
    ASSUME ArtInv, NEW w \in ArtWriter, NameThem(w) \/ NameFails(w)
    PROVE  ArtInv'
<1> DEFINE r == [calls[w] EXCEPT !.pc = "clean"]
<1>1. /\ Writing(w) /\ calls[w].todo = {} /\ UNCHANGED <<bytes, artUsed>>
      /\ UNCHANGED artFaults \/ Fault
  BY DEF NameThem, NameFails, Writing
<1>2. artFaults' \in 0..MaxArtFaults
  BY <1>1, FaultStep DEF ArtInv, ArtTypes
<1>3. CASE Become(w, r) /\ UNCHANGED <<chats, artRows, entries, lost>>
  BY <1>1, <1>2, <1>3, RollbackInv
<1>4. CASE Accepts(w) /\ InsertRows(w) /\ Become(w, Over) /\ UNCHANGED lost
  BY <1>1, <1>2, <1>4, InsertInv
<1>5. CASE Accepts(w) /\ InsertRows(w) /\ Become(w, r) /\ lost' = lost \cup calls[w].stored
  <2>1. r \in WriteCall /\ r.pc = "clean" /\ r.todo = {} /\ r.stored = calls[w].stored
    BY <1>1, NextCall, BusyCall DEF ArtInv
  <2> HIDE DEF r
  <2>2. QED
    BY <1>1, <1>2, <1>5, <2>1, InsertInv
<1>6. QED
  BY <1>3, <1>4, <1>5 DEF NameThem, NameFails

\* Steps that make, hide and bring back chats, and fork one.
LEMMA ChatsInv ==
    ASSUME ArtInv, UNCHANGED <<artRows, bytes, calls, lost, artUsed, artFaults>>,
           chats' \in [ArtChat -> {"absent", "live", "deleted", "purged"}],
           entries' \subseteq ArtChat \X Artifact,
           \A x \in entries' : \E y \in entries : x[2] = y[2]
    PROVE  ArtInv'
<1>1. ArtTypes'
  BY DEF ArtInv, ArtTypes
<1>2. \A x \in entries' : Named(x[2]) /\ artRows[x[2]].kind = "project" /\ x[2] \in bytes \cup lost
  BY DEF ArtInv, EntriesHaveRows, BytesAgree, RowsCanBeRead
<1>3. EntriesHaveRows' /\ RowsCanBeRead'
  BY <1>2 DEF EntriesHaveRows, RowsCanBeRead, ArtInv, BytesAgree, Named
<1>4. HandsAreFree' /\ RemovalsAreFree' /\ NewIdsAreFree' /\ BytesAreAccountedFor'
  BY DEF ArtInv, BytesAgree, HandsAreFree, RemovalsAreFree, NewIdsAreFree, BytesAreAccountedFor,
     Named, Writing, Busy, Hand
<1>5. QED
  BY <1>1, <1>3, <1>4 DEF ArtInv, BytesAgree

LEMMA ChatStepsInv ==
    ASSUME ArtInv, Fork \/ CreateChat \/ RemoveChat \/ BringBack
    PROVE  ArtInv'
<1>1. UNCHANGED <<artRows, bytes, calls, lost, artUsed, artFaults>>
  BY DEF Fork, CreateChat, RemoveChat, BringBack
<1>2. chats' \in [ArtChat -> {"absent", "live", "deleted", "purged"}]
  BY DEF ArtInv, ArtTypes, Fork, CreateChat, RemoveChat, BringBack
<1>3. /\ entries' \subseteq ArtChat \X Artifact
      /\ \A x \in entries' : \E y \in entries : x[2] = y[2]
  <2>1. CASE Fork
    <3>1. PICK from \in ArtChat, to \in ArtChat : entries' = entries \cup ({to} \X FilesOf(from))
      BY <2>1 DEF Fork
    <3>2. \A a \in FilesOf(from) : a \in Artifact /\ <<from, a>> \in entries
      BY DEF FilesOf
    <3>3. \A x \in {to} \X FilesOf(from) : x \in ArtChat \X Artifact /\ <<from, x[2]>> \in entries
      BY <3>2
    <3>4. \A x \in {to} \X FilesOf(from) : \E y \in entries : x[2] = y[2]
      <4> SUFFICES ASSUME NEW x \in {to} \X FilesOf(from)
                   PROVE  \E y \in entries : x[2] = y[2]
        OBVIOUS
      <4>1. <<from, x[2]>> \in entries /\ <<from, x[2]>>[2] = x[2]
        BY <3>3
      <4>2. QED
        BY <4>1
    <3>5. QED
      BY <3>1, <3>3, <3>4 DEF ArtInv, ArtTypes
  <2>2. CASE UNCHANGED entries
    BY <2>2 DEF ArtInv, ArtTypes
  <2>3. QED
    BY <2>1, <2>2 DEF CreateChat, RemoveChat, BringBack
<1>4. QED
  BY <1>1, <1>2, <1>3, ChatsInv

\* What goes with the chats of a purge.
LEMMA GoneWith ==
    ASSUME NEW dead \in SUBSET ArtChat, NEW a
    PROVE  /\ a \in UNION {RowsIn(c) : c \in dead} <=> \E c \in dead : a \in RowsIn(c)
           /\ a \in Unshared(dead) <=>
                (\E c \in dead : a \in FilesOf(c)) /\ ~\E c \in ArtChat \ dead : a \in FilesOf(c)
<1>1. \A D : a \in UNION {RowsIn(c) : c \in D} <=> \E c \in D : a \in RowsIn(c)
  OBVIOUS
<1>2. \A D : a \in UNION {FilesOf(c) : c \in D} <=> \E c \in D : a \in FilesOf(c)
  OBVIOUS
<1>3. a \in Unshared(dead) <=> /\ a \in UNION {FilesOf(c) : c \in dead}
                              /\ a \notin UNION {FilesOf(c) : c \in ArtChat \ dead}
  BY DEF Unshared
<1>4. a \in UNION {FilesOf(c) : c \in ArtChat \ dead} <=> \E c \in ArtChat \ dead : a \in FilesOf(c)
  BY <1>2
<1>5. QED
  BY <1>1, <1>2, <1>3, <1>4

\* A purge takes rows that no remaining version names, and its caller the bytes of them.
LEMMA PurgeInv ==
    ASSUME ArtInv, NEW w \in ArtWriter, Purge(w)
    PROVE  ArtInv'
<1>1. PICK dead \in SUBSET {c \in ArtChat : chats[c] = "deleted"} :
        LET gone == (UNION {RowsIn(c) : c \in dead}) \cup Unshared(dead) IN
        /\ calls[w] = Resting
        /\ chats' = [c \in ArtChat |-> IF c \in dead THEN "purged" ELSE chats[c]]
        /\ artRows' = [a \in Artifact |-> IF a \in gone THEN NoArtifact ELSE artRows[a]]
        /\ entries' = {x \in entries : x[1] \notin dead}
        /\ \/ /\ Become(w, [pc |-> "clean", kind |-> "purge", todo |-> {}, stored |-> gone])
              /\ UNCHANGED <<lost, artFaults>>
           \/ Fault /\ lost' = lost \cup gone /\ Become(w, Over)
        /\ UNCHANGED <<bytes, artUsed>>
  BY DEF Purge
<1> DEFINE gone == (UNION {RowsIn(c) : c \in dead}) \cup Unshared(dead)
           p == [pc |-> "clean", kind |-> "purge", todo |-> {}, stored |-> gone]
<1>2. ~Busy(w) /\ ~Writing(w)
  BY <1>1, OverIs DEF Busy, Writing
<1>21. dead \in SUBSET ArtChat
  OBVIOUS
<1>22. \A a : a \in gone <=> (\E c \in dead : a \in RowsIn(c)) \/ a \in Unshared(dead)
  BY <1>21, GoneWith
<1>3. \A a \in gone : a \in Artifact /\ Named(a)
  <2>1. \A a \in Unshared(dead) : \E x \in entries : x[2] = a
    <3> SUFFICES ASSUME NEW a \in Unshared(dead) PROVE \E x \in entries : x[2] = a
      OBVIOUS
    <3>1. PICK c \in dead : a \in FilesOf(c)
      BY DEF Unshared
    <3>2. <<c, a>> \in entries /\ <<c, a>>[2] = a
      BY <3>1 DEF FilesOf
    <3>3. QED
      BY <3>2
  <2>2. \A x \in entries : x[2] \in Artifact /\ Named(x[2])
    BY DEF ArtInv, ArtTypes, EntriesHaveRows
  <2>3. \A c \in dead : \A a \in RowsIn(c) : a \in Artifact /\ Named(a)
    BY DEF RowsIn
  <2>4. QED
    BY <1>22, <2>1, <2>2, <2>3
<1>4. \A x \in entries' : x \in entries /\ x[2] \notin gone
  <2> SUFFICES ASSUME NEW x \in entries, x[1] \notin dead PROVE x[2] \notin gone
    BY <1>1
  <2>1. x[1] \in ArtChat /\ x[2] \in Artifact /\ x = <<x[1], x[2]>>
        /\ artRows[x[2]].kind = "project"
    BY DEF ArtInv, ArtTypes, EntriesHaveRows
  <2>2. \A c \in dead : x[2] \notin RowsIn(c)
    BY <2>1 DEF RowsIn
  <2>3. x[2] \in FilesOf(x[1])
    BY <2>1 DEF FilesOf
  <2>4. x[2] \notin Unshared(dead)
    BY <1>21, <2>1, <2>3, GoneWith
  <2>5. QED
    BY <1>22, <2>2, <2>4
<1>5. /\ p \in PurgeCall /\ p.pc = "clean" /\ p.todo = {} /\ p.stored = gone
      /\ gone \in SUBSET Artifact
  BY <1>3 DEF PurgeCall
<1> HIDE DEF gone, p
<1>6. \/ Become(w, p) /\ UNCHANGED <<lost, artFaults>>
      \/ Become(w, Over) /\ Fault /\ lost' = lost \cup gone
  BY <1>1 DEF gone, p
<1>7. /\ calls' \in [ArtWriter -> {Resting, Over} \cup WriteCall \cup PurgeCall]
      /\ \A v \in ArtWriter \ {w} : calls'[v] = calls[v]
      /\ \/ calls'[w] = p /\ lost' = lost
         \/ calls'[w] = Over /\ lost' = lost \cup gone
  BY <1>5, <1>6, BecomeStep DEF ArtInv
<1>8. /\ artRows' = [a \in Artifact |-> IF a \in gone THEN NoArtifact ELSE artRows[a]]
      /\ UNCHANGED <<bytes, artUsed>>
      /\ chats' \in [ArtChat -> {"absent", "live", "deleted", "purged"}]
  BY <1>1 DEF gone, ArtInv, ArtTypes
<1>9. /\ \A a \in gone : ~Named(a)'
      /\ \A a \in Artifact \ gone : artRows'[a] = artRows[a] /\ Named(a)' = Named(a)
  BY <1>5, <1>8 DEF Named
<1>10. artFaults' \in 0..MaxArtFaults
  BY <1>6, FaultStep DEF ArtInv, ArtTypes
<1>11. ArtTypes'
  BY <1>4, <1>5, <1>7, <1>8, <1>10 DEF ArtInv, ArtTypes
<1>12. EntriesHaveRows'
  BY <1>4, <1>9 DEF ArtInv, ArtTypes, EntriesHaveRows, Named
<1>13. ~Writing(w)' /\ (Busy(w)' => calls'[w] = p /\ Hand(w)' = gone)
  BY <1>5, <1>7, OverIs DEF Writing, Busy, Hand
<1>14. \A v \in ArtWriter \ {w} :
         Writing(v)' = Writing(v) /\ Busy(v)' = Busy(v) /\ Hand(v)' = Hand(v)
  BY <1>7 DEF Writing, Busy, Hand
<1>15. \A a \in Artifact : ~Named(a) => ~Named(a)'
  BY <1>9
<1>16. HandsAreFree'
  <2> SUFFICES ASSUME NEW u \in ArtWriter, Writing(u)'
               PROVE  /\ calls'[u].stored \subseteq bytes
                      /\ \A a \in Hand(u)' : ~Named(a)'
                      /\ \A v \in ArtWriter \ {u} : Busy(v)' => Hand(v)' \cap Hand(u)' = {}
    BY <1>8 DEF HandsAreFree, Named, Hand
  <2>1. u # w /\ Writing(u) /\ Busy(u) /\ Hand(u)' = Hand(u) /\ calls'[u] = calls[u]
    BY <1>7, <1>13, <1>14 DEF Writing, Busy
  <2>2. Hand(u) \in SUBSET Artifact /\ \A a \in Hand(u) : ~Named(a)
    BY <2>1, BusyCall DEF ArtInv, Hand, HandsAreFree
  <2>3. gone \cap Hand(u) = {}
    BY <1>3, <2>2 DEF gone
  <2>4. QED
    BY <1>13, <1>14, <1>15, <2>1, <2>2, <2>3 DEF ArtInv, HandsAreFree
<1>17. RemovalsAreFree'
  <2> SUFFICES ASSUME NEW u \in ArtWriter, calls'[u].pc = "clean"
               PROVE  /\ calls'[u].todo = {}
                      /\ \A a \in calls'[u].stored : ~Named(a)' \/ a \in lost'
    BY DEF RemovalsAreFree, Named
  <2>1. CASE u = w
    BY <1>5, <1>7, <1>9, <2>1, OverIs
  <2>2. CASE u # w
    <3>1. calls'[u] = calls[u] /\ calls[u].pc = "clean" /\ lost \subseteq lost' /\ Busy(u)
      BY <1>7, <2>2 DEF Busy
    <3>2. calls[u].stored \in SUBSET Artifact
      BY <3>1, BusyCall DEF ArtInv
    <3>3. QED
      BY <1>15, <3>1, <3>2 DEF ArtInv, RemovalsAreFree
  <2>3. QED
    BY <2>1, <2>2
<1>18. NewIdsAreFree'
  <2>1. \A a \in Artifact : a > artUsed => a \notin gone
    BY <1>3 DEF gone, ArtInv, NewIdsAreFree
  <2>2. \A a \in Artifact : a > artUsed => ~Named(a)'
    BY <1>15 DEF ArtInv, NewIdsAreFree
  <2>3. \A a \in Artifact, v \in ArtWriter : a > artUsed /\ Busy(v)' => a \notin Hand(v)'
    BY <1>13, <1>14, <2>1 DEF ArtInv, NewIdsAreFree
  <2>4. QED
    BY <1>8, <2>2, <2>3 DEF NewIdsAreFree, Named, Busy, Hand
<1>19. RowsCanBeRead'
  <2>1. \A a \in Artifact : Named(a)' => a \in bytes \cup lost'
    BY <1>7, <1>9 DEF ArtInv, BytesAgree, RowsCanBeRead
  <2>2. \A x \in entries' : x[2] \in Artifact /\ Named(x[2])'
    BY <1>4, <1>12 DEF ArtInv, ArtTypes, EntriesHaveRows, Named
  <2>3. QED
    BY <1>8, <2>1, <2>2 DEF RowsCanBeRead, Named
<1>20. BytesAreAccountedFor'
  <2> SUFFICES ASSUME NEW a \in bytes, a \notin lost', ~Named(a)'
               PROVE  \E v \in ArtWriter : calls'[v].pc \in {"put", "clean"} /\ a \in calls'[v].stored
    BY <1>8 DEF BytesAreAccountedFor, Named
  <2>1. CASE a \in gone
    BY <1>5, <1>7, <2>1
  <2>2. CASE a \notin gone
    <3>1. ~Named(a) /\ a \notin lost
      BY <1>7, <1>9, <2>2 DEF ArtInv, ArtTypes
    <3>2. PICK v \in ArtWriter : calls[v].pc \in {"put", "clean"} /\ a \in calls[v].stored
      BY <3>1 DEF ArtInv, BytesAgree, BytesAreAccountedFor
    <3>3. v # w
      BY <1>2, <3>2 DEF Busy
    <3>4. QED
      BY <1>7, <3>2, <3>3
  <2>3. QED
    BY <2>1, <2>2
<1>23. QED
  BY <1>11, <1>12, <1>16, <1>17, <1>18, <1>19, <1>20 DEF ArtInv, BytesAgree

LEMMA ArtNextInv == ArtInv /\ [ArtNext]_artVars => ArtInv'
<1> SUFFICES ASSUME ArtInv, [ArtNext]_artVars PROVE ArtInv'
  OBVIOUS
<1>1. CASE UNCHANGED artVars
  BY <1>1 DEF artVars, ArtInv, ArtTypes, EntriesHaveRows, HandsAreFree, RemovalsAreFree,
     NewIdsAreFree, BytesAgree, RowsCanBeRead, BytesAreAccountedFor, Named, Writing, Busy, Hand
<1>2. CASE ArtNext
  <2>1. CASE Fork \/ CreateChat \/ RemoveChat \/ BringBack
    BY <2>1, ChatStepsInv
  <2>2. CASE \E w \in ArtWriter :
               \/ BeginWrite(w) \/ Put(w) \/ PutFails(w) \/ NameThem(w) \/ NameFails(w)
               \/ RemoveBytes(w) \/ EndCall(w) \/ CallCrashes(w) \/ Purge(w)
    BY <2>2, BeginWriteInv, PutInv, PutFailsInv, NameInv, RemoveBytesInv, CallEndsInv, PurgeInv
  <2>3. QED
    BY <1>2, <2>1, <2>2 DEF ArtNext
<1>3. QED
  BY <1>1, <1>2

\* Rows and stored bytes agree: whatever interleaving of writes, refused and lost commits,
\* failed requests, crashes, forks and purges, a row can be read and bytes nobody names are in
\* the hands of the call that will remove them, or a fault lost them.
THEOREM ArtifactBytesAgree == ArtSpec => []BytesAgree
<1>1. ArtInv => BytesAgree
  BY DEF ArtInv
<1>2. QED
  BY <1>1, ArtInitInv, ArtNextInv, PTL DEF ArtSpec

----------------------------------------------------------------------------
(* Environment variables: rows and secret bytes *)

EnvCallRow == [pc: {"idle", "upsert", "drop", "read"}, name: EnvName \cup {"none"}, ref: Nat]

EnvTypes ==
    /\ envChat \in {"active", "deleted", "purged"}
    /\ envRow \in [EnvName -> SUBSET Nat]
    /\ storedSecrets \subseteq 1..putCount /\ strays \subseteq 1..putCount /\ unheard \subseteq 1..putCount
    /\ envCall \in [EnvCall -> EnvCallRow] /\ \A c \in EnvCall : envCall[c].ref \in 0..putCount
    /\ listed \in [EnvCall -> SUBSET Nat]
    /\ putCount \in Nat /\ envFaults \in Nat

\* A row names one secret, or none.
RowsNameOne ==
    \A v \in EnvName : \A r \in envRow[v] : r \in 0..putCount /\ envRow[v] = {r}

\* Where a call holds a secret, and of one that is still to be committed nobody knows but it.
CallsHold ==
    \A c \in EnvCall :
        /\ envCall[c].pc \in {"idle", "read"} => envCall[c].ref = PlainRef
        /\ envCall[c].pc = "upsert" =>
             /\ envCall[c].name \in EnvName
             /\ envCall[c].ref \in {PlainRef} \cup (storedSecrets \ unheard)

\* A secret has no two owners ...
Owned(r) == (\E v \in EnvName : r \in envRow[v]) \/ (\E c \in EnvCall : envCall[c].ref = r)
OneOwner ==
    \A r \in (1..putCount) \ unheard :
        /\ \A v \in EnvName : \A u \in EnvName : r \in envRow[v] /\ r \in envRow[u] => v = u
        /\ \A c \in EnvCall : \A d \in EnvCall : envCall[c].ref = r /\ envCall[d].ref = r => c = d
        /\ \A v \in EnvName : \A c \in EnvCall : ~(r \in envRow[v] /\ envCall[c].ref = r)

\* ... and, while it is stored, one, unless a fault took it.
SomeOwner == \A r \in storedSecrets \ (strays \cup unheard) : Owned(r)

EnvInv == EnvTypes /\ RowsNameOne /\ CallsHold /\ OneOwner /\ SomeOwner /\ SecretsCanBeRead

LEMMA EnvInitInv == EnvInit => EnvInv
BY DEF EnvInit, EnvStores, EnvInv, EnvTypes, EnvCallRow, RowsNameOne, CallsHold, OneOwner, SomeOwner,
   SecretsCanBeRead, IdleEnv, PlainRef

\* What a call is after EnvGo, EnvEnd or EnvDrop.
LEMMA EnvEnds ==
    ASSUME EnvTypes, NEW c \in EnvCall, EnvEnd(c)
    PROVE  /\ envCall' \in [EnvCall -> EnvCallRow]
           /\ envCall'[c].pc = "idle" /\ envCall'[c].ref = PlainRef
           /\ \A d \in EnvCall \ {c} : envCall'[d] = envCall[d]
BY DEF EnvTypes, EnvEnd, EnvCallRow, IdleEnv, PlainRef

LEMMA EnvDrops ==
    ASSUME EnvTypes, NEW c \in EnvCall, NEW S, NEW q \in 0..putCount, S = {} \/ S = {q}, EnvDrop(c, S)
    PROVE  /\ envCall' \in [EnvCall -> EnvCallRow]
           /\ envCall'[c].pc \in {"idle", "drop"}
           /\ envCall'[c].pc = "idle" => envCall'[c].ref = PlainRef
           /\ envCall'[c].ref = (IF S = {} THEN PlainRef ELSE q)
           /\ \A d \in EnvCall \ {c} : envCall'[d] = envCall[d]
<1>1. CASE S \subseteq {PlainRef} /\ EnvEnd(c)
  BY <1>1, EnvEnds DEF PlainRef
<1>2. CASE \E r \in S \ {PlainRef} :
             envCall' = [envCall EXCEPT ![c].pc = "drop", ![c].ref = r]
  <2>1. S = {q} /\ q # PlainRef /\ envCall' = [envCall EXCEPT ![c].pc = "drop", ![c].ref = q]
    BY <1>2
  <2>2. q \in Nat /\ envCall \in [EnvCall -> EnvCallRow]
    BY DEF EnvTypes
  <2>3. QED
    BY <2>1, <2>2 DEF EnvCallRow
<1>3. QED
  BY <1>1, <1>2 DEF EnvDrop

LEMMA EnvGoes ==
    ASSUME EnvTypes, NEW c \in EnvCall, NEW p \in {"idle", "upsert", "drop", "read"}, EnvGo(c, p)
    PROVE  /\ envCall' \in [EnvCall -> EnvCallRow]
           /\ envCall'[c].pc = p /\ envCall'[c].ref = envCall[c].ref
           /\ \A d \in EnvCall \ {c} : envCall'[d] = envCall[d]
BY DEF EnvTypes, EnvGo, EnvCallRow

\* A call that takes up a new secret, or none.
LEMMA SetVariableInv ==
    ASSUME EnvInv, NEW c \in EnvCall, NEW v \in EnvName, SetVariable(c, v)
    PROVE  EnvInv'
<1>1. PICK r \in Nat :
        /\ envCall' = [envCall EXCEPT ![c] = [pc |-> "upsert", name |-> v, ref |-> r]]
        /\ \/ r = PlainRef /\ UNCHANGED <<storedSecrets, putCount>>
           \/ r = putCount + 1 /\ putCount' = r /\ storedSecrets' = storedSecrets \cup {r}
  BY DEF SetVariable, EnvInv, EnvTypes, PlainRef
<1>2. /\ UNCHANGED <<envChat, envRow, listed, strays, unheard, envFaults>>
      /\ envCall[c].pc = "idle"
  BY DEF SetVariable, EnvAt
<1>3. /\ envCall' \in [EnvCall -> EnvCallRow]
      /\ envCall'[c].pc = "upsert" /\ envCall'[c].name = v /\ envCall'[c].ref = r
      /\ \A d \in EnvCall \ {c} : envCall'[d] = envCall[d]
  BY <1>1 DEF EnvInv, EnvTypes, EnvCallRow
<1>4. /\ putCount \in Nat /\ putCount' \in Nat /\ putCount <= putCount' /\ r \in 0..putCount'
      /\ storedSecrets \subseteq storedSecrets' /\ storedSecrets' \subseteq 1..putCount'
      /\ 1..putCount \subseteq 1..putCount' /\ 0..putCount \subseteq 0..putCount'
  <2>1. putCount \in Nat /\ storedSecrets \subseteq 1..putCount
    BY DEF EnvInv, EnvTypes
  <2>2. CASE r = PlainRef /\ UNCHANGED <<storedSecrets, putCount>>
    BY <2>1, <2>2 DEF PlainRef
  <2>3. CASE r = putCount + 1 /\ putCount' = r /\ storedSecrets' = storedSecrets \cup {r}
    BY <2>1, <2>3
  <2>4. QED
    BY <1>1, <2>2, <2>3
<1>5. r # PlainRef =>
        /\ r \notin unheard /\ r \notin strays /\ r \in storedSecrets'
        /\ \A u \in EnvName : r \notin envRow[u]
        /\ \A d \in EnvCall : envCall[d].ref # r
  BY <1>1, <1>4 DEF EnvInv, EnvTypes, RowsNameOne, PlainRef
<1>6. envCall[c].ref = PlainRef
  BY <1>2 DEF EnvInv, CallsHold
<1>7. EnvTypes'
  BY <1>2, <1>3, <1>4 DEF EnvInv, EnvTypes
<1>8. RowsNameOne' /\ SecretsCanBeRead'
  BY <1>2, <1>4 DEF EnvInv, RowsNameOne, SecretsCanBeRead
<1>9. CallsHold'
  BY <1>2, <1>3, <1>4, <1>5 DEF EnvInv, CallsHold
<1>10. \A q \in 1..putCount' : q # r => q \in 1..putCount
  BY <1>1, <1>4
<1>11. OneOwner'
  <2> SUFFICES ASSUME NEW q \in (1..putCount') \ unheard
               PROVE  /\ \A w \in EnvName, u \in EnvName : q \in envRow[w] /\ q \in envRow[u] => w = u
                      /\ \A e \in EnvCall, d \in EnvCall : envCall'[e].ref = q /\ envCall'[d].ref = q => e = d
                      /\ \A u \in EnvName, d \in EnvCall : ~(q \in envRow[u] /\ envCall'[d].ref = q)
    BY <1>2 DEF OneOwner
  <2>1. CASE q = r
    BY <1>3, <1>5, <2>1 DEF PlainRef
  <2>2. CASE q # r
    BY <1>3, <1>6, <1>10, <2>2 DEF EnvInv, OneOwner
  <2>3. QED
    BY <2>1, <2>2
<1>12. SomeOwner'
  <2> SUFFICES ASSUME NEW q \in storedSecrets' \ (strays \cup unheard)
               PROVE  (\E u \in EnvName : q \in envRow[u]) \/ (\E d \in EnvCall : envCall'[d].ref = q)
    BY <1>2 DEF SomeOwner, Owned
  <2>1. CASE q = r
    BY <1>3, <2>1
  <2>2. CASE q # r
    <3>1. q \in storedSecrets /\ q # PlainRef
      BY <1>1, <1>4, <2>2 DEF PlainRef
    <3>2. QED
      BY <1>3, <1>6, <3>1 DEF EnvInv, SomeOwner, Owned
  <2>3. QED
    BY <2>1, <2>2
<1>13. QED
  BY <1>7, <1>8, <1>9, <1>11, <1>12 DEF EnvInv

\* A call that goes on, ends or drops its secret, the rows as they are.
LEMMA EnvCallInv ==
    ASSUME EnvInv, NEW c \in EnvCall,
           UNCHANGED <<envChat, envRow, putCount, unheard>>,
           envCall' \in [EnvCall -> EnvCallRow],
           \A d \in EnvCall \ {c} : envCall'[d] = envCall[d],
           envCall'[c].pc \in {"idle", "drop", "read"},
           envCall'[c].pc # "drop" => envCall'[c].ref = PlainRef,
           envCall'[c].ref \in {PlainRef, envCall[c].ref},
           listed' \in [EnvCall -> SUBSET Nat], envFaults' \in Nat,
           strays \subseteq strays', strays' \subseteq 1..putCount,
           storedSecrets' \subseteq storedSecrets,
           storedSecrets \subseteq storedSecrets' \cup {envCall[c].ref},
           storedSecrets' # storedSecrets => envCall[c].pc = "drop" /\ envCall'[c].ref = PlainRef,
           envCall'[c].ref = envCall[c].ref \/ envCall[c].ref \notin storedSecrets' \ strays'
    PROVE  EnvInv'
<1>1. /\ \A d \in EnvCall : envCall[d].ref \in 0..putCount /\ envCall'[d].ref \in 0..putCount
      /\ PlainRef \notin 1..putCount
  BY DEF EnvInv, EnvTypes, PlainRef
<1>2. EnvTypes'
  BY <1>1 DEF EnvInv, EnvTypes
<1>3. RowsNameOne'
  BY DEF EnvInv, RowsNameOne
<1>4. OneOwner'
  BY <1>1 DEF EnvInv, OneOwner
<1>5. SomeOwner'
  <2> SUFFICES ASSUME NEW q \in storedSecrets' \ (strays' \cup unheard)
               PROVE  (\E u \in EnvName : q \in envRow[u]) \/ (\E d \in EnvCall : envCall'[d].ref = q)
    BY DEF SomeOwner, Owned
  <2>1. CASE \E u \in EnvName : q \in envRow[u]
    BY <2>1
  <2>2. CASE \E d \in EnvCall : envCall[d].ref = q
    BY <2>2
  <2>3. QED
    BY <2>1, <2>2 DEF EnvInv, SomeOwner, Owned
<1>6. storedSecrets' # storedSecrets =>
        envCall[c].pc = "drop" /\ \A r \in storedSecrets \ storedSecrets' : r = envCall[c].ref
  OBVIOUS
<1>7. CallsHold'
  <2> SUFFICES ASSUME NEW d \in EnvCall
               PROVE  /\ envCall'[d].pc \in {"idle", "read"} => envCall'[d].ref = PlainRef
                      /\ envCall'[d].pc = "upsert" =>
                           /\ envCall'[d].name \in EnvName
                           /\ envCall'[d].ref \in {PlainRef} \cup (storedSecrets' \ unheard)
    BY DEF CallsHold
  <2>1. CASE d = c
    BY <2>1
  <2>2. CASE d # c
    <3>1. envCall'[d] = envCall[d]
      BY <2>2
    <3>2. ASSUME envCall[d].pc = "upsert", envCall[d].ref # PlainRef
          PROVE  envCall[d].ref \in storedSecrets' \ unheard
      <4>1. envCall[d].ref \in storedSecrets \ unheard /\ envCall[d].ref \in 1..putCount
        BY <3>2 DEF EnvInv, CallsHold, EnvTypes
      <4>2. envCall[c].ref # envCall[d].ref
        BY <2>2, <4>1 DEF EnvInv, OneOwner
      <4>3. QED
        BY <4>1, <4>2
    <3>3. QED
      BY <3>1, <3>2 DEF EnvInv, CallsHold
  <2>3. QED
    BY <2>1, <2>2
<1>8. SecretsCanBeRead'
  <2> SUFFICES ASSUME NEW v \in EnvName, NEW r \in envRow[v], r # PlainRef, r \notin unheard
               PROVE  r \in storedSecrets'
    BY DEF SecretsCanBeRead
  <2>1. r \in storedSecrets /\ r \in (1..putCount) \ unheard
    BY DEF EnvInv, SecretsCanBeRead, EnvTypes
  <2>2. envCall[c].ref # r
    BY <2>1 DEF EnvInv, OneOwner
  <2>3. QED
    BY <2>1, <2>2
<1>9. QED
  BY <1>2, <1>3, <1>4, <1>5, <1>7, <1>8 DEF EnvInv

\* A row is written by a call that has its new secret, or deleted.
LEMMA EnvRowInv ==
    ASSUME EnvInv, NEW c \in EnvCall, NEW v \in EnvName,
           UNCHANGED <<envChat, storedSecrets, putCount, listed>>, envFaults' \in Nat,
           envRow' \in [EnvName -> SUBSET Nat], envRow'[v] \subseteq 0..putCount,
           \A u \in EnvName \ {v} : envRow'[u] = envRow[u],
           \A r \in envRow'[v] : envRow'[v] = {r},
           \A r \in envRow'[v] \ {PlainRef} : envCall[c].pc = "upsert" /\ r = envCall[c].ref,
           envCall' \in [EnvCall -> EnvCallRow],
           \A d \in EnvCall \ {c} : envCall'[d] = envCall[d],
           envCall'[c].pc \in {"idle", "drop"},
           envCall'[c].pc = "idle" => envCall'[c].ref = PlainRef,
           envCall'[c].ref \in 0..putCount,
           \A r \in (1..putCount) \ unheard' : envCall'[c].ref = r => r \in envRow[v],
           \A r \in storedSecrets \ (strays' \cup unheard') :
               /\ r \in envRow[v] => envCall'[c].ref = r
               /\ envCall[c].ref = r => r \in envRow'[v],
           strays \subseteq strays', strays' \subseteq 1..putCount,
           unheard \subseteq unheard', unheard' \subseteq unheard \cup (envRow'[v] \ {PlainRef})
    PROVE  EnvInv'
<1> DEFINE S == envRow'[v]
<1>1. /\ \A u \in EnvName \ {v} : envRow'[u] = envRow[u]
      /\ envRow'[v] = S
      /\ envRow' \in [EnvName -> SUBSET Nat]
  OBVIOUS
<1>2. unheard' \subseteq 1..putCount
  BY DEF EnvInv, EnvTypes, PlainRef
<1>3. EnvTypes'
  BY <1>1, <1>2 DEF EnvInv, EnvTypes
<1>4. RowsNameOne'
  BY <1>1 DEF EnvInv, RowsNameOne
<1>5. CallsHold'
  <2> SUFFICES ASSUME NEW d \in EnvCall
               PROVE  /\ envCall'[d].pc \in {"idle", "read"} => envCall'[d].ref = PlainRef
                      /\ envCall'[d].pc = "upsert" =>
                           /\ envCall'[d].name \in EnvName
                           /\ envCall'[d].ref \in {PlainRef} \cup (storedSecrets \ unheard')
    BY DEF CallsHold
  <2>1. CASE d = c
    BY <2>1
  <2>2. CASE d # c
    <3>1. envCall'[d] = envCall[d]
      BY <2>2
    <3>2. ASSUME envCall[d].pc = "upsert", envCall[d].ref # PlainRef
          PROVE  envCall[d].ref \in storedSecrets \ unheard'
      <4>1. envCall[d].ref \in storedSecrets \ unheard /\ envCall[d].ref \in 1..putCount
        BY <3>2 DEF EnvInv, CallsHold, EnvTypes
      <4>2. envCall[c].ref # envCall[d].ref
        BY <2>2, <4>1 DEF EnvInv, OneOwner
      <4>3. QED
        BY <3>2, <4>1, <4>2
    <3>3. QED
      BY <3>1, <3>2 DEF EnvInv, CallsHold
  <2>3. QED
    BY <2>1, <2>2
<1>6. \A r \in (1..putCount) \ unheard' : r \in S => envCall[c].ref = r /\ r \notin unheard
  BY DEF PlainRef
<1>7. OneOwner'
  <2> SUFFICES ASSUME NEW r \in (1..putCount) \ unheard'
               PROVE  /\ \A w \in EnvName : \A u \in EnvName : r \in envRow'[w] /\ r \in envRow'[u] => w = u
                      /\ \A e \in EnvCall : \A d \in EnvCall : envCall'[e].ref = r /\ envCall'[d].ref = r => e = d
                      /\ \A u \in EnvName : \A d \in EnvCall : ~(r \in envRow'[u] /\ envCall'[d].ref = r)
    BY DEF OneOwner
  <2>1. /\ \A w \in EnvName : \A u \in EnvName : r \in envRow[w] /\ r \in envRow[u] => w = u
        /\ \A e \in EnvCall : \A d \in EnvCall : envCall[e].ref = r /\ envCall[d].ref = r => e = d
        /\ \A u \in EnvName : \A d \in EnvCall : ~(r \in envRow[u] /\ envCall[d].ref = r)
    BY DEF EnvInv, OneOwner
  <2>2. /\ r \in envRow'[v] => envCall[c].ref = r
        /\ envCall'[c].ref = r => r \in envRow[v]
    BY <1>1, <1>6
  <2>3. QED
    BY <1>1, <2>1, <2>2
<1>8. SomeOwner'
  <2> SUFFICES ASSUME NEW q \in storedSecrets \ (strays' \cup unheard')
               PROVE  (\E u \in EnvName : q \in envRow'[u]) \/ (\E d \in EnvCall : envCall'[d].ref = q)
    BY DEF SomeOwner, Owned
  <2>1. CASE \E u \in EnvName : q \in envRow[u]
    BY <1>1, <2>1
  <2>2. CASE \E d \in EnvCall : envCall[d].ref = q
    BY <1>1, <2>2
  <2>3. QED
    BY <2>1, <2>2 DEF EnvInv, SomeOwner, Owned
<1>9. SecretsCanBeRead'
  <2>1. \A r \in S \ {PlainRef} : r \in storedSecrets
    BY DEF EnvInv, CallsHold
  <2>2. \A u \in EnvName : envRow'[u] \subseteq storedSecrets \cup unheard' \cup {PlainRef}
    BY <1>1, <2>1 DEF EnvInv, SecretsCanBeRead
  <2>3. QED
    BY <2>2 DEF SecretsCanBeRead
<1>10. QED
  BY <1>3, <1>4, <1>5, <1>7, <1>8, <1>9 DEF EnvInv

LEMMA EnvFacts ==
    ASSUME EnvInv
    PROVE  /\ \A c \in EnvCall : /\ envCall[c] \in EnvCallRow /\ envCall[c].ref \in 0..putCount
                                 /\ envCall[c].pc \in {"idle", "read"} => envCall[c].ref = PlainRef
                                 /\ envCall[c].pc = "upsert" => envCall[c].name \in EnvName
           /\ \A v \in EnvName : /\ envRow[v] \in SUBSET (0..putCount)
                                 /\ envRow[v] = {} \/ \E q \in 0..putCount : envRow[v] = {q}
           /\ PlainRef \in 0..putCount /\ PlainRef \notin 1..putCount /\ putCount \in Nat
           /\ envFaults \in Nat /\ listed \in [EnvCall -> SUBSET Nat]
           /\ storedSecrets \subseteq 1..putCount
           /\ strays \subseteq 1..putCount /\ unheard \subseteq 1..putCount
<1>1. \A v \in EnvName : envRow[v] = {} \/ \E q \in 0..putCount : envRow[v] = {q}
  BY DEF EnvInv, RowsNameOne
<1>2. QED
  BY <1>1 DEF EnvInv, EnvTypes, CallsHold, RowsNameOne, PlainRef

LEMMA UpsertInv ==
    ASSUME EnvInv, NEW c \in EnvCall, UpsertVariable(c)
    PROVE  EnvInv'
<1> DEFINE k == envCall[c].ref
           v == envCall[c].name
<1>1. /\ envCall[c].pc = "upsert" /\ k \in 0..putCount /\ v \in EnvName
      /\ UNCHANGED <<envChat, storedSecrets, listed, putCount, strays, unheard, envFaults>>
      /\ EnvTypes
  BY EnvFacts DEF UpsertVariable, EnvAt, EnvInv
<1>2. CASE envChat = "active"
  <2>1. envRow' = [envRow EXCEPT ![v] = {k}] /\ EnvDrop(c, envRow[v])
    BY <1>2 DEF UpsertVariable, WriteRow, Replaced
  <2>2. PICK q \in 0..putCount : envRow[v] = {} \/ envRow[v] = {q}
    BY <1>1, EnvFacts
  <2>3. /\ envCall' \in [EnvCall -> EnvCallRow]
        /\ envCall'[c].pc \in {"idle", "drop"}
        /\ envCall'[c].pc = "idle" => envCall'[c].ref = PlainRef
        /\ envCall'[c].ref = (IF envRow[v] = {} THEN PlainRef ELSE q)
        /\ \A d \in EnvCall \ {c} : envCall'[d] = envCall[d]
    BY <1>1, <2>1, <2>2, EnvDrops
  <2>4. /\ envCall'[c].ref \in 0..putCount
        /\ \A r \in 1..putCount : (envCall'[c].ref = r) = (r \in envRow[v])
    BY <2>2, <2>3, EnvFacts
  <2>5. {k} \in SUBSET (0..putCount) /\ storedSecrets \subseteq 1..putCount
        /\ strays \subseteq 1..putCount /\ envFaults \in Nat
    BY <1>1, EnvFacts
  <2>6. /\ \A r \in {k} : {k} = {r}
        /\ \A r \in {k} \ {PlainRef} : envCall[c].pc = "upsert" /\ r = envCall[c].ref
        /\ \A r \in (1..putCount) \ unheard' : envCall'[c].ref = r => r \in envRow[v]
        /\ \A r \in storedSecrets \ (strays' \cup unheard') :
              /\ r \in envRow[v] => envCall'[c].ref = r
              /\ envCall[c].ref = r => r \in {k}
        /\ strays \subseteq strays' /\ strays' \subseteq 1..putCount
        /\ unheard \subseteq unheard' /\ unheard' \subseteq unheard \cup ({k} \ {PlainRef})
        /\ UNCHANGED <<envChat, storedSecrets, putCount, listed>> /\ envFaults' \in Nat
    BY <1>1, <2>4, <2>5
  <2>7. envRow' \in [EnvName -> SUBSET Nat] /\ envRow'[v] = {k} /\ \A u \in EnvName \ {v} : envRow'[u] = envRow[u]
    BY <1>1, <2>1 DEF EnvTypes
  <2>8. QED
    BY <1>1, <2>3, <2>4, <2>5, <2>6, <2>7, EnvRowInv
<1>3. CASE envChat # "active"
  <2>1. envRow' = envRow /\ EnvDrop(c, {k})
    BY <1>3 DEF UpsertVariable
  <2>2. /\ envCall' \in [EnvCall -> EnvCallRow]
        /\ envCall'[c].pc \in {"idle", "drop"}
        /\ envCall'[c].pc = "idle" => envCall'[c].ref = PlainRef
        /\ envCall'[c].ref = k
        /\ \A d \in EnvCall \ {c} : envCall'[d] = envCall[d]
    BY <1>1, <2>1, EnvDrops
  <2>3. QED
    BY <1>1, <2>1, <2>2, EnvFacts, EnvCallInv
<1>4. QED
  BY <1>2, <1>3

LEMMA UnheardInv ==
    ASSUME EnvInv, NEW c \in EnvCall, UpsertUnheard(c)
    PROVE  EnvInv'
<1> DEFINE k == envCall[c].ref
           v == envCall[c].name
<1>1. /\ envCall[c].pc = "upsert" /\ k \in 0..putCount /\ v \in EnvName
      /\ UNCHANGED <<envChat, storedSecrets, listed, putCount>>
      /\ envFaults' \in Nat /\ EnvTypes /\ EnvDrop(c, {k})
  BY EnvFacts DEF UpsertUnheard, EnvAt, EnvInv, EnvFault
<1>2. /\ envCall' \in [EnvCall -> EnvCallRow]
      /\ envCall'[c].pc \in {"idle", "drop"}
      /\ envCall'[c].pc = "idle" => envCall'[c].ref = PlainRef
      /\ envCall'[c].ref = k
      /\ \A d \in EnvCall \ {c} : envCall'[d] = envCall[d]
  BY <1>1, EnvDrops
<1>3. CASE UNCHANGED <<envRow, strays, unheard>>
  BY <1>1, <1>2, <1>3, EnvFacts, EnvCallInv
<1>4. CASE /\ WriteRow(c)
           /\ strays' = strays \cup (envRow[v] \cap storedSecrets)
           /\ unheard' = unheard \cup ({k} \ {PlainRef})
  <2>1. envRow' = [envRow EXCEPT ![v] = {k}] /\ {k} \in SUBSET (0..putCount)
    BY <1>1, <1>4 DEF WriteRow
  <2>2. strays \subseteq strays' /\ strays' \subseteq 1..putCount
    BY <1>4, EnvFacts
  <2>3. \A r \in (1..putCount) \ unheard' : k # r
    BY <1>4, EnvFacts
  <2>4. \A r \in storedSecrets \ (strays' \cup unheard') : r \notin envRow[v] /\ k # r
    BY <1>4, <2>3, EnvFacts
  <2>5. /\ \A r \in {k} : {k} = {r}
        /\ \A r \in {k} \ {PlainRef} : envCall[c].pc = "upsert" /\ r = envCall[c].ref
        /\ \A r \in (1..putCount) \ unheard' : envCall'[c].ref = r => r \in envRow[v]
        /\ \A r \in storedSecrets \ (strays' \cup unheard') :
              /\ r \in envRow[v] => envCall'[c].ref = r
              /\ envCall[c].ref = r => r \in {k}
        /\ unheard \subseteq unheard' /\ unheard' \subseteq unheard \cup ({k} \ {PlainRef})
        /\ envCall'[c].ref \in 0..putCount
    BY <1>1, <1>2, <1>4, <2>3, <2>4
  <2>6. envRow' \in [EnvName -> SUBSET Nat] /\ envRow'[v] = {k} /\ \A u \in EnvName \ {v} : envRow'[u] = envRow[u]
    BY <1>1, <2>1 DEF EnvTypes
  <2>7. QED
    BY <1>1, <1>2, <2>1, <2>2, <2>5, <2>6, EnvRowInv
<1>5. QED
  BY <1>3, <1>4 DEF UpsertUnheard

LEMMA DeleteVariableInv ==
    ASSUME EnvInv, NEW c \in EnvCall, NEW v \in EnvName, DeleteVariable(c, v)
    PROVE  EnvInv'
<1>1. /\ envCall[c].pc = "idle" /\ envCall[c].ref = PlainRef /\ EnvTypes
      /\ UNCHANGED <<envChat, storedSecrets, listed, putCount, strays, unheard, envFaults>>
      /\ envRow' = [envRow EXCEPT ![v] = {}] /\ EnvDrop(c, envRow[v])
  BY EnvFacts DEF DeleteVariable, DeleteRow, EnvAt, EnvInv
<1>2. PICK q \in 0..putCount : envRow[v] = {} \/ envRow[v] = {q}
  BY EnvFacts
<1>3. /\ envCall' \in [EnvCall -> EnvCallRow]
      /\ envCall'[c].pc \in {"idle", "drop"}
      /\ envCall'[c].pc = "idle" => envCall'[c].ref = PlainRef
      /\ envCall'[c].ref = (IF envRow[v] = {} THEN PlainRef ELSE q)
      /\ \A d \in EnvCall \ {c} : envCall'[d] = envCall[d]
  BY <1>1, <1>2, EnvDrops
<1>4. /\ envCall'[c].ref \in 0..putCount
      /\ \A r \in 1..putCount : (envCall'[c].ref = r) = (r \in envRow[v])
  BY <1>2, <1>3, EnvFacts
<1>5. {} \in SUBSET (0..putCount) /\ storedSecrets \subseteq 1..putCount
      /\ strays \subseteq 1..putCount /\ envFaults \in Nat /\ PlainRef \notin 1..putCount
  BY EnvFacts
<1>6. /\ \A r \in (1..putCount) \ unheard' : envCall'[c].ref = r => r \in envRow[v]
      /\ \A r \in storedSecrets \ (strays' \cup unheard') :
            /\ r \in envRow[v] => envCall'[c].ref = r
            /\ envCall[c].ref = r => r \in {}
      /\ strays \subseteq strays' /\ strays' \subseteq 1..putCount
      /\ unheard \subseteq unheard' /\ unheard' \subseteq unheard \cup ({} \ {PlainRef})
      /\ UNCHANGED <<envChat, storedSecrets, putCount, listed>> /\ envFaults' \in Nat
  BY <1>1, <1>4, <1>5
<1>7. /\ \A r \in {} : {} = {r}
      /\ \A r \in {} \ {PlainRef} : envCall[c].pc = "upsert" /\ r = envCall[c].ref
  OBVIOUS
<1>8. envRow' \in [EnvName -> SUBSET Nat] /\ envRow'[v] = {} /\ \A u \in EnvName \ {v} : envRow'[u] = envRow[u]
  BY <1>1 DEF EnvTypes
<1>9. QED
  BY <1>1, <1>3, <1>4, <1>5, <1>6, <1>7, <1>8, EnvRowInv

\* The steps of a call that leave the rows alone.
LEMMA EnvCallStepsInv ==
    ASSUME EnvInv, NEW c \in EnvCall,
           DropSecret(c) \/ Resolve(c) \/ ReadVariable(c) \/ AbandonVariable(c)
    PROVE  EnvInv'
<1>1. EnvTypes /\ UNCHANGED <<envChat, envRow, putCount, unheard>>
  BY DEF EnvInv, DropSecret, Resolve, ReadVariable, AbandonVariable
<1>2. CASE DropSecret(c)
  <2>1. /\ envCall[c].pc = "drop" /\ EnvEnd(c)
        /\ storedSecrets' = storedSecrets \ {envCall[c].ref}
        /\ UNCHANGED <<listed, strays, envFaults>>
    BY <1>2 DEF DropSecret, EnvAt
  <2>2. /\ envCall' \in [EnvCall -> EnvCallRow]
        /\ envCall'[c].pc = "idle" /\ envCall'[c].ref = PlainRef
        /\ \A d \in EnvCall \ {c} : envCall'[d] = envCall[d]
    BY <1>1, <2>1, EnvEnds
  <2>3. QED
    BY <1>1, <2>1, <2>2, EnvFacts, EnvCallInv
<1>3. CASE Resolve(c)
  <2>1. /\ envCall[c].pc = "idle" /\ EnvGo(c, "read")
        /\ listed' = [listed EXCEPT ![c] = ListedRows]
        /\ UNCHANGED <<storedSecrets, strays, envFaults>>
    BY <1>3 DEF Resolve, EnvAt
  <2>2. /\ envCall' \in [EnvCall -> EnvCallRow]
        /\ envCall'[c].pc = "read" /\ envCall'[c].ref = envCall[c].ref
        /\ \A d \in EnvCall \ {c} : envCall'[d] = envCall[d]
    BY <1>1, <2>1, EnvGoes
  <2>3. \A r \in UNION {envRow[v] : v \in EnvName} : r \in Nat
    BY <1>1 DEF EnvTypes
  <2>4. ListedRows \in SUBSET Nat
    BY <2>3 DEF ListedRows
  <2>5. listed' \in [EnvCall -> SUBSET Nat]
    BY <2>1, <2>4, EnvFacts
  <2>6. QED
    BY <1>1, <2>1, <2>2, <2>5, EnvFacts, EnvCallInv
<1>4. CASE ReadVariable(c)
  <2>1. /\ envCall[c].pc = "read" /\ envCall[c].ref = PlainRef
        /\ UNCHANGED <<storedSecrets, strays, envFaults>>
        /\ EnvEnd(c) \/ UNCHANGED envCall
    BY <1>4, EnvFacts DEF ReadVariable, EnvAt
  <2>2. listed' \in [EnvCall -> SUBSET Nat]
    BY <1>4, EnvFacts DEF ReadVariable
  <2>3. /\ envCall' \in [EnvCall -> EnvCallRow]
        /\ envCall'[c].pc \in {"idle", "read"} /\ envCall'[c].ref = PlainRef
        /\ \A d \in EnvCall \ {c} : envCall'[d] = envCall[d]
    BY <1>1, <2>1, EnvEnds DEF EnvTypes
  <2>4. QED
    BY <1>1, <2>1, <2>2, <2>3, EnvFacts, EnvCallInv
<1>5. CASE AbandonVariable(c)
  <2>1. /\ EnvEnd(c) /\ UNCHANGED storedSecrets /\ envFaults' \in Nat
        /\ strays' = strays \cup ({envCall[c].ref} \cap storedSecrets)
        /\ listed' = [listed EXCEPT ![c] = {}]
    BY <1>5, EnvFacts DEF AbandonVariable, EnvFault
  <2>2. /\ envCall' \in [EnvCall -> EnvCallRow]
        /\ envCall'[c].pc = "idle" /\ envCall'[c].ref = PlainRef
        /\ \A d \in EnvCall \ {c} : envCall'[d] = envCall[d]
    BY <1>1, <2>1, EnvEnds
  <2>3. strays \subseteq strays' /\ strays' \subseteq 1..putCount /\ listed' \in [EnvCall -> SUBSET Nat]
    BY <2>1, EnvFacts
  <2>4. QED
    BY <1>1, <2>1, <2>2, <2>3, EnvFacts, EnvCallInv
<1>6. QED
  BY <1>2, <1>3, <1>4, <1>5

LEMMA EnvChatInv ==
    ASSUME EnvInv, DeleteEnvChat \/ RestoreEnvChat \/ PurgeEnvChat
    PROVE  EnvInv'
<1>1. /\ UNCHANGED <<storedSecrets, envCall, listed, putCount, unheard, envFaults>>
      /\ envChat' \in {"active", "deleted", "purged"}
  BY DEF DeleteEnvChat, RestoreEnvChat, PurgeEnvChat
<1>2. CASE UNCHANGED <<envRow, strays>>
  BY <1>1, <1>2 DEF EnvInv, EnvTypes, RowsNameOne, CallsHold, OneOwner, SomeOwner, Owned, SecretsCanBeRead
<1>3. CASE PurgeEnvChat
  <2>1. /\ envRow' = [v \in EnvName |-> {}]
        /\ strays' = strays \cup (storedSecrets \cap UNION {envRow[v] : v \in EnvName})
    BY <1>3 DEF PurgeEnvChat
  <2>2. \A v \in EnvName : envRow'[v] = {}
    BY <2>1
  <2>3. \A r \in storedSecrets \ strays' : \A v \in EnvName : r \notin envRow[v]
    BY <2>1
  <2>4. strays \subseteq strays' /\ strays' \subseteq 1..putCount
    BY <2>1, EnvFacts
  <2>5. EnvTypes'
    BY <1>1, <2>1, <2>4 DEF EnvInv, EnvTypes
  <2>6. RowsNameOne' /\ CallsHold' /\ OneOwner' /\ SecretsCanBeRead'
    BY <1>1, <2>2 DEF EnvInv, RowsNameOne, CallsHold, OneOwner, SecretsCanBeRead
  <2>7. SomeOwner'
    BY <1>1, <2>3, <2>4 DEF EnvInv, SomeOwner, Owned
  <2>8. QED
    BY <2>5, <2>6, <2>7 DEF EnvInv
<1>4. QED
  BY <1>2, <1>3 DEF DeleteEnvChat, RestoreEnvChat

LEMMA EnvNextInv == EnvInv /\ [EnvNext]_envVars => EnvInv'
<1> SUFFICES ASSUME EnvInv, [EnvNext]_envVars PROVE EnvInv'
  OBVIOUS
<1>1. CASE UNCHANGED envVars
  BY <1>1 DEF envVars, EnvInv, EnvTypes, RowsNameOne, CallsHold, OneOwner, SomeOwner, Owned,
     SecretsCanBeRead
<1>2. CASE EnvNext
  BY <1>2, SetVariableInv, DeleteVariableInv, UpsertInv, UnheardInv, EnvCallStepsInv, EnvChatInv
     DEF EnvNext
<1>3. QED
  BY <1>1, <1>2

\* What a secret's owners are, counted.
LEMMA OwnersCounted ==
    ASSUME EnvInv, NEW r \in storedSecrets \ (strays \cup unheard)
    PROVE  Cardinality({v \in EnvName : r \in envRow[v]}) + Cardinality({c \in EnvCall : envCall[c].ref = r}) = 1
<1> DEFINE V == {v \in EnvName : r \in envRow[v]}
           C == {c \in EnvCall : envCall[c].ref = r}
<1>1. r \in (1..putCount) \ unheard
  BY EnvFacts
<1>2. Cardinality({}) = 0
  BY FS_EmptySet
<1>3. CASE \E v \in EnvName : r \in envRow[v]
  <2>1. PICK v \in EnvName : V = {v}
    BY <1>1, <1>3 DEF EnvInv, OneOwner
  <2>2. C = {}
    BY <1>1, <1>3 DEF EnvInv, OneOwner
  <2>3. Cardinality(V) = 1 /\ Cardinality(C) = 0
    BY <1>2, <2>1, <2>2, FS_Singleton
  <2>4. QED
    BY <2>3
<1>4. CASE ~ \E v \in EnvName : r \in envRow[v]
  <2>1. V = {}
    BY <1>4
  <2>2. PICK c \in EnvCall : C = {c}
    BY <1>1, <1>4 DEF EnvInv, OneOwner, SomeOwner, Owned
  <2>3. Cardinality(V) = 0 /\ Cardinality(C) = 1
    BY <1>2, <2>1, <2>2, FS_Singleton
  <2>4. QED
    BY <2>3
<1>5. QED
  BY <1>3, <1>4

\* Whatever sets, deletes, resolves, purges, faults and commits nobody heard of overlap, a row
\* names bytes that are stored and stored bytes have exactly one owner, with the exceptions
\* the property names.
THEOREM VariablesStaySound == EnvSpec => []VariablesAreSound
<1>1. EnvInv => VariablesAreSound
  BY OwnersCounted DEF EnvInv, VariablesAreSound, SecretsHaveAnOwner
<1>2. QED
  BY <1>1, EnvInitInv, EnvNextInv, PTL DEF EnvSpec

----------------------------------------------------------------------------
(* Tool sources: what generations use, and what stays open *)

\* Every set that is turned into a sequence is listed once.
LEMMA SetToSeqLists ==
    ASSUME NEW S, IsFiniteSet(S)
    PROVE  /\ SetToSeq(S) \in Seq(S) /\ Len(SetToSeq(S)) \in Nat
           /\ DOMAIN SetToSeq(S) = 1..Len(SetToSeq(S)) /\ IsInjective(SetToSeq(S))
           /\ \A x \in S : \E i \in DOMAIN SetToSeq(S) : SetToSeq(S)[i] = x
<1> DEFINE n == Cardinality(S)
           D == 1..n
<1>1. n \in Nat /\ ExistsBijection(D, S)
  BY FS_CardinalityType
<1>2. PICK f \in Bijection(D, S) : TRUE
  BY <1>1 DEF ExistsBijection
<1>3. f \in [D -> S] /\ IsInjective(f)
  BY <1>2 DEF Bijection, Injection
<1>4. SetToSeq(S) \in [D -> S] /\ IsInjective(SetToSeq(S))
  BY <1>3 DEF SetToSeq
<1>5. Cardinality(D) = n /\ IsFiniteSet(D)
  BY <1>1, FS_Interval
<1>6. SetToSeq(S) \in Surjection(D, S)
  BY <1>4, <1>5, FS_Injection DEF Injection
<1>7. \A x \in S : \E i \in D : SetToSeq(S)[i] = x
  BY <1>6 DEF Surjection
<1>8. SetToSeq(S) \in Seq(S) /\ Len(SetToSeq(S)) = n /\ DOMAIN SetToSeq(S) = 1..n
  BY <1>1, <1>4
<1>9. QED
  BY <1>1, <1>4, <1>7, <1>8

SrcStates == {"opening", "open", "failed", "closed"}
SrcAdapter == [key: Key, source: Key, state: SrcStates, connection: BOOLEAN]

SrcTypes ==
    /\ registration \in [ToolSource -> [status: {"absent", "active", "disabled", "archived"}, rev: Revision]]
    /\ \A r \in chosen : r[1] \in ToolSource
    /\ \A t \in choosing : t.want \in SUBSET ToolSource
    /\ captured \in [SrcRun -> [state: {"none", "read", "queued"}, sources: SUBSET Key]]
    /\ opened \in Seq(SrcAdapter)
    /\ cached \in [Key -> Nat] /\ inUse \in [SrcRun -> SUBSET DOMAIN opened]

\* An adapter is of the source and the revision of its key; the cache has it under that key.
CacheFits ==
    /\ \A i \in DOMAIN opened : opened[i].key = opened[i].source
    /\ \A k \in Key : cached[k] # 0 => cached[k] \in DOMAIN opened /\ opened[cached[k]].key = k

\* Only a run whose generation is queued uses adapters: what it captured is settled by then.
RunsAreQueued == \A g \in SrcRun : inUse[g] # {} => captured[g].state = "queued"

SrcInv == SrcTypes /\ CacheFits /\ RunsAreQueued /\ SourcesAreFaithful

LEMMA SrcInitInv == ToolSrcInit => SrcInv
<1> SUFFICES ASSUME ToolSrcInit PROVE SrcInv
  OBVIOUS
<1> USE DEF ToolSrcInit, ToolSrcRest
<1>1. 0 \in Revision
  BY ToolSrcAssumption DEF ToolSrcAssumption, Revision
<1>2. SrcTypes
  BY <1>1 DEF SrcTypes
<1>3. CacheFits /\ RunsAreQueued
  BY DEF CacheFits, RunsAreQueued
<1>4. SourcesAreFaithful
  BY DEF SourcesAreFaithful, RunsUseWhatWasCaptured, OpenAdaptersAreHeld
<1>5. QED
  BY <1>2, <1>3, <1>4 DEF SrcInv

\* What the cache and the runs do is no concern of registrations and selections.
LEMMA RowsOnly ==
    ASSUME SrcInv, UNCHANGED <<captured, opened, cached, closing, inUse, forgotten>>,
           registration' \in [ToolSource -> [status: {"absent", "active", "disabled", "archived"}, rev: Revision]],
           \A r \in chosen' : r[1] \in ToolSource,
           \A t \in choosing' : t.want \in SUBSET ToolSource
    PROVE  SrcInv'
<1>1. SrcTypes'
  BY DEF SrcInv, SrcTypes
<1>2. CacheFits' /\ RunsAreQueued'
  BY DEF SrcInv, CacheFits, RunsAreQueued
<1>3. SourcesAreFaithful'
  BY DEF SrcInv, SourcesAreFaithful, RunsUseWhatWasCaptured, OpenAdaptersAreHeld
<1>4. QED
  BY <1>1, <1>2, <1>3 DEF SrcInv

LEMMA RegistrationInv ==
    ASSUME SrcInv, NEW s \in ToolSource,
           CreateRegistration(s) \/ UpdateRegistration(s) \/ ArchiveSourceOf(s)
    PROVE  SrcInv'
<1> USE ToolSrcAssumption DEF ToolSrcAssumption, Revision
<1>1. CASE CreateRegistration(s)
  <2>1. registration' = [registration EXCEPT ![s].status = "active"]
        /\ UNCHANGED <<chosen, choosing, captured, opened, cached, closing, inUse, forgotten>>
    BY <1>1 DEF CreateRegistration, chatVars, cacheVars
  <2>2. QED
    BY <2>1, RowsOnly DEF SrcInv, SrcTypes
<1>2. CASE UpdateRegistration(s)
  <2>1. PICK status \in {"active", "disabled"} : WriteRegistration(s, status)
    BY <1>2 DEF UpdateRegistration
  <2>2. UNCHANGED <<chosen, choosing, captured, opened, cached, closing, inUse, forgotten>>
    BY <1>2 DEF UpdateRegistration, WrittenBy, chatVars
  <2>3. QED
    BY <2>1, <2>2, RowsOnly DEF SrcInv, SrcTypes, WriteRegistration
<1>3. CASE ArchiveSourceOf(s)
  <2>1. WriteRegistration(s, "archived") /\ chosen' \subseteq chosen /\ choosing' = choosing
        /\ UNCHANGED <<captured, opened, cached, closing, inUse, forgotten>>
    BY <1>3 DEF ArchiveSourceOf, WrittenBy
  <2>2. QED
    BY <2>1, RowsOnly DEF SrcInv, SrcTypes, WriteRegistration
<1>4. QED
  BY <1>1, <1>2, <1>3

LEMMA SelectInv ==
    ASSUME SrcInv, SelectLocally \/ BeginSelect \/ DeleteSelected \/ CommitSelect
    PROVE  SrcInv'
<1>1. UNCHANGED <<registration, captured, opened, cached, closing, inUse, forgotten>>
  BY DEF SelectLocally, BeginSelect, DeleteSelected, CommitSelect, rowVars, cacheVars
<1>2. CASE SelectLocally
  <2>1. UNCHANGED choosing /\ \E want \in SUBSET ToolSource : chosen' = RowsOf(want, selects + 1)
    BY <1>2 DEF SelectLocally
  <2>2. QED
    BY <1>1, <2>1, RowsOnly DEF SrcInv, SrcTypes, RowsOf
<1>3. CASE BeginSelect
  <2>1. UNCHANGED chosen
    BY <1>3 DEF BeginSelect
  <2>2. PICK want \in SUBSET ToolSource :
          choosing' = choosing \cup {[id |-> selects + 1, want |-> want, deleted |-> FALSE, seen |-> {}]}
    BY <1>3 DEF BeginSelect
  <2>3. \A t \in choosing' : t \in choosing \/ t.want = want
    BY <2>2
  <2>4. QED
    BY <1>1, <2>1, <2>3, RowsOnly DEF SrcInv, SrcTypes
<1>4. CASE DeleteSelected
  <2>1. PICK t \in choosing :
          choosing' = (choosing \ {t}) \cup {[t EXCEPT !.deleted = TRUE, !.seen = chosen]}
    BY <1>4 DEF DeleteSelected
  <2>2. UNCHANGED chosen
    BY <1>4 DEF DeleteSelected
  <2>3. [t EXCEPT !.deleted = TRUE, !.seen = chosen].want = t.want
    OBVIOUS
  <2>4. QED
    BY <1>1, <2>1, <2>2, <2>3, RowsOnly DEF SrcInv, SrcTypes
<1>5. CASE CommitSelect
  <2>1. PICK t \in choosing :
          /\ choosing' = choosing \ {t}
          /\ chosen' = IF Conflicts(t) THEN chosen ELSE (chosen \ t.seen) \cup RowsOf(t.want, t.id)
    BY <1>5 DEF CommitSelect
  <2>2. QED
    BY <1>1, <2>1, RowsOnly DEF SrcInv, SrcTypes, RowsOf
<1>6. QED
  BY <1>2, <1>3, <1>4, <1>5

\* What is let go waits to be closed.
LEMMA LetGoInv ==
    ASSUME SrcInv, NEW keys \in SUBSET Key, LetGo(keys),
           UNCHANGED <<rowVars, chatVars, captured, opened, inUse, forgotten>>
    PROVE  SrcInv'
<1>1. /\ closing \subseteq closing' /\ cached' = [k \in Key |-> IF k \in keys THEN 0 ELSE cached[k]]
      /\ UNCHANGED <<registration, chosen, choosing>>
  BY DEF LetGo, rowVars, chatVars
<1>2. SrcTypes'
  BY <1>1 DEF SrcInv, SrcTypes
<1>3. CacheFits' /\ RunsAreQueued' /\ RunsUseWhatWasCaptured'
  BY <1>1 DEF SrcInv, CacheFits, RunsAreQueued, SourcesAreFaithful, RunsUseWhatWasCaptured
<1>4. OpenAdaptersAreHeld'
  <2> SUFFICES ASSUME NEW i \in DOMAIN opened \ forgotten, opened[i].state \in {"opening", "open"}
               PROVE  (\E k \in Key : cached'[k] = i) \/ \E let \in closing' : i \in let
    BY DEF OpenAdaptersAreHeld
  <2>1. CASE \E let \in closing : i \in let
    BY <1>1, <2>1
  <2>2. ASSUME NEW k \in Key, cached[k] = i PROVE (\E q \in Key : cached'[q] = i) \/ \E let \in closing' : i \in let
    <3>1. CASE k \notin keys
      BY <1>1, <2>2, <3>1
    <3>2. CASE k \in keys
      <4>1. i # 0
        BY DEF SrcInv, SrcTypes
      <4>2. {cached[q] : q \in keys} \ {0} \in closing'
        BY <2>2, <3>2, <4>1 DEF LetGo
      <4>3. QED
        BY <2>2, <3>2, <4>1, <4>2
    <3>3. QED
      BY <3>1, <3>2
  <2>3. QED
    BY <2>1, <2>2 DEF SrcInv, SourcesAreFaithful, OpenAdaptersAreHeld
<1>5. QED
  BY <1>2, <1>3, <1>4 DEF SrcInv, SourcesAreFaithful

LEMMA CaptureInv == ASSUME SrcInv, NEW g \in SrcRun, CaptureSources(g) \/ Queue(g) PROVE SrcInv'
<1>1. /\ UNCHANGED <<registration, chosen, choosing, opened, cached, closing, inUse, forgotten>>
  BY DEF CaptureSources, Queue, rowVars, chatVars, cacheVars
<1>2. captured \in [SrcRun -> [state: {"none", "read", "queued"}, sources: SUBSET Key]]
  BY DEF SrcInv, SrcTypes
<1>3. /\ captured' \in [SrcRun -> [state: {"none", "read", "queued"}, sources: SUBSET Key]]
      /\ \A h \in SrcRun : captured'[h] = captured[h] \/ captured[h].state = "none"
                        \/ (captured'[h].sources = captured[h].sources /\ captured'[h].state = "queued")
  <2>1. CASE Queue(g)
    BY <1>2, <2>1 DEF Queue
  <2>2. CASE CaptureSources(g)
    <3> DEFINE srcs == {SnapshotOf(r[1]) : r \in {c \in chosen : registration[c[1]].status = "active"}}
    <3>1. srcs \in SUBSET Key
      BY DEF SrcInv, SrcTypes, SnapshotOf, Key
    <3>2. captured' = [captured EXCEPT ![g] = [state |-> "read", sources |-> srcs]] /\ captured[g].state = "none"
      BY <2>2 DEF CaptureSources
    <3> HIDE DEF srcs
    <3>3. QED
      BY <1>2, <3>1, <3>2
  <2>3. QED
    BY <2>1, <2>2
<1>4. SrcTypes'
  BY <1>1, <1>3 DEF SrcInv, SrcTypes
<1>5. CacheFits' /\ OpenAdaptersAreHeld'
  BY <1>1 DEF SrcInv, CacheFits, SourcesAreFaithful, OpenAdaptersAreHeld
<1>6. RunsAreQueued' /\ RunsUseWhatWasCaptured'
  <2> SUFFICES ASSUME NEW h \in SrcRun, inUse'[h] # {}
               PROVE  /\ captured'[h].state = "queued"
                      /\ {opened'[i].source : i \in inUse'[h]} = captured'[h].sources
    BY DEF RunsAreQueued, RunsUseWhatWasCaptured
  <2>1. captured[h].state = "queued" /\ {opened[i].source : i \in inUse[h]} = captured[h].sources
    BY <1>1 DEF SrcInv, RunsAreQueued, SourcesAreFaithful, RunsUseWhatWasCaptured
  <2>2. QED
    BY <1>1, <1>3, <2>1
<1>7. QED
  BY <1>4, <1>5, <1>6 DEF SrcInv, SourcesAreFaithful

\* The adapters change their state, and the rows stay.
LEMMA AdaptersInv ==
    ASSUME SrcInv, UNCHANGED <<registration, chosen, choosing, captured, inUse>>,
           opened' \in Seq(SrcAdapter), Len(opened') = Len(opened),
           \A i \in DOMAIN opened : opened'[i].key = opened[i].key /\ opened'[i].source = opened[i].source,
           cached' \in [Key -> Nat], \A k \in Key : cached'[k] \in {cached[k], 0},
           OpenAdaptersAreHeld'
    PROVE  SrcInv'
<1>1. DOMAIN opened' = DOMAIN opened
  BY DEF SrcInv, SrcTypes
<1>2. SrcTypes'
  BY <1>1 DEF SrcInv, SrcTypes
<1>3. CacheFits'
  BY <1>1 DEF SrcInv, CacheFits
<1>4. RunsAreQueued'
  BY DEF SrcInv, RunsAreQueued
<1>5. RunsUseWhatWasCaptured'
  <2>1. \A g \in SrcRun : {opened'[i].source : i \in inUse[g]} = {opened[i].source : i \in inUse[g]}
    BY DEF SrcInv, SrcTypes
  <2>2. QED
    BY <2>1 DEF SrcInv, SourcesAreFaithful, RunsUseWhatWasCaptured
<1>6. QED
  BY <1>2, <1>3, <1>4, <1>5 DEF SrcInv, SourcesAreFaithful

LEMMA CallToolInv == ASSUME SrcInv, NEW g \in SrcRun, CallTool(g) PROVE SrcInv'
<1>1. PICK i \in inUse[g] : Connects(i)
  BY DEF CallTool
<1>2. i \in DOMAIN opened /\ opened \in Seq(SrcAdapter) /\ opened[i] \in SrcAdapter
  BY DEF SrcInv, SrcTypes
<1>3. opened' = [opened EXCEPT ![i] = [opened[i] EXCEPT !.connection = TRUE]]
  BY <1>1 DEF Connects
<1>4. [opened[i] EXCEPT !.connection = TRUE] \in SrcAdapter
      /\ [opened[i] EXCEPT !.connection = TRUE].key = opened[i].key
      /\ [opened[i] EXCEPT !.connection = TRUE].source = opened[i].source
      /\ [opened[i] EXCEPT !.connection = TRUE].state = opened[i].state
  BY <1>2 DEF SrcAdapter
<1>5. /\ opened' \in Seq(SrcAdapter) /\ Len(opened') = Len(opened) /\ DOMAIN opened' = DOMAIN opened
      /\ \A j \in DOMAIN opened : /\ opened'[j].key = opened[j].key /\ opened'[j].source = opened[j].source
                                  /\ opened'[j].state = opened[j].state
  BY <1>2, <1>3, <1>4
<1>6. UNCHANGED <<registration, chosen, choosing, captured, cached, closing, inUse, forgotten>>
  BY DEF CallTool, rowVars, chatVars
<1>7. OpenAdaptersAreHeld'
  BY <1>5, <1>6 DEF SrcInv, SourcesAreFaithful, OpenAdaptersAreHeld
<1>8. QED
  BY <1>5, <1>6, <1>7, AdaptersInv DEF SrcInv, SrcTypes

LEMMA OpenSucceedsInv == ASSUME SrcInv, NEW i \in DOMAIN opened, OpenSucceeds(i) PROVE SrcInv'
<1>1. opened \in Seq(SrcAdapter) /\ opened[i].state = "opening" /\ opened[i] \in SrcAdapter
  BY DEF SrcInv, SrcTypes, OpenSucceeds
<1>2. opened' = [opened EXCEPT ![i] = [opened[i] EXCEPT !.state = "open"]]
  BY DEF OpenSucceeds
<1>3. [opened[i] EXCEPT !.state = "open"] \in SrcAdapter
      /\ [opened[i] EXCEPT !.state = "open"].key = opened[i].key
      /\ [opened[i] EXCEPT !.state = "open"].source = opened[i].source
  BY <1>1 DEF SrcAdapter, SrcStates
<1>4. /\ opened' \in Seq(SrcAdapter) /\ Len(opened') = Len(opened) /\ DOMAIN opened' = DOMAIN opened
      /\ \A j \in DOMAIN opened : /\ opened'[j].key = opened[j].key /\ opened'[j].source = opened[j].source
                                  /\ j # i => opened'[j].state = opened[j].state
  BY <1>1, <1>2, <1>3
<1>5. UNCHANGED <<registration, chosen, choosing, captured, cached, closing, inUse, forgotten>>
  BY DEF OpenSucceeds, rowVars, chatVars
<1>6. OpenAdaptersAreHeld'
  BY <1>1, <1>4, <1>5 DEF SrcInv, SourcesAreFaithful, OpenAdaptersAreHeld
<1>7. QED
  BY <1>4, <1>5, <1>6, AdaptersInv DEF SrcInv, SrcTypes

\* The key goes from the cache, and whoever had it by then is forgotten.
LEMMA OpenFailsInv == ASSUME SrcInv, NEW i \in DOMAIN opened, OpenFails(i) PROVE SrcInv'
<1> DEFINE a == [opened[i] EXCEPT !.state = "failed"]
<1>1. /\ opened \in Seq(SrcAdapter) /\ opened[i] \in SrcAdapter /\ opened[i].key \in Key
      /\ cached \in [Key -> Nat]
  <2>1. opened \in Seq(SrcAdapter) /\ opened[i] \in SrcAdapter /\ cached \in [Key -> Nat]
    BY DEF SrcInv, SrcTypes
  <2>2. QED
    BY <2>1 DEF SrcAdapter
<1>2. opened' = [opened EXCEPT ![i] = a]
  BY DEF OpenFails
<1>3. a \in SrcAdapter /\ a.key = opened[i].key /\ a.source = opened[i].source /\ a.state = "failed"
  BY <1>1 DEF SrcAdapter, SrcStates
<1> HIDE DEF a
<1>4. /\ opened' \in Seq(SrcAdapter) /\ Len(opened') = Len(opened) /\ DOMAIN opened' = DOMAIN opened
      /\ opened'[i].state = "failed"
      /\ \A j \in DOMAIN opened : /\ opened'[j].key = opened[j].key /\ opened'[j].source = opened[j].source
                                  /\ j # i => opened'[j].state = opened[j].state
  BY <1>1, <1>2, <1>3
<1>5. UNCHANGED <<registration, chosen, choosing, captured, closing, inUse>>
  BY DEF OpenFails, rowVars, chatVars
<1>6. /\ cached' \in [Key -> Nat] /\ cached'[opened[i].key] = 0
      /\ \A k \in Key : k # opened[i].key => cached'[k] = cached[k]
      /\ forgotten' = forgotten \cup ({cached[opened[i].key]} \ {0, i})
  BY <1>1 DEF OpenFails
<1>7. OpenAdaptersAreHeld'
  <2> SUFFICES ASSUME NEW j \in DOMAIN opened \ forgotten', opened'[j].state \in {"opening", "open"}
               PROVE  (\E k \in Key : cached'[k] = j) \/ \E let \in closing : j \in let
    BY <1>4, <1>5 DEF OpenAdaptersAreHeld
  <2>1. j # i /\ j \notin forgotten /\ opened[j].state \in {"opening", "open"} /\ j # 0
    BY <1>1, <1>4, <1>6
  <2>2. CASE \E k \in Key : cached[k] = j
    BY <1>6, <2>1, <2>2
  <2>3. QED
    BY <2>1, <2>2 DEF SrcInv, SourcesAreFaithful, OpenAdaptersAreHeld
<1>8. QED
  BY <1>4, <1>5, <1>6, <1>7, AdaptersInv

\* Adapters that are let go together are closed together, those that did open.
LEMMA CloseAdaptersInv == ASSUME SrcInv, CloseAdapters PROVE SrcInv'
<1>1. PICK let \in closing :
        /\ \A i \in let : opened[i].state # "opening"
        /\ closing' = closing \ {let}
        /\ opened' = [i \in DOMAIN opened |->
              IF i \in let /\ opened[i].state = "open"
              THEN Closed(opened[i]) ELSE opened[i]]
  BY DEF CloseAdapters
<1>2. opened \in Seq(SrcAdapter) /\ \A i \in DOMAIN opened : opened[i] \in SrcAdapter
  BY DEF SrcInv, SrcTypes
<1>3. \A a \in SrcAdapter : /\ Closed(a) \in SrcAdapter /\ Closed(a).key = a.key /\ Closed(a).source = a.source
                            /\ Closed(a).state = "closed"
  <2> SUFFICES ASSUME NEW a \in SrcAdapter
               PROVE  /\ Closed(a) \in SrcAdapter /\ Closed(a).key = a.key /\ Closed(a).source = a.source
                      /\ Closed(a).state = "closed"
    OBVIOUS
  <2>1. Closed(a) = [key |-> a.key, source |-> a.source, state |-> "closed", connection |-> FALSE]
    <3>1. PICK v : v = [a EXCEPT !.state = "closed", !.connection = FALSE]
      OBVIOUS
    <3>2. v = [key |-> a.key, source |-> a.source, state |-> "closed", connection |-> FALSE]
      BY <3>1 DEF SrcAdapter
    <3>3. QED
      BY <3>1, <3>2 DEF Closed
  <2>2. QED
    BY <2>1 DEF SrcAdapter, SrcStates
<1> HIDE DEF Closed
<1>4. /\ DOMAIN opened' = DOMAIN opened /\ \A i \in DOMAIN opened : opened'[i] \in SrcAdapter
      /\ \A j \in DOMAIN opened : /\ opened'[j].key = opened[j].key /\ opened'[j].source = opened[j].source
                                  /\ opened'[j].state = opened[j].state
                                     \/ opened'[j].state = "closed"
                                  /\ j \in let => opened'[j].state \notin {"opening", "open"}
  BY <1>1, <1>2, <1>3
<1>5. opened' \in Seq(SrcAdapter) /\ Len(opened') = Len(opened)
  BY <1>1, <1>2, <1>4
<1>6. UNCHANGED <<registration, chosen, choosing, captured, cached, inUse, forgotten>>
  BY DEF CloseAdapters, rowVars, chatVars
<1>7. OpenAdaptersAreHeld'
  <2> SUFFICES ASSUME NEW j \in DOMAIN opened \ forgotten, opened'[j].state \in {"opening", "open"}
               PROVE  (\E k \in Key : cached[k] = j) \/ \E l \in closing' : j \in l
    BY <1>4, <1>6 DEF OpenAdaptersAreHeld
  <2>1. opened[j].state \in {"opening", "open"} /\ j \notin let
    BY <1>4
  <2>2. QED
    BY <1>1, <2>1 DEF SrcInv, SourcesAreFaithful, OpenAdaptersAreHeld
<1>8. QED
  BY <1>4, <1>5, <1>6, <1>7, AdaptersInv DEF SrcInv, SrcTypes

\* An attempt gets for each pair it captured the adapter that is cached for it, or a new one.
LEMMA ResolveInv == ASSUME SrcInv, NEW g \in SrcRun, ResolveSources(g) PROVE SrcInv'
<1> DEFINE missing == {p \in captured[g].sources : cached[CacheKey(p)] = 0}
           new     == SetToSeq(missing)
           spots(k)   == {i \in DOMAIN new : CacheKey(new[i]) = k}
           n       == Len(opened)
<1>1. /\ opened \in Seq(SrcAdapter) /\ cached \in [Key -> Nat] /\ n \in Nat /\ DOMAIN opened = 1..n
      /\ captured[g].sources \in SUBSET Key
      /\ captured \in [SrcRun -> [state: {"none", "read", "queued"}, sources: SUBSET Key]]
      /\ inUse \in [SrcRun -> SUBSET DOMAIN opened]
      /\ \A k \in Key : cached[k] # 0 => cached[k] \in DOMAIN opened /\ opened[cached[k]].key = k
      /\ \A i \in DOMAIN opened : opened[i].key = opened[i].source /\ opened[i] \in SrcAdapter
  BY DEF SrcInv, SrcTypes, CacheFits
<1>2. \A p \in Key : CacheKey(p) = p
  BY DEF Key, CacheKey
<1>3. IsFiniteSet(missing) /\ missing \in SUBSET Key
  <2>1. IsFiniteSet(Revision)
    BY ToolSrcAssumption, FS_Interval DEF ToolSrcAssumption, Revision
  <2>2. IsFiniteSet(Key)
    BY <2>1, ToolSrcAssumption, FS_Product DEF ToolSrcAssumption, Key
  <2>3. QED
    BY <1>1, <2>2, FS_Subset
<1>4. /\ new \in Seq(missing) /\ Len(new) \in Nat /\ DOMAIN new = 1..Len(new)
      /\ \A p \in missing : \E i \in DOMAIN new : new[i] = p
      /\ IsInjective(new)
  BY <1>3, SetToSeqLists
<1>5. /\ captured[g].state = "queued" /\ inUse[g] = {}
      /\ opened' = opened \o [i \in DOMAIN new |-> Opening(new[i])]
      /\ cached' = [k \in Key |-> IF spots(k) = {} THEN cached[k] ELSE n + CHOOSE i \in spots(k) : TRUE]
      /\ inUse' = [inUse EXCEPT ![g] = {cached'[CacheKey(p)] : p \in captured[g].sources}]
      /\ UNCHANGED <<registration, chosen, choosing, captured, closing, forgotten>>
  BY DEF ResolveSources, rowVars, chatVars
<1> HIDE DEF missing, new
<1>6. \A i \in DOMAIN new : new[i] \in missing /\ new[i] \in Key
  BY <1>3, <1>4
<1>7. \A i \in DOMAIN new : /\ Opening(new[i]) \in SrcAdapter /\ Opening(new[i]).key = new[i]
                            /\ Opening(new[i]).source = new[i] /\ Opening(new[i]).state = "opening"
  BY <1>2, <1>6 DEF Opening, SrcAdapter, SrcStates
<1> HIDE DEF Opening
<1>8. /\ opened' \in Seq(SrcAdapter) /\ DOMAIN opened' = 1..(n + Len(new))
      /\ \A i \in DOMAIN opened : i \in DOMAIN opened' /\ opened'[i] = opened[i]
      /\ \A i \in DOMAIN new : n + i \in DOMAIN opened' /\ opened'[n + i] = Opening(new[i])
      /\ \A j \in DOMAIN opened' : j \in DOMAIN opened \/ \E i \in DOMAIN new : j = n + i
  <2> DEFINE more == [i \in DOMAIN new |-> Opening(new[i])]
  <2>1. more \in Seq(SrcAdapter) /\ Len(more) = Len(new)
    BY <1>4, <1>7
  <2>2. \A i \in DOMAIN new : more[i] = Opening(new[i])
    OBVIOUS
  <2> HIDE DEF more
  <2>3. opened' = opened \o more
    BY <1>5 DEF more
  <2>4. opened' \in Seq(SrcAdapter) /\ Len(opened') = n + Len(new) /\ DOMAIN opened' = 1..(n + Len(new))
    BY <1>1, <1>4, <2>1, <2>3
  <2>5. \A i \in DOMAIN opened : i \in DOMAIN opened' /\ opened'[i] = opened[i]
    BY <1>1, <1>4, <2>1, <2>3
  <2>6. \A i \in DOMAIN new : n + i \in DOMAIN opened' /\ opened'[n + i] = Opening(new[i])
    BY <1>1, <1>4, <2>1, <2>2, <2>3
  <2>7. \A j \in DOMAIN opened' : j \in DOMAIN opened \/ (j - n \in DOMAIN new /\ j = n + (j - n))
    BY <1>1, <1>4, <2>4
  <2>8. QED
    BY <2>4, <2>5, <2>6, <2>7
<1>9. ASSUME NEW k \in Key
      PROVE  /\ (k \notin missing /\ cached'[k] = cached[k])
                \/ (k \in missing /\ \E i \in DOMAIN new : new[i] = k /\ cached'[k] = n + i)
  <2>1. spots(k) = {i \in DOMAIN new : new[i] = k}
    BY <1>2, <1>6
  <2>2. CASE k \in missing
    <3>1. spots(k) # {}
      BY <1>4, <2>1, <2>2
    <3>2. cached'[k] = n + CHOOSE i \in spots(k) : TRUE
      BY <1>5, <3>1
    <3>3. (CHOOSE i \in spots(k) : TRUE) \in spots(k)
      BY <3>1
    <3>4. QED
      BY <2>1, <2>2, <3>2, <3>3
  <2>3. CASE k \notin missing
    <3>1. spots(k) = {}
      BY <1>6, <2>1, <2>3
    <3>2. QED
      BY <1>5, <2>3, <3>1
  <2>4. QED
    BY <2>2, <2>3
<1>10. cached' \in [Key -> Nat]
  <2>1. \A k \in Key : cached'[k] \in Nat
    BY <1>1, <1>4, <1>9
  <2>2. QED
    BY <1>5, <2>1
<1>11. \A k \in Key : cached'[k] # 0 => cached'[k] \in DOMAIN opened' /\ opened'[cached'[k]].key = k
  <2> SUFFICES ASSUME NEW k \in Key, cached'[k] # 0
               PROVE  cached'[k] \in DOMAIN opened' /\ opened'[cached'[k]].key = k
    OBVIOUS
  <2>1. CASE k \notin missing /\ cached'[k] = cached[k]
    BY <1>1, <1>8, <2>1
  <2>2. ASSUME NEW i \in DOMAIN new, new[i] = k, cached'[k] = n + i
        PROVE  cached'[k] \in DOMAIN opened' /\ opened'[cached'[k]].key = k
    BY <1>7, <1>8, <2>2
  <2>3. QED
    BY <1>9, <2>1, <2>2
<1>12. \A i \in DOMAIN opened' : opened'[i].key = opened'[i].source
  BY <1>1, <1>7, <1>8
<1>13. \A p \in captured[g].sources : cached'[p] \in DOMAIN opened' /\ opened'[cached'[p]].source = p
  <2> SUFFICES ASSUME NEW p \in captured[g].sources
               PROVE  cached'[p] \in DOMAIN opened' /\ opened'[cached'[p]].source = p
    OBVIOUS
  <2>1. p \in Key
    BY <1>1
  <2>2. cached'[p] # 0
    <3>1. CASE p \in missing
      BY <1>1, <1>4, <1>9, <2>1, <3>1
    <3>2. CASE p \notin missing
      BY <1>2, <1>9, <2>1, <3>2 DEF missing
    <3>3. QED
      BY <3>1, <3>2
  <2>3. QED
    BY <1>11, <1>12, <2>1, <2>2
<1>14. inUse'[g] = {cached'[p] : p \in captured[g].sources} /\ \A h \in SrcRun : h # g => inUse'[h] = inUse[h]
  <2>1. {cached'[CacheKey(p)] : p \in captured[g].sources} = {cached'[p] : p \in captured[g].sources}
    BY <1>1, <1>2
  <2>2. QED
    BY <1>1, <1>5, <2>1
<1>15. inUse' \in [SrcRun -> SUBSET DOMAIN opened']
  <2>1. \A h \in SrcRun : inUse'[h] \in SUBSET DOMAIN opened'
    BY <1>1, <1>8, <1>13, <1>14
  <2>2. QED
    BY <1>1, <1>5, <2>1
<1>16. SrcTypes'
  BY <1>5, <1>8, <1>10, <1>15 DEF SrcInv, SrcTypes
<1>17. CacheFits'
  BY <1>11, <1>12 DEF CacheFits
<1>18. RunsAreQueued'
  BY <1>5, <1>14 DEF SrcInv, RunsAreQueued
<1>19. RunsUseWhatWasCaptured'
  <2> SUFFICES ASSUME NEW h \in SrcRun, inUse'[h] # {}
               PROVE  {opened'[i].source : i \in inUse'[h]} = captured[h].sources
    BY <1>5 DEF RunsUseWhatWasCaptured
  <2>1. CASE h = g
    BY <1>13, <1>14, <2>1
  <2>2. CASE h # g
    <3>1. {opened[i].source : i \in inUse[h]} = captured[h].sources
      BY <1>14, <2>2 DEF SrcInv, SourcesAreFaithful, RunsUseWhatWasCaptured
    <3>2. \A i \in inUse[h] : opened'[i] = opened[i]
      BY <1>1, <1>8
    <3>3. QED
      BY <1>14, <2>2, <3>1, <3>2
  <2>3. QED
    BY <2>1, <2>2
<1>20. OpenAdaptersAreHeld'
  <2> SUFFICES ASSUME NEW j \in DOMAIN opened' \ forgotten, opened'[j].state \in {"opening", "open"}
               PROVE  (\E k \in Key : cached'[k] = j) \/ \E let \in closing : j \in let
    BY <1>5 DEF OpenAdaptersAreHeld
  <2>1. CASE j \in DOMAIN opened
    <3>1. (\E k \in Key : cached[k] = j) \/ \E let \in closing : j \in let
      BY <1>8, <2>1 DEF SrcInv, SourcesAreFaithful, OpenAdaptersAreHeld
    <3>2. ASSUME NEW k \in Key, cached[k] = j PROVE cached'[k] = j
      <4>1. j # 0 /\ k \notin missing
        BY <1>1, <1>2, <2>1, <3>2 DEF missing
      <4>2. QED
        BY <1>9, <3>2, <4>1
    <3>3. QED
      BY <3>1, <3>2
  <2>2. ASSUME NEW i \in DOMAIN new, j = n + i PROVE \E k \in Key : cached'[k] = j
    <3>1. new[i] \in missing /\ new[i] \in Key
      BY <1>6
    <3>2. PICK m \in DOMAIN new : new[m] = new[i] /\ cached'[new[i]] = n + m
      BY <1>9, <3>1
    <3>3. m = i
      BY <1>4, <3>2 DEF IsInjective
    <3>4. QED
      BY <2>2, <3>1, <3>2, <3>3
  <2>3. QED
    BY <1>8, <2>1, <2>2
<1>21. QED
  BY <1>16, <1>17, <1>18, <1>19, <1>20 DEF SrcInv, SourcesAreFaithful

LEMMA LeaveInv == ASSUME SrcInv, NEW g \in SrcRun, LeaveSources(g) PROVE SrcInv'
<1>1. /\ UNCHANGED <<registration, chosen, choosing, captured, opened, cached, closing, forgotten>>
      /\ inUse' = [inUse EXCEPT ![g] = {}]
  BY DEF LeaveSources, rowVars, chatVars, cacheVars
<1>2. SrcTypes'
  BY <1>1 DEF SrcInv, SrcTypes
<1>3. CacheFits' /\ OpenAdaptersAreHeld'
  BY <1>1 DEF SrcInv, CacheFits, SourcesAreFaithful, OpenAdaptersAreHeld
<1>4. \A h \in SrcRun : inUse'[h] = {} \/ inUse'[h] = inUse[h]
  BY <1>1 DEF SrcInv, SrcTypes
<1>5. RunsAreQueued' /\ RunsUseWhatWasCaptured'
  BY <1>1, <1>4 DEF SrcInv, RunsAreQueued, SourcesAreFaithful, RunsUseWhatWasCaptured
<1>6. QED
  BY <1>2, <1>3, <1>5 DEF SrcInv, SourcesAreFaithful

LEMMA ToolSrcNextInv == ASSUME SrcInv, [ToolSrcNext]_toolSrcVars PROVE SrcInv'
<1>1. CASE \E s \in ToolSource : CreateRegistration(s) \/ UpdateRegistration(s) \/ ArchiveSourceOf(s)
  BY <1>1, RegistrationInv
<1>2. ASSUME NEW s \in ToolSource, CloseCached(s) PROVE SrcInv'
  <2>1. KeysOf(s) \in SUBSET Key
    BY DEF KeysOf
  <2>2. QED
    BY <1>2, <2>1, LetGoInv DEF CloseCached
<1>3. CASE CloseRegistry
  BY <1>3, LetGoInv DEF CloseRegistry
<1>4. CASE SelectLocally \/ BeginSelect \/ DeleteSelected \/ CommitSelect
  BY <1>4, SelectInv
<1>5. ASSUME NEW g \in SrcRun,
             CaptureSources(g) \/ Queue(g) \/ ResolveSources(g) \/ CallTool(g) \/ LeaveSources(g)
      PROVE  SrcInv'
  BY <1>5, CaptureInv, ResolveInv, CallToolInv, LeaveInv
<1>6. ASSUME NEW i \in DOMAIN opened, OpenSucceeds(i) \/ OpenFails(i) PROVE SrcInv'
  BY <1>6, OpenSucceedsInv, OpenFailsInv
<1>7. CASE CloseAdapters
  BY <1>7, CloseAdaptersInv
<1>8. CASE UNCHANGED toolSrcVars
  <2>1. UNCHANGED <<registration, chosen, choosing, captured, opened, cached, closing, inUse, forgotten>>
    BY <1>8 DEF toolSrcVars
  <2>2. QED
    BY <2>1, RowsOnly DEF SrcInv, SrcTypes
<1>9. QED
  BY <1>1, <1>2, <1>3, <1>4, <1>5, <1>6, <1>7, <1>8 DEF ToolSrcNext

\* A run is given the adapters of the very revisions its generation captured, whatever is updated,
\* archived, closed or opened again meanwhile, and an adapter that is open can still be closed, but
\* for one that the failure of another of its key made be forgotten (ToolSourceRegistry.resolve,
\* #open, #closeCached and close), for any registered sources, generations and bounds.
THEOREM ToolSourcesStayFaithful == ToolSrcSpec => []SourcesAreFaithful
<1>1. SrcInv => SourcesAreFaithful
  BY DEF SrcInv
<1>2. QED
  BY <1>1, SrcInitInv, ToolSrcNextInv, PTL DEF ToolSrcSpec

----------------------------------------------------------------------------
(* Sources: what every way to make a version keeps of its parent *)

\* A set of natural numbers has a least one.
LEMMA LeastNat == ASSUME NEW T \in SUBSET Nat, T # {} PROVE \E n \in T : \A m \in T : n <= m
<1>1. IsWellFoundedOn(OpToRel(<, Nat), Nat)
  BY NatLessThanWellFounded
<1>2. PICK n \in T : \A m \in T : ~(<<m, n>> \in OpToRel(<, Nat))
  BY <1>1, WFMin
<1>3. \A m \in T : ~(m < n)
  BY <1>2 DEF OpToRel
<1>4. QED
  BY <1>3

Tree == Partial(SrcPath, Entry)

LEMMA TreeIs ==
    \A t : t \in Tree <=> /\ t = [p \in DOMAIN t |-> t[p]] /\ DOMAIN t \subseteq SrcPath
                          /\ \A p \in DOMAIN t : t[p] \in Entry
BY DEF Tree, Partial

KeepsLocks(tree, t) ==
    \A p \in DOMAIN tree : tree[p].locked => p \in DOMAIN t /\ t[p] = tree[p]

LEMMA AfterChangeKeeps ==
    ASSUME NEW tree \in Tree, NEW c \in SourceChange, NEW t \in AfterChange(tree, c)
    PROVE  t \in Tree /\ KeepsLocks(tree, t)
<1>1. /\ tree = [p \in DOMAIN tree |-> tree[p]] /\ DOMAIN tree \subseteq SrcPath
      /\ \A p \in DOMAIN tree : tree[p] \in Entry
  BY TreeIs
<1>2. CASE c \in [type : {"write"}, path : SrcPath, content : SrcText]
  <2>1. t = Overlay(At(c.path, Plain(c.content)), tree) /\ Unlocked(tree, c.path)
    BY <1>2 DEF AfterChange
  <2>2. Plain(c.content) \in Entry /\ c.path \in SrcPath
    BY <1>2 DEF Plain, Entry, Content
  <2>3. t = [p \in DOMAIN tree \cup {c.path} |-> IF p = c.path THEN Plain(c.content) ELSE tree[p]]
    BY <2>1 DEF Overlay, At
  <2>4. t \in Tree
    BY <1>1, <2>2, <2>3, TreeIs
  <2>5. KeepsLocks(tree, t)
    BY <2>1, <2>3 DEF KeepsLocks, Unlocked
  <2>6. QED
    BY <2>4, <2>5
<1>3. CASE c \in [type : {"delete"}, path : SrcPath]
  <2>1. t = Without(tree, c.path) /\ Unlocked(tree, c.path)
    BY <1>3 DEF AfterChange
  <2>2. t = [p \in DOMAIN tree \ {c.path} |-> tree[p]]
    BY <2>1 DEF Without, Restrict
  <2>3. t \in Tree
    BY <1>1, <2>2, TreeIs
  <2>4. KeepsLocks(tree, t)
    BY <2>1, <2>2 DEF KeepsLocks, Unlocked
  <2>5. QED
    BY <2>3, <2>4
<1>4. CASE c \in [type : {"move"}, from : SrcPath, to : SrcPath]
  <2>1. /\ t = Overlay(At(c.to, tree[c.from]), Without(tree, c.from))
        /\ Unlocked(tree, c.from) /\ c.from \in DOMAIN tree /\ c.to \notin DOMAIN tree
    BY <1>4 DEF AfterChange
  <2>2. t = [p \in (DOMAIN tree \ {c.from}) \cup {c.to} |-> IF p = c.to THEN tree[c.from] ELSE tree[p]]
    BY <2>1 DEF Overlay, At, Without, Restrict
  <2>3. t \in Tree
    BY <1>1, <1>4, <2>1, <2>2, TreeIs
  <2>4. KeepsLocks(tree, t)
    BY <2>1, <2>2 DEF KeepsLocks, Unlocked
  <2>5. QED
    BY <2>3, <2>4
<1>5. QED
  BY <1>2, <1>3, <1>4 DEF SourceChange

AfterStep(tree, changes, g, n) == IF n = 0 THEN {tree} ELSE UNION {AfterChange(t, changes[n]) : t \in g[n - 1]}
IsAfter(tree, changes, g, m) == g = [n \in 0..m |-> AfterStep(tree, changes, g, n)]

LEMMA AfterEachUnfolds ==
    ASSUME NEW tree, NEW changes, Len(changes) \in Nat
    PROVE  IsAfter(tree, changes, AfterEach(tree, changes), Len(changes))
<1> DEFINE Stuck == {m \in Nat : ~\E g : IsAfter(tree, changes, g, m)}
<1>1. Stuck = {}
  <2> SUFFICES ASSUME Stuck # {} PROVE FALSE
    OBVIOUS
  <2>1. PICK m \in Stuck : \A k \in Stuck : m <= k
    BY LeastNat
  <2>2. m # 0
    <3> DEFINE g == [n \in 0..0 |-> {tree}]
    <3>1. IsAfter(tree, changes, g, 0)
      BY DEF IsAfter, AfterStep
    <3>2. QED
      BY <2>1, <3>1
  <2>3. m - 1 \in Nat /\ m - 1 \notin Stuck
    BY <2>1, <2>2
  <2>4. PICK g : IsAfter(tree, changes, g, m - 1)
    BY <2>3
  <2> DEFINE h == [n \in 0..m |-> AfterStep(tree, changes, g, n)]
  <2>5. \A n \in 0..m - 1 : g[n] = AfterStep(tree, changes, g, n) /\ n \in 0..m
    BY <2>3, <2>4 DEF IsAfter
  <2>6. \A n \in 0..m : n # 0 => h[n - 1] = g[n - 1]
    BY <2>3, <2>5
  <2>7. \A n \in 0..m : AfterStep(tree, changes, g, n) = AfterStep(tree, changes, h, n)
    BY <2>6 DEF AfterStep
  <2>8. IsAfter(tree, changes, h, m)
    BY <2>7 DEF IsAfter
  <2>9. QED
    BY <2>1, <2>8
<1>2. \E g : IsAfter(tree, changes, g, Len(changes))
  BY <1>1
<1>3. AfterEach(tree, changes) = CHOOSE g : IsAfter(tree, changes, g, Len(changes))
  BY DEF AfterEach, IsAfter, AfterStep
<1>4. QED
  BY <1>2, <1>3

LEMMA LocksCompose ==
    \A a, b, c : KeepsLocks(a, b) /\ KeepsLocks(b, c) => KeepsLocks(a, c)
BY DEF KeepsLocks

\* No list of changes touches what is locked.
LEMMA AfterEachKeeps ==
    ASSUME NEW tree \in Tree, NEW changes \in Seq(SourceChange)
    PROVE  \A n \in 0..Len(changes) : \A t \in AfterEach(tree, changes)[n] : t \in Tree /\ KeepsLocks(tree, t)
<1> DEFINE A == AfterEach(tree, changes)
           Bad == {n \in 0..Len(changes) : ~\A t \in A[n] : t \in Tree /\ KeepsLocks(tree, t)}
<1>1. Len(changes) \in Nat /\ \A n \in 1..Len(changes) : changes[n] \in SourceChange
  OBVIOUS
<1>2. \A n \in 0..Len(changes) : A[n] = AfterStep(tree, changes, A, n)
  BY <1>1, AfterEachUnfolds DEF IsAfter
<1> HIDE DEF A
<1> SUFFICES ASSUME Bad # {} PROVE FALSE
  BY DEF A
<1>3. Bad \in SUBSET Nat
  BY <1>1
<1>4. PICK n \in Bad : \A m \in Bad : n <= m
  <2> HIDE DEF Bad
  <2>1. QED
    BY <1>3, LeastNat
<1>5. PICK t \in A[n] : ~(t \in Tree /\ KeepsLocks(tree, t))
  OBVIOUS
<1>6. CASE n = 0
  BY <1>2, <1>5, <1>6 DEF AfterStep, KeepsLocks
<1>7. CASE n # 0
  <2>1. n - 1 \in 0..Len(changes) /\ n \in 1..Len(changes) /\ n - 1 \notin Bad
    BY <1>1, <1>4, <1>7
  <2>2. PICK u \in A[n - 1] : t \in AfterChange(u, changes[n])
    <3>1. n \in 0..Len(changes) /\ A[n] = AfterStep(tree, changes, A, n)
      BY <1>2
    <3>2. AfterStep(tree, changes, A, n) = UNION {AfterChange(u, changes[n]) : u \in A[n - 1]}
      BY <1>7 DEF AfterStep
    <3>3. t \in UNION {AfterChange(u, changes[n]) : u \in A[n - 1]}
      BY <1>5, <3>1, <3>2, Zenon
    <3>4. QED
      BY <3>3
  <2>3. u \in Tree /\ KeepsLocks(tree, u)
    BY <2>1, <2>2
  <2>4. t \in Tree /\ KeepsLocks(u, t)
    BY <1>1, <2>1, <2>2, <2>3, AfterChangeKeeps
  <2>5. QED
    BY <1>5, <2>3, <2>4, LocksCompose
<1>8. QED
  BY <1>6, <1>7

LEMMA ApplyChangesKeep ==
    ASSUME NEW tree \in Tree, NEW changes \in Seq(SourceChange), NEW t \in ApplyChanges(tree, changes)
    PROVE  t \in Tree /\ KeepsLocks(tree, t)
<1>1. t \in AfterEach(tree, changes)[Len(changes)] /\ Len(changes) \in 0..Len(changes)
  BY DEF ApplyChanges, NonEmpty
<1>2. QED
  BY <1>1, AfterEachKeeps

\* Nor does a whole project.
LEMMA MergeGeneratedKeeps ==
    ASSUME NEW base \in Tree, NEW files \in Partial(SrcPath, SrcText), NEW t \in MergeGenerated(base, files)
    PROVE  t \in Tree /\ KeepsLocks(base, t)
<1> DEFINE held == {p \in DOMAIN base : base[p].locked}
           next == Kept(base, files)
<1>1. /\ base = [p \in DOMAIN base |-> base[p]] /\ DOMAIN base \subseteq SrcPath
      /\ \A p \in DOMAIN base : base[p] \in Entry
  BY TreeIs
<1>2. DOMAIN files \subseteq SrcPath /\ \A p \in DOMAIN files : files[p] \in SrcText
  BY DEF Partial
<1>3. \A p \in DOMAIN files : Plain(files[p]) \in Entry
  BY <1>2 DEF Plain, Entry, Content
<1>4. next = [p \in DOMAIN files \cup {p \in DOMAIN base : base[p].content = Binary} |->
                 IF p \in DOMAIN files THEN Plain(files[p]) ELSE base[p]]
  BY DEF Kept, Overlay, Restrict
<1>5. next \in Tree
  BY <1>1, <1>2, <1>3, <1>4, TreeIs
<1> HIDE DEF next
<1>6. /\ t = [p \in DOMAIN next |-> IF p \in held THEN base[p] ELSE next[p]]
      /\ \A p \in held : p \in DOMAIN next
  BY DEF MergeGenerated, PreserveLocked, NonEmpty, next
<1>7. DOMAIN next \subseteq SrcPath /\ \A p \in DOMAIN next : next[p] \in Entry
  BY <1>5, TreeIs
<1>8. t \in Tree
  BY <1>1, <1>6, <1>7, TreeIs
<1>9. KeepsLocks(base, t)
  BY <1>6 DEF KeepsLocks
<1>10. QED
  BY <1>8, <1>9

LEMMA ImportsAreTrees ==
    ASSUME NEW input \in FilesInput \cup ZipInput, NEW policy, NEW t \in ImportProjectFiles(input, policy)
    PROVE  t \in Tree
<1>1. PICK u \in InputEntries(input) : t \in ImportFilePolicy(u, policy)
  BY DEF ImportProjectFiles
<1>2. u \in Tree
  <2>1. CASE input \in FilesInput
    BY <1>1, <2>1 DEF InputEntries, NonEmpty, FilesInput, Tree
  <2>2. CASE input \in ZipInput
    <3> DEFINE inputs == input.entries
    <3>1. DOMAIN inputs \subseteq SrcPath /\ \A p \in DOMAIN inputs : inputs[p] \in ZipEntry
      BY <2>2 DEF ZipInput, Partial
    <3>2. input.type = "zip"
      BY <2>2 DEF ZipInput
    <3>3. /\ u = [p \in DOMAIN inputs |-> Plain(CHOOSE c \in DecodeSource(inputs[p]) : TRUE)]
          /\ \A p \in DOMAIN inputs : DecodeSource(inputs[p]) # {}
      BY <1>1, <3>2 DEF InputEntries, NonEmpty, UnzippedEntries
    <3>4. \A x \in ZipEntry : DecodeSource(x) \subseteq Content
      BY DEF DecodeSource, ZipEntry, Content
    <3>5. \A p \in DOMAIN inputs : (CHOOSE c \in DecodeSource(inputs[p]) : TRUE) \in Content
      BY <3>1, <3>3, <3>4
    <3>6. \A x \in Content : Plain(x) \in Entry
      BY DEF Plain, Entry
    <3>7. QED
      BY <3>1, <3>3, <3>5, <3>6, TreeIs
  <2>3. QED
    BY <2>1, <2>2
<1>3. DOMAIN u \subseteq SrcPath /\ \A p \in DOMAIN u : u[p] \in Entry
  BY <1>2, TreeIs
<1> DEFINE locks(S) == [p \in DOMAIN u |-> [u[p] EXCEPT !.locked = @ \/ p \in S]]
<1>4. ASSUME NEW S PROVE locks(S) \in Tree
  <2>1. \A p \in DOMAIN u : [u[p] EXCEPT !.locked = @ \/ p \in S] \in Entry
    <3> SUFFICES ASSUME NEW p \in DOMAIN u PROVE [u[p] EXCEPT !.locked = @ \/ p \in S] \in Entry
      OBVIOUS
    <3>1. PICK h \in BOOLEAN : h = (u[p].locked \/ p \in S)
      OBVIOUS
    <3>2. [u[p] EXCEPT !.locked = h] \in Entry
      BY <1>3 DEF Entry
    <3>3. [u[p] EXCEPT !.locked = @ \/ p \in S] = [u[p] EXCEPT !.locked = h]
      BY <3>1, Zenon
    <3>4. QED
      BY <3>2, <3>3
  <2>2. QED
    BY <1>3, <2>1, TreeIs
<1>5. t = u \/ \E S : t = locks(S)
  BY <1>1, Zenon DEF ImportFilePolicy
<1>6. QED
  BY <1>2, <1>4, <1>5

Files == Partial(SrcPath, Content)

SourceRow ==
    [origin: {"imported", "edited", "forked", "restored", "generated"}, parent: Nat, tree: Tree,
     changes: Seq(SourceChange), passed: SUBSET Commands, captured: BOOLEAN]
WorkspaceRow ==
    [kind: {"workspace"}, base: Nat, tree: Tree, changes: Seq(SourceChange), persisting: Nat,
     committed: BOOLEAN, made: Nat, lost: Nat]
AttemptRow ==
    [kind: {"attempt"}, base: Nat, phase: {"generate", "prepare", "check", "store"}, tree: Tree,
     changes: Seq(SourceChange), sandbox: Files,
     ran: [Commands -> {"waiting", "running", "passed", "failed"}], touched: BOOLEAN]

SourceTypes ==
    /\ sources \in Seq(SourceRow)
    /\ host \in Hosts
    /\ job = Idle \/ job \in WorkspaceRow \/ job \in AttemptRow

\* A parent was stored before its child, and what is under way has its base.
ParentsFit ==
    /\ \A v \in SourceIds : sources[v].parent < v
    /\ job # Idle => job.base <= Len(sources)

\* A workspace persists once at a time.
WorkspaceFits ==
    InWorkspace =>
       /\ job.persisting \in {0, 1}
       /\ IF job.committed THEN job.persisting = 0 /\ job.made = job.lost + 1 ELSE job.made = job.lost

\* The changes of a version give its tree, but for what was captured.
Gives(base, changes, t, isTaken) ==
    \E tree \in ApplyChanges(base, changes) :
       IF isTaken
       THEN /\ DOMAIN tree = DOMAIN t
            /\ \A p \in DOMAIN tree : tree[p] # t[p] => ~tree[p].locked /\ tree[p].content # Binary
       ELSE tree = t

\* The candidate of an attempt keeps what its base locks, and has come as far as its phase says.
AttemptFits ==
    job.kind = "attempt" /\ job.phase # "generate" =>
       /\ KeepsLocks(TreeOf(job.base), job.tree)
       /\ job.changes # <<>> =>
            IF job.phase = "store" /\ host.quality = "capture"
            THEN Gives(TreeOf(job.base), job.changes, job.tree, TRUE)
            ELSE job.tree \in ApplyChanges(TreeOf(job.base), job.changes)
       /\ host.quality # "none" =>
            /\ job.phase # "prepare" => job.ran["install"] = "passed"
            /\ job.phase = "store" => \A c \in Commands : job.ran[c] = "passed"

SourcesInv ==
    SourceTypes /\ ParentsFit /\ WorkspaceFits /\ AttemptFits /\ LocksHold /\ ChangesProduce /\ QualityHeld

LEMMA TreesAreTyped ==
    ASSUME SourceTypes PROVE \A v \in 0..Len(sources) : TreeOf(v) \in Tree
<1>0. sources \in Seq(SourceRow) /\ Len(sources) \in Nat
  BY DEF SourceTypes
<1>1. NoFiles \in Tree
  BY TreeIs DEF NoFiles
<1>2. \A v \in 1..Len(sources) : sources[v] \in SourceRow /\ sources[v].tree \in Tree
  <2>1. \A v \in 1..Len(sources) : sources[v] \in SourceRow
    BY <1>0
  <2>2. QED
    BY <2>1 DEF SourceRow
<1>3. \A v \in 0..Len(sources) : v = 0 \/ v \in 1..Len(sources)
  BY <1>0
<1>4. QED
  BY <1>1, <1>2, <1>3 DEF TreeOf

TreeIn(sq, v) == IF v = 0 THEN NoFiles ELSE sq[v].tree

LEMMA TreesOf ==
    /\ \A v : TreeOf(v) = TreeIn(sources, v) /\ TreeOf(v)' = TreeIn(sources', v)
    /\ LocksHold <=> \A v \in SourceIds :
                       KeepsLocks(TreeIn(sources, sources[v].parent), TreeIn(sources, v))
    /\ LocksHold' <=> \A v \in SourceIds' :
                        KeepsLocks(TreeIn(sources', sources'[v].parent), TreeIn(sources', v))
    /\ ChangesProduce <=> \A v \in SourceIds : sources[v].changes # <<>> =>
          Gives(TreeIn(sources, sources[v].parent), sources[v].changes, TreeIn(sources, v), sources[v].captured)
    /\ ChangesProduce' <=> \A v \in SourceIds' : sources'[v].changes # <<>> =>
          Gives(TreeIn(sources', sources'[v].parent), sources'[v].changes, TreeIn(sources', v),
                sources'[v].captured)
BY DEF TreeOf, TreeIn, LocksHold, ChangesProduce, KeepsLocks, Gives

LEMMA SourcesInitInv == SourcesInit => SourcesInv
<1> SUFFICES ASSUME SourcesInit PROVE SourcesInv
  OBVIOUS
<1>1. sources = <<>> /\ job = Idle /\ Len(sources) = 0 /\ SourceIds = {} /\ host \in Hosts
  BY DEF SourcesInit, SourceIds
<1>2. job.kind = "none"
  BY <1>1 DEF Idle
<1>3. QED
  BY <1>1, <1>2 DEF SourcesInv, SourceTypes, ParentsFit, WorkspaceFits, AttemptFits, LocksHold, ChangesProduce,
                    QualityHeld, InWorkspace

\* The versions stay, and something is under way, or over.
LEMMA JobInv ==
    ASSUME SourcesInv, UNCHANGED <<sources, host>>,
           job' = Idle \/ job' \in WorkspaceRow \/ job' \in AttemptRow,
           job' # Idle => job'.base <= Len(sources), WorkspaceFits', AttemptFits'
    PROVE  SourcesInv'
<1>1. SourceTypes' /\ ParentsFit'
  BY DEF SourcesInv, SourceTypes, ParentsFit, SourceIds
<1>2. LocksHold' /\ ChangesProduce' /\ QualityHeld'
  BY DEF SourcesInv, LocksHold, ChangesProduce, QualityHeld, SourceIds, TreeOf
<1>3. QED
  BY <1>1, <1>2 DEF SourcesInv

LEMMA IdleInv == ASSUME SourcesInv, UNCHANGED <<sources, host>>, job' = Idle PROVE SourcesInv'
<1>1. job'.kind = "none"
  BY DEF Idle
<1>2. WorkspaceFits' /\ AttemptFits'
  BY <1>1 DEF WorkspaceFits, AttemptFits, InWorkspace
<1>3. QED
  BY <1>2, JobInv

\* A version is stored.
LEMMA StoredKeeps ==
    ASSUME SourcesInv, UNCHANGED host, NEW row \in SourceRow, sources' = Append(sources, row),
           row.parent <= Len(sources), KeepsLocks(TreeOf(row.parent), row.tree),
           row.changes # <<>> => Gives(TreeOf(row.parent), row.changes, row.tree, row.captured),
           host.quality # "none" /\ row.origin = "generated" => row.passed = Commands
    PROVE  /\ sources' \in Seq(SourceRow) /\ Len(sources') = Len(sources) + 1 /\ Len(sources) \in Nat
           /\ \A v \in SourceIds' : sources'[v].parent < v
           /\ \A v \in 0..Len(sources) : TreeIn(sources', v) = TreeIn(sources, v)
           /\ LocksHold' /\ ChangesProduce' /\ QualityHeld'
<1> DEFINE n == Len(sources)
<1>1. /\ sources \in Seq(SourceRow) /\ n \in Nat /\ sources' \in Seq(SourceRow) /\ Len(sources') = n + 1
      /\ \A v \in 1..n : sources'[v] = sources[v] /\ sources[v] \in SourceRow
      /\ sources'[n + 1] = row
  BY DEF SourcesInv, SourceTypes
<1>2. /\ SourceIds' = 1..n + 1 /\ SourceIds = 1..n
      /\ \A v \in SourceIds' : v \in 1..n \/ v = n + 1
  BY <1>1 DEF SourceIds
<1>3. \A v \in 0..n : TreeIn(sources', v) = TreeIn(sources, v)
  <2>1. \A v \in 0..n : v = 0 \/ v \in 1..n
    BY <1>1
  <2>2. QED
    BY <1>1, <2>1 DEF TreeIn
<1>4. TreeIn(sources', n + 1) = row.tree
  BY <1>1 DEF TreeIn
<1>5. /\ row.parent \in 0..n
      /\ \A v \in 1..n : sources[v].parent \in 0..n /\ sources[v].parent < v
  <2>1. row.parent \in Nat /\ \A v \in 1..n : sources[v].parent \in Nat
    BY <1>1 DEF SourceRow
  <2>2. \A v \in 1..n : sources[v].parent < v
    BY <1>2 DEF SourcesInv, ParentsFit
  <2>3. QED
    BY <1>1, <2>1, <2>2
<1>6. \A v \in SourceIds' : sources'[v].parent < v
  BY <1>1, <1>2, <1>5
<1>7. LocksHold'
  <2> SUFFICES ASSUME NEW v \in SourceIds'
               PROVE  KeepsLocks(TreeIn(sources', sources'[v].parent), TreeIn(sources', v))
    BY TreesOf
  <2>1. CASE v \in 1..n
    <3>1. KeepsLocks(TreeIn(sources, sources[v].parent), TreeIn(sources, v))
      BY <1>2, <2>1, TreesOf DEF SourcesInv
    <3>2. /\ TreeIn(sources', v) = TreeIn(sources, v)
          /\ TreeIn(sources', sources'[v].parent) = TreeIn(sources, sources[v].parent)
      BY <1>1, <1>3, <1>5, <2>1
    <3>3. QED
      BY <3>1, <3>2
  <2>2. CASE v = n + 1
    <3>1. KeepsLocks(TreeIn(sources, row.parent), row.tree)
      BY TreesOf
    <3>2. QED
      BY <1>1, <1>3, <1>4, <1>5, <2>2, <3>1
  <2>3. QED
    BY <1>2, <2>1, <2>2
<1>8. ChangesProduce'
  <2> SUFFICES ASSUME NEW v \in SourceIds', sources'[v].changes # <<>>
               PROVE  Gives(TreeIn(sources', sources'[v].parent), sources'[v].changes, TreeIn(sources', v),
                            sources'[v].captured)
    BY TreesOf
  <2>1. CASE v \in 1..n
    <3>1. Gives(TreeIn(sources, sources[v].parent), sources[v].changes, TreeIn(sources, v), sources[v].captured)
      BY <1>1, <1>2, <2>1, TreesOf DEF SourcesInv
    <3>2. /\ TreeIn(sources', v) = TreeIn(sources, v)
          /\ TreeIn(sources', sources'[v].parent) = TreeIn(sources, sources[v].parent)
      BY <1>1, <1>3, <1>5, <2>1
    <3>3. QED
      BY <1>1, <2>1, <3>1, <3>2
  <2>2. CASE v = n + 1
    <3>1. TreeIn(sources', row.parent) = TreeIn(sources, row.parent)
      BY <1>3, <1>5
    <3>2. TreeOf(row.parent) = TreeIn(sources, row.parent)
      BY TreesOf
    <3>3. QED
      BY <1>1, <1>4, <2>2, <3>1, <3>2
  <2>3. QED
    BY <1>2, <2>1, <2>2
<1>9. QualityHeld'
  <2> SUFFICES ASSUME host.quality # "none", NEW v \in SourceIds', sources'[v].origin = "generated"
               PROVE  sources'[v].passed = Commands
    BY DEF QualityHeld
  <2>1. CASE v \in 1..n
    BY <1>1, <1>2, <2>1 DEF SourcesInv, QualityHeld
  <2>2. CASE v = n + 1
    BY <1>1, <2>2
  <2>3. QED
    BY <1>2, <2>1, <2>2
<1>10. QED
  BY <1>1, <1>3, <1>6, <1>7, <1>8, <1>9

\* Where nothing is under way.
LEMMA StoredInv ==
    ASSUME SourcesInv, UNCHANGED host, NEW row \in SourceRow, sources' = Append(sources, row),
           row.parent <= Len(sources), KeepsLocks(TreeOf(row.parent), row.tree),
           row.changes # <<>> => Gives(TreeOf(row.parent), row.changes, row.tree, row.captured),
           host.quality # "none" /\ row.origin = "generated" => row.passed = Commands,
           job' = Idle
    PROVE  SourcesInv'
<1>1. job'.kind = "none"
  BY DEF Idle
<1>2. WorkspaceFits' /\ AttemptFits'
  BY <1>1 DEF WorkspaceFits, AttemptFits, InWorkspace
<1>3. /\ sources' \in Seq(SourceRow) /\ LocksHold' /\ ChangesProduce' /\ QualityHeld'
      /\ \A v \in SourceIds' : sources'[v].parent < v
  BY StoredKeeps
<1>4. SourceTypes' /\ ParentsFit'
  BY <1>3 DEF SourcesInv, SourceTypes, ParentsFit
<1>5. QED
  BY <1>2, <1>3, <1>4 DEF SourcesInv

LEMMA ChangeListsAreSeqs ==
    \A max \in Nat : ChangeLists(max) \subseteq Seq(SourceChange)
BY DEF ChangeLists

LEMMA IdsAreIds ==
    ASSUME SourceTypes PROVE \A v \in SourceIds : v \in 0..Len(sources) /\ v \in Nat /\ v <= Len(sources) /\ TreeOf(v) \in Tree
<1>1. sources \in Seq(SourceRow) /\ Len(sources) \in Nat
  BY DEF SourceTypes
<1>2. QED
  BY <1>1, TreesAreTyped DEF SourceIds

LEMMA ImportInv == ASSUME SourcesInv, Import PROVE SourcesInv'
<1>1. PICK input \in FilesInput \cup ZipInput, policy \in LockPolicy :
        \E tree \in ImportProjectFiles(input, policy) :
           sources' = Append(sources, Version("imported", 0, tree, <<>>))
  BY DEF Import
<1>2. PICK tree \in ImportProjectFiles(input, policy) :
        sources' = Append(sources, Version("imported", 0, tree, <<>>))
  BY <1>1
<1>3. UNCHANGED host /\ job' = Idle
  BY DEF Import, MayBegin
<1>4. tree \in Tree /\ <<>> \in Seq(SourceChange) /\ Len(sources) \in Nat
  BY <1>2, ImportsAreTrees DEF SourcesInv, SourceTypes
<1> DEFINE row == Version("imported", 0, tree, <<>>)
<1>5. /\ row \in SourceRow /\ row.origin = "imported" /\ row.parent = 0 /\ row.tree = tree
      /\ row.changes = <<>>
  BY <1>4 DEF Version, SourceRow
<1>6. KeepsLocks(TreeOf(0), tree)
  BY DEF KeepsLocks, TreeOf, NoFiles
<1> HIDE DEF row
<1>7. sources' = Append(sources, row)
  BY <1>2 DEF row
<1>8. QED
  BY <1>3, <1>4, <1>5, <1>6, <1>7, StoredInv

LEMMA ApplyToVersionInv == ASSUME SourcesInv, ApplyToVersion PROVE SourcesInv'
<1>1. PICK v \in SourceIds, changes \in ChangeLists(MaxChanges) :
        \E tree \in ApplyChanges(TreeOf(v), changes) :
           sources' = Append(sources, Version("edited", v, tree, changes))
  BY DEF ApplyToVersion
<1>2. PICK tree \in ApplyChanges(TreeOf(v), changes) :
        sources' = Append(sources, Version("edited", v, tree, changes))
  BY <1>1
<1>3. UNCHANGED host /\ job' = Idle
  BY DEF ApplyToVersion, MayBegin
<1>4. v \in Nat /\ v <= Len(sources) /\ TreeOf(v) \in Tree
  BY IdsAreIds DEF SourcesInv
<1>5. changes \in Seq(SourceChange)
  BY ChangeListsAreSeqs, SourcesAssumption
<1>6. tree \in Tree /\ KeepsLocks(TreeOf(v), tree)
  BY <1>4, <1>5, ApplyChangesKeep
<1>7. Gives(TreeOf(v), changes, tree, FALSE)
  BY DEF Gives
<1> DEFINE row == Version("edited", v, tree, changes)
<1>8. /\ row \in SourceRow /\ row.origin = "edited" /\ row.parent = v /\ row.tree = tree
      /\ row.changes = changes /\ row.captured = FALSE
  BY <1>4, <1>5, <1>6 DEF Version, SourceRow
<1> HIDE DEF row
<1>9. sources' = Append(sources, row)
  BY <1>2 DEF row
<1>10. QED
  BY <1>3, <1>4, <1>6, <1>7, <1>8, <1>9, StoredInv

LEMMA CopyVersionInv == ASSUME SourcesInv, CopyVersion PROVE SourcesInv'
<1>1. PICK v \in SourceIds, origin \in {"forked", "restored"} :
        sources' = Append(sources, Version(origin, v, TreeOf(v), <<>>))
  BY DEF CopyVersion
<1>2. UNCHANGED host /\ job' = Idle
  BY DEF CopyVersion, MayBegin
<1>3. v \in Nat /\ v <= Len(sources) /\ TreeOf(v) \in Tree /\ <<>> \in Seq(SourceChange)
  BY IdsAreIds DEF SourcesInv
<1>4. KeepsLocks(TreeOf(v), TreeOf(v))
  BY DEF KeepsLocks
<1> DEFINE row == Version(origin, v, TreeOf(v), <<>>)
<1>5. /\ row \in SourceRow /\ row.origin = origin /\ row.parent = v /\ row.tree = TreeOf(v)
      /\ row.changes = <<>>
  BY <1>3 DEF Version, SourceRow
<1> HIDE DEF row
<1>6. sources' = Append(sources, row)
  BY <1>1 DEF row
<1>7. QED
  BY <1>2, <1>3, <1>4, <1>5, <1>6, StoredInv

LEMMA WorkspaceIs == ASSUME SourcesInv, InWorkspace PROVE job \in WorkspaceRow /\ job # Idle /\ job.base <= Len(sources)
<1>1. job.kind = "workspace" /\ job # Idle
  BY DEF InWorkspace, Idle
<1>2. job \notin AttemptRow
  BY <1>1 DEF AttemptRow
<1>3. QED
  BY <1>1, <1>2 DEF SourcesInv, SourceTypes, ParentsFit

LEMMA WorkspaceInv ==
    ASSUME SourcesInv, UNCHANGED <<sources, host>>, job' \in WorkspaceRow, job'.base <= Len(sources),
           job'.persisting \in {0, 1},
           IF job'.committed THEN job'.persisting = 0 /\ job'.made = job'.lost + 1 ELSE job'.made = job'.lost
    PROVE  SourcesInv'
<1>1. job'.kind = "workspace"
  BY DEF WorkspaceRow
<1>2. WorkspaceFits' /\ AttemptFits'
  BY <1>1 DEF WorkspaceFits, AttemptFits
<1>3. QED
  BY <1>2, JobInv

LEMMA OpenWorkspaceInv == ASSUME SourcesInv, OpenWorkspace PROVE SourcesInv'
<1>1. PICK v \in SourceIds :
        job' = [kind |-> "workspace", base |-> v, tree |-> TreeOf(v), changes |-> <<>>,
                persisting |-> 0, committed |-> FALSE, made |-> 0, lost |-> 0]
  BY DEF OpenWorkspace
<1>2. UNCHANGED <<sources, host>>
  BY DEF OpenWorkspace
<1>3. v \in Nat /\ v <= Len(sources) /\ TreeOf(v) \in Tree /\ <<>> \in Seq(SourceChange)
  BY IdsAreIds DEF SourcesInv
<1>4. job' \in WorkspaceRow
  BY <1>1, <1>3 DEF WorkspaceRow
<1>5. QED
  BY <1>1, <1>2, <1>3, <1>4, WorkspaceInv

LEMMA StageChangeInv == ASSUME SourcesInv, StageChange PROVE SourcesInv'
<1>1. InWorkspace /\ ~job.committed /\ job.persisting = 0 /\ UNCHANGED <<sources, host>>
  BY DEF StageChange
<1>2. PICK c \in SourceChange : job' \in Staged(job, c)
  BY DEF StageChange
<1>3. PICK tree \in ApplyChanges(TreeOf(job.base), Append(job.changes, c)) :
        job' = [job EXCEPT !.tree = tree, !.changes = Append(@, c)]
  BY <1>2 DEF Staged
<1>4. job \in WorkspaceRow /\ job.base <= Len(sources)
  BY <1>1, WorkspaceIs
<1>5. job.base \in 0..Len(sources) /\ job.changes \in Seq(SourceChange)
  BY <1>4 DEF WorkspaceRow, SourcesInv, SourceTypes
<1>6. TreeOf(job.base) \in Tree /\ Append(job.changes, c) \in Seq(SourceChange)
  BY <1>5, TreesAreTyped DEF SourcesInv
<1>7. tree \in Tree
  BY <1>6, ApplyChangesKeep
<1>8. job' = [kind |-> "workspace", base |-> job.base, tree |-> tree, changes |-> Append(job.changes, c),
              persisting |-> job.persisting, committed |-> job.committed, made |-> job.made, lost |-> job.lost]
  BY <1>3, <1>4 DEF WorkspaceRow
<1>9. job' \in WorkspaceRow
  BY <1>4, <1>6, <1>7, <1>8 DEF WorkspaceRow
<1>10. job.made = job.lost
  BY <1>1 DEF SourcesInv, WorkspaceFits
<1>11. QED
  BY <1>1, <1>4, <1>8, <1>9, <1>10, WorkspaceInv

LEMMA CommitWorkspaceInv == ASSUME SourcesInv, CommitWorkspace PROVE SourcesInv'
<1>1. InWorkspace /\ StartsCommit /\ UNCHANGED <<sources, host>> /\ job' = [job EXCEPT !.persisting = @ + 1]
  BY DEF CommitWorkspace
<1>2. job \in WorkspaceRow /\ job.base <= Len(sources) /\ ~job.committed /\ job.persisting = 0
      /\ job.made = job.lost
  BY <1>1, WorkspaceIs DEF SourcesInv, WorkspaceFits, StartsCommit
<1>3. job' = [kind |-> "workspace", base |-> job.base, tree |-> job.tree, changes |-> job.changes,
              persisting |-> 1, committed |-> job.committed, made |-> job.made, lost |-> job.lost]
  BY <1>1, <1>2 DEF WorkspaceRow
<1>4. job' \in WorkspaceRow
  BY <1>2, <1>3 DEF WorkspaceRow
<1>5. QED
  BY <1>1, <1>2, <1>3, <1>4, WorkspaceInv

LEMMA CommitEndsInv == ASSUME SourcesInv, CommitEnds PROVE SourcesInv'
<1>1. InWorkspace /\ job.persisting > 0 /\ UNCHANGED host
  BY DEF CommitEnds
<1>2. job \in WorkspaceRow /\ job.base <= Len(sources) /\ Len(sources) \in Nat
  BY <1>1, WorkspaceIs DEF SourcesInv, SourceTypes
<1>3. /\ job.persisting = 1 /\ ~job.committed /\ job.made = job.lost /\ job.made \in Nat
      /\ job.base \in Nat /\ job.tree \in Tree /\ job.changes \in Seq(SourceChange) /\ job.committed \in BOOLEAN
  BY <1>1, <1>2 DEF SourcesInv, WorkspaceFits, WorkspaceRow
<1>4. CASE job' = [job EXCEPT !.persisting = @ - 1] /\ UNCHANGED sources
  <2>1. job' = [kind |-> "workspace", base |-> job.base, tree |-> job.tree, changes |-> job.changes,
                persisting |-> 0, committed |-> job.committed, made |-> job.made, lost |-> job.lost]
    BY <1>2, <1>3, <1>4 DEF WorkspaceRow
  <2>2. job' \in WorkspaceRow
    BY <1>2, <1>3, <2>1 DEF WorkspaceRow
  <2>3. QED
    BY <1>1, <1>2, <1>3, <1>4, <2>1, <2>2, WorkspaceInv
<1>5. ASSUME NEW tree \in ApplyChanges(TreeOf(job.base), job.changes), NEW done \in BOOLEAN,
             sources' = Append(sources, Version("edited", job.base, tree, job.changes)),
             job' = [job EXCEPT !.persisting = @ - 1, !.made = @ + 1, !.committed = @ \/ done,
                                !.lost = IF done THEN @ ELSE @ + 1]
      PROVE  SourcesInv'
  <2> DEFINE row == Version("edited", job.base, tree, job.changes)
  <2>1. TreeOf(job.base) \in Tree
    BY <1>2, <1>3, TreesAreTyped DEF SourcesInv
  <2>2. tree \in Tree /\ KeepsLocks(TreeOf(job.base), tree) /\ Gives(TreeOf(job.base), job.changes, tree, FALSE)
    BY <1>3, <2>1, ApplyChangesKeep DEF Gives
  <2>3. /\ row \in SourceRow /\ row.origin = "edited" /\ row.parent = job.base /\ row.tree = tree
        /\ row.changes = job.changes /\ row.captured = FALSE
    BY <1>3, <2>2 DEF Version, SourceRow
  <2>4. sources' = Append(sources, row)
    BY <1>5
  <2> HIDE DEF row
  <2>5. /\ sources' \in Seq(SourceRow) /\ Len(sources') = Len(sources) + 1
        /\ \A v \in SourceIds' : sources'[v].parent < v
        /\ LocksHold' /\ ChangesProduce' /\ QualityHeld'
    BY <1>1, <1>2, <2>2, <2>3, <2>4, StoredKeeps
  <2>6. job' = [kind |-> "workspace", base |-> job.base, tree |-> job.tree, changes |-> job.changes,
                persisting |-> 0, committed |-> done, made |-> job.made + 1,
                lost |-> IF done THEN job.lost ELSE job.lost + 1]
    <3>1. (job.committed \/ done) = done
      BY <1>3
    <3>2. job' = [job EXCEPT !.persisting = 0, !.made = job.made + 1, !.committed = done,
                             !.lost = IF done THEN job.lost ELSE job.lost + 1]
      <4>1. job.persisting - 1 = 0
        BY <1>3
      <4>2. QED
        BY <1>5, <3>1, <4>1, Zenon
    <3>3. QED
      BY <1>2, <3>2 DEF WorkspaceRow
  <2>7. job' \in WorkspaceRow /\ job'.base <= Len(sources')
    BY <1>2, <1>3, <2>5, <2>6 DEF WorkspaceRow
  <2>8. WorkspaceFits'
    BY <1>3, <2>6 DEF WorkspaceFits
  <2>9. AttemptFits'
    BY <2>6 DEF AttemptFits
  <2>10. SourceTypes' /\ ParentsFit'
    BY <1>1, <2>5, <2>7 DEF SourcesInv, SourceTypes, ParentsFit
  <2>11. QED
    BY <2>5, <2>8, <2>9, <2>10 DEF SourcesInv
<1>6. QED
  BY <1>4, <1>5 DEF CommitEnds

LEMMA AttemptIs == ASSUME SourcesInv, job.kind = "attempt" PROVE job \in AttemptRow /\ job.base \in 0..Len(sources)
<1>1. job # Idle /\ job \notin WorkspaceRow
  BY DEF Idle, WorkspaceRow
<1>2. job \in AttemptRow /\ job.base <= Len(sources) /\ Len(sources) \in Nat
  BY <1>1 DEF SourcesInv, SourceTypes, ParentsFit
<1>3. QED
  BY <1>2 DEF AttemptRow

LEMMA AttemptInv ==
    ASSUME SourcesInv, UNCHANGED <<sources, host>>, job' \in AttemptRow,
           NEW b \in 0..Len(sources), job'.base = b,
           job'.phase # "generate" =>
             /\ KeepsLocks(TreeOf(b), job'.tree)
             /\ job'.changes # <<>> =>
                  IF job'.phase = "store" /\ host.quality = "capture"
                  THEN Gives(TreeOf(b), job'.changes, job'.tree, TRUE)
                  ELSE job'.tree \in ApplyChanges(TreeOf(b), job'.changes)
             /\ host.quality # "none" =>
                  /\ job'.phase # "prepare" => job'.ran["install"] = "passed"
                  /\ job'.phase = "store" => \A c \in Commands : job'.ran[c] = "passed"
    PROVE  SourcesInv'
<1>1. job'.kind = "attempt" /\ job'.base <= Len(sources)
  BY DEF AttemptRow, SourcesInv, SourceTypes
<1>2. WorkspaceFits'
  BY <1>1 DEF WorkspaceFits, InWorkspace
<1>3. TreeOf(job.base)' = TreeOf(b)
  BY DEF TreeOf
<1>4. AttemptFits'
  BY <1>3 DEF AttemptFits
<1>5. QED
  BY <1>1, <1>2, <1>4, JobInv

\* An attempt, from its beginning.
LEMMA AnewInv ==
    ASSUME SourcesInv, UNCHANGED <<sources, host>>, NEW v \in 0..Len(sources), job' = Attempt(v)
    PROVE  SourcesInv'
<1>1. v \in Nat /\ <<>> \in Seq(SourceChange)
  BY DEF SourcesInv, SourceTypes
<1>2. NoFiles \in Tree /\ NoFiles \in Files
  <2>1. NoFiles \in Tree
    BY TreeIs DEF NoFiles
  <2>2. NoFiles \in [{} -> Content]
    BY DEF NoFiles
  <2>3. QED
    BY <2>1, <2>2 DEF Files, Partial
<1>3. NothingRan \in [Commands -> {"waiting", "running", "passed", "failed"}]
  BY DEF NothingRan
<1>4. job' \in AttemptRow /\ job'.base = v /\ job'.phase = "generate"
  BY <1>1, <1>2, <1>3 DEF Attempt, AttemptRow
<1>5. QED
  BY <1>4, AttemptInv

LEMMA BeginAttemptInv == ASSUME SourcesInv, BeginAttempt PROVE SourcesInv'
<1>1. PICK v \in SourceIds \cup {0} : job' = Attempt(v)
  BY DEF BeginAttempt
<1>2. UNCHANGED <<sources, host>> /\ v \in 0..Len(sources)
  BY IdsAreIds DEF BeginAttempt, SourcesInv, SourceTypes
<1>3. QED
  BY <1>1, <1>2, AnewInv

LEMMA OverIsFiles == \A f, g \in Files : Overlay(f, g) \in Files
<1> SUFFICES ASSUME NEW f \in Files, NEW g \in Files PROVE Overlay(f, g) \in Files
  OBVIOUS
<1>1. /\ DOMAIN f \subseteq SrcPath /\ \A p \in DOMAIN f : f[p] \in Content
      /\ DOMAIN g \subseteq SrcPath /\ \A p \in DOMAIN g : g[p] \in Content
  BY DEF Files, Partial
<1>2. Overlay(f, g) \in [DOMAIN f \cup DOMAIN g -> Content]
  BY <1>1 DEF Overlay
<1>3. QED
  BY <1>1, <1>2 DEF Files, Partial

LEMMA MaterializedIsFiles == \A tree \in Tree : Materialize(tree) \in Files
<1> SUFFICES ASSUME NEW tree \in Tree PROVE Materialize(tree) \in Files
  OBVIOUS
<1>1. DOMAIN tree \subseteq SrcPath /\ \A p \in DOMAIN tree : tree[p].content \in Content
  BY TreeIs DEF Entry
<1>2. Materialize(tree) \in [DOMAIN tree -> Content]
  BY <1>1 DEF Materialize
<1>3. QED
  BY <1>1, <1>2 DEF Files, Partial

LastIn(T) == CHOOSE i \in T : \A j \in T : j <= i

\* Of the places in a list there is a last one.
LEMMA LastPlace ==
    ASSUME NEW n \in Nat, NEW T \in SUBSET (1..n), T # {}
    PROVE  LastIn(T) \in T
<1> DEFINE D == {n - i : i \in T}
<1>1. D \in SUBSET Nat /\ D # {}
  <2>1. \A i \in T : n - i \in Nat
    OBVIOUS
  <2>2. QED
    BY <2>1
<1>2. PICK d \in D : \A e \in D : d <= e
  <2> HIDE DEF D
  <2>1. QED
    BY <1>1, LeastNat
<1>3. PICK i \in T : d = n - i
  OBVIOUS
<1>4. \A j \in T : n - i <= n - j
  BY <1>2, <1>3
<1>5. \A j \in T : j <= i
  BY <1>4
<1>6. QED
  BY <1>5 DEF LastIn

LEMMA AgentWritesFiles == \A changes \in Seq(SourceChange) : AgentWrites(changes) \in Files
<1> SUFFICES ASSUME NEW changes \in Seq(SourceChange) PROVE AgentWrites(changes) \in Files
  OBVIOUS
<1> DEFINE writes(p) == {i \in DOMAIN changes : changes[i].type = "write" /\ changes[i].path = p}
           D == {q \in SrcPath : writes(q) # {}}
<1>1. AgentWrites(changes) = [p \in D |-> changes[LastIn(writes(p))].content]
  BY DEF AgentWrites, LastIn
<1>2. \A p \in D : changes[LastIn(writes(p))].content \in Content
  <2> SUFFICES ASSUME NEW p \in D PROVE changes[LastIn(writes(p))].content \in Content
    OBVIOUS
  <2>1. Len(changes) \in Nat /\ writes(p) \in SUBSET (1..Len(changes)) /\ writes(p) # {}
    OBVIOUS
  <2> HIDE DEF D
  <2>2. LastIn(writes(p)) \in writes(p)
    <3> HIDE DEF writes
    <3>1. QED
      BY <2>1, LastPlace
  <2>3. changes[LastIn(writes(p))] \in SourceChange /\ changes[LastIn(writes(p))].type = "write"
    BY <2>2
  <2>4. QED
    BY <2>3 DEF SourceChange, Content
<1> HIDE DEF D
<1>3. D \subseteq SrcPath
  BY DEF D
<1>4. AgentWrites(changes) \in [D -> Content]
  <2> HIDE DEF writes
  <2>1. QED
    BY <1>1, <1>2
<1>5. QED
  BY <1>3, <1>4 DEF Files, Partial

LEMMA SandboxesAreFiles ==
    ASSUME SourceTypes, NEW v \in 0..Len(sources), NEW changes \in Seq(SourceChange), NEW tree \in Tree
    PROVE  NoFiles \in Files /\ SandboxWith(v, changes, tree) \in Files
<1>1. NoFiles \in Files
  <2>1. NoFiles \in [{} -> Content]
    BY DEF NoFiles
  <2>2. QED
    BY <2>1 DEF Files, Partial
<1>2. Materialize(tree) \in Files /\ Materialize(TreeOf(v)) \in Files /\ AgentWrites(changes) \in Files
  BY TreesAreTyped, MaterializedIsFiles, AgentWritesFiles
<1>3. QED
  BY <1>1, <1>2, OverIsFiles DEF SandboxWith

LEMMA GeneratorAnswersInv == ASSUME SourcesInv, GeneratorAnswers PROVE SourcesInv'
<1>1. job.kind = "attempt" /\ UNCHANGED <<sources, host>>
  BY DEF GeneratorAnswers, In
<1>2. job \in AttemptRow /\ job.base \in 0..Len(sources) /\ TreeOf(job.base) \in Tree
  BY <1>1, AttemptIs, TreesAreTyped DEF SourcesInv
<1>3. CASE job' = Idle
  BY <1>1, <1>3, IdleInv
<1>4. ASSUME NEW output \in Outputs, NEW tree \in Candidates(TreeOf(job.base), output),
             job' = [job EXCEPT !.phase = IF host.quality = "none" THEN "store" ELSE "prepare",
                                !.tree = tree, !.changes = ChangesOf(output),
                                !.sandbox = IF host.quality # "capture" THEN NoFiles
                                            ELSE SandboxWith(job.base, ChangesOf(output), tree)]
      PROVE  SourcesInv'
  <2> DEFINE b == job.base
             changes == ChangesOf(output)
             sandbox == IF host.quality # "capture" THEN NoFiles ELSE SandboxWith(job.base, changes, tree)
             phase == IF host.quality = "none" THEN "store" ELSE "prepare"
  <2>1. /\ changes \in Seq(SourceChange) /\ tree \in Tree /\ KeepsLocks(TreeOf(b), tree)
        /\ changes # <<>> => tree \in ApplyChanges(TreeOf(b), changes)
    <3>1. CASE output \in ChangesOutputs
      <4>1. output.kind = "changes" /\ changes = output.changes /\ changes \in Seq(SourceChange)
        BY <3>1, ChangeListsAreSeqs, SourcesAssumption DEF ChangesOf, ChangesOutputs
      <4>2. tree \in ApplyChanges(TreeOf(b), changes)
        BY <4>1 DEF Candidates
      <4> HIDE DEF changes
      <4>3. QED
        BY <1>2, <4>1, <4>2, ApplyChangesKeep
    <3>2. CASE output \in ProjectOutputs
      <4>1. output.kind # "changes" /\ changes = <<>> /\ output.files \in Partial(SrcPath, SrcText)
        BY <3>2 DEF ChangesOf, ProjectOutputs
      <4>2. tree \in MergeGenerated(TreeOf(b), output.files)
        BY <4>1 DEF Candidates
      <4>3. tree \in Tree /\ KeepsLocks(TreeOf(b), tree)
        BY <1>2, <4>1, <4>2, MergeGeneratedKeeps
      <4>4. <<>> \in Seq(SourceChange)
        OBVIOUS
      <4>5. QED
        BY <4>1, <4>3, <4>4
    <3>3. QED
      BY <3>1, <3>2 DEF Outputs
  <2> HIDE DEF changes
  <2>2. sandbox \in Files
    BY <1>2, <2>1, SandboxesAreFiles DEF SourcesInv
  <2>3. job' = [kind |-> "attempt", base |-> b, phase |-> phase, tree |-> tree, changes |-> changes,
                sandbox |-> sandbox, ran |-> job.ran, touched |-> job.touched]
    BY <1>2, <1>4 DEF AttemptRow, changes
  <2> HIDE DEF sandbox
  <2>4. job' \in AttemptRow
    BY <1>2, <2>1, <2>2, <2>3 DEF AttemptRow
  <2>5. QED
    BY <1>1, <1>2, <2>1, <2>3, <2>4, AttemptInv
<1>5. QED
  BY <1>3, <1>4, Zenon DEF GeneratorAnswers

LEMMA RewrittenAreFiles == ASSUME NEW box \in Files, NEW files \in Rewritten(box) PROVE files \in Files
<1>1. CASE files \in {Overlay(At(p, x), box) : p \in SrcPath, x \in Content}
  <2>1. PICK p \in SrcPath, x \in Content : files = Overlay(At(p, x), box)
    BY <1>1
  <2>2. At(p, x) \in [{p} -> Content]
    BY DEF At
  <2>3. At(p, x) \in Files
    BY <2>2 DEF Files, Partial
  <2>4. QED
    BY <2>1, <2>3, OverIsFiles
<1>2. CASE files \in {Without(box, p) : p \in DOMAIN box}
  <2>1. PICK p \in DOMAIN box : files = Without(box, p)
    BY <1>2
  <2>2. DOMAIN box \subseteq SrcPath /\ \A q \in DOMAIN box : box[q] \in Content
    BY DEF Files, Partial
  <2>3. files \in [DOMAIN box \ {p} -> Content]
    BY <2>1, <2>2 DEF Without, Restrict
  <2>4. QED
    BY <2>2, <2>3 DEF Files, Partial
<1>3. QED
  BY <1>1, <1>2 DEF Rewritten

\* A command changes nothing but the sandbox.
LEMMA TouchesAre ==
    ASSUME job \in AttemptRow, NEW j \in Touches(job)
    PROVE  /\ j \in AttemptRow /\ j.base = job.base /\ j.phase = job.phase /\ j.tree = job.tree
           /\ j.changes = job.changes /\ j.ran = job.ran
<1>1. CASE j = job
  BY <1>1
<1>2. ASSUME NEW files \in Rewritten(job.sandbox), j = [job EXCEPT !.touched = TRUE, !.sandbox = files]
      PROVE  /\ j \in AttemptRow /\ j.base = job.base /\ j.phase = job.phase /\ j.tree = job.tree
             /\ j.changes = job.changes /\ j.ran = job.ran
  <2>1. j = [kind |-> "attempt", base |-> job.base, phase |-> job.phase, tree |-> job.tree,
             changes |-> job.changes, sandbox |-> files, ran |-> job.ran, touched |-> TRUE]
    BY <1>2 DEF AttemptRow
  <2>2. files \in Files
    BY RewrittenAreFiles DEF AttemptRow
  <2>3. QED
    BY <2>1, <2>2 DEF AttemptRow
<1>3. QED
  BY <1>1, <1>2 DEF Touches

LEMMA QualityFailsInv ==
    ASSUME SourcesInv, UNCHANGED <<sources, host>>, job.kind = "attempt", QualityFails PROVE SourcesInv'
<1>1. CASE job' = Idle
  BY <1>1, IdleInv
<1>2. CASE job' = Attempt(job.base)
  <2>1. job.base \in 0..Len(sources) /\ job.base \in Nat
    BY AttemptIs DEF SourcesInv, SourceTypes
  <2>2. QED
    BY <1>2, <2>1, AnewInv
<1>3. QED
  BY <1>1, <1>2 DEF QualityFails

LEMMA RunPrepareInv == ASSUME SourcesInv, RunPrepare PROVE SourcesInv'
<1>1. job.kind = "attempt" /\ job.phase = "prepare" /\ UNCHANGED <<sources, host>>
  BY DEF RunPrepare, In
<1>2. CASE QualityFails
  BY <1>1, <1>2, QualityFailsInv
<1>3. ASSUME NEW j \in Touches(job), job' = [j EXCEPT !.phase = "check", !.ran["install"] = "passed"]
      PROVE  SourcesInv'
  <2>1. job \in AttemptRow /\ job.base \in 0..Len(sources)
    BY <1>1, AttemptIs
  <2>2. /\ j \in AttemptRow /\ j.base = job.base /\ j.phase = job.phase /\ j.tree = job.tree
        /\ j.changes = job.changes /\ j.ran = job.ran
    BY <2>1, TouchesAre
  <2> DEFINE ran == [j.ran EXCEPT !["install"] = "passed"]
  <2>3. ran \in [Commands -> {"waiting", "running", "passed", "failed"}] /\ ran["install"] = "passed"
    BY <2>2 DEF AttemptRow, Commands
  <2>4. job' = [kind |-> "attempt", base |-> j.base, phase |-> "check", tree |-> j.tree, changes |-> j.changes,
                sandbox |-> j.sandbox, ran |-> ran, touched |-> j.touched]
    BY <1>3, <2>2 DEF AttemptRow
  <2> HIDE DEF ran
  <2>5. job' \in AttemptRow
    BY <2>2, <2>3, <2>4 DEF AttemptRow
  <2>6. KeepsLocks(TreeOf(job.base), job.tree)
        /\ (job.changes # <<>> => job.tree \in ApplyChanges(TreeOf(job.base), job.changes))
    BY <1>1 DEF SourcesInv, AttemptFits
  <2>7. QED
    BY <1>1, <2>1, <2>2, <2>3, <2>4, <2>5, <2>6, AttemptInv
<1>4. QED
  BY <1>2, <1>3 DEF RunPrepare

LEMMA ChecksInv == ASSUME SourcesInv, StartCheck \/ FinishCheck PROVE SourcesInv'
<1>1. job.kind = "attempt" /\ job.phase = "check" /\ UNCHANGED <<sources, host>>
  BY DEF StartCheck, FinishCheck, In
<1>2. job \in AttemptRow /\ job.base \in 0..Len(sources) /\ job.ran \in [Commands -> {"waiting", "running", "passed", "failed"}]
  BY <1>1, AttemptIs DEF AttemptRow
<1>3. /\ KeepsLocks(TreeOf(job.base), job.tree)
      /\ job.changes # <<>> => job.tree \in ApplyChanges(TreeOf(job.base), job.changes)
      /\ host.quality # "none" => job.ran["install"] = "passed"
  BY <1>1 DEF SourcesInv, AttemptFits
<1>4. PICK j \in Touches(job), c \in Commands, status \in {"running", "passed", "failed"} :
        /\ job' = [j EXCEPT !.ran[c] = status]
        /\ job.ran[c] = "running" \/ c # "install"
  <2>1. CASE StartCheck
    <3>1. PICK i \in NextCheck : job' = [job EXCEPT !.ran[Checks[i]] = "running"]
      BY <2>1 DEF StartCheck
    <3>2. Checks[i] \in Commands /\ Checks[i] # "install"
      BY <3>1 DEF NextCheck, Checks, Commands
    <3>3. job \in Touches(job)
      BY DEF Touches
    <3>4. QED
      BY <3>1, <3>2, <3>3
  <2>2. CASE FinishCheck
    BY <2>2 DEF FinishCheck, Running
  <2>3. QED
    BY <2>1, <2>2
<1>5. /\ j \in AttemptRow /\ j.base = job.base /\ j.phase = job.phase /\ j.tree = job.tree
      /\ j.changes = job.changes /\ j.ran = job.ran
  BY <1>2, TouchesAre
<1> DEFINE ran == [j.ran EXCEPT ![c] = status]
<1>6. /\ ran \in [Commands -> {"waiting", "running", "passed", "failed"}]
      /\ job.ran["install"] = "passed" => ran["install"] = "passed"
  BY <1>2, <1>4, <1>5 DEF Commands
<1>7. job' = [kind |-> "attempt", base |-> j.base, phase |-> j.phase, tree |-> j.tree, changes |-> j.changes,
              sandbox |-> j.sandbox, ran |-> ran, touched |-> j.touched]
  BY <1>4, <1>5 DEF AttemptRow
<1> HIDE DEF ran
<1>8. job' \in AttemptRow
  BY <1>5, <1>6, <1>7 DEF AttemptRow
<1>9. QED
  BY <1>1, <1>2, <1>3, <1>5, <1>6, <1>7, <1>8, AttemptInv

\* What is captured are the texts that nobody locked.
LEMMA CapturedFits ==
    ASSUME job \in AttemptRow, CanCapture(job), NEW base, KeepsLocks(base, job.tree)
    PROVE  /\ CapturedEntries(job) \in Tree /\ KeepsLocks(base, CapturedEntries(job))
           /\ DOMAIN CapturedEntries(job) = DOMAIN job.tree
           /\ \A p \in DOMAIN job.tree : job.tree[p] # CapturedEntries(job)[p] =>
                 ~job.tree[p].locked /\ job.tree[p].content # Binary
<1> DEFINE tree == job.tree
           box == job.sandbox
           taken == CapturedEntries(job)
<1>1. tree \in Tree /\ box \in Files
  BY DEF AttemptRow
<1>2. DOMAIN tree \subseteq SrcPath /\ \A p \in DOMAIN tree : tree[p] \in Entry
  BY <1>1, TreeIs
<1>3. \A p \in DOMAIN box : Plain(box[p]) \in Entry
  BY <1>1 DEF Files, Partial, Plain, Entry
<1>4. taken = [p \in DOMAIN tree |-> IF tree[p].content # Binary /\ ~tree[p].locked
                                     THEN Plain(box[p]) ELSE tree[p]]
  BY DEF CapturedEntries
<1>5. \A p \in DOMAIN tree : tree[p].content # Binary => p \in DOMAIN box
  BY DEF CanCapture
<1> HIDE DEF taken
<1>6. \A p \in DOMAIN tree : taken[p] \in Entry
  BY <1>2, <1>3, <1>4, <1>5
<1>7. taken \in Tree
  BY <1>2, <1>4, <1>6, TreeIs
<1>8. KeepsLocks(base, taken)
  <2> SUFFICES ASSUME NEW p \in DOMAIN base, base[p].locked PROVE p \in DOMAIN taken /\ taken[p] = base[p]
    BY DEF KeepsLocks
  <2>1. p \in DOMAIN tree /\ tree[p] = base[p]
    BY DEF KeepsLocks
  <2>2. QED
    BY <1>4, <2>1
<1>9. \A p \in DOMAIN tree : tree[p] # taken[p] => ~tree[p].locked /\ tree[p].content # Binary
  BY <1>4
<1>10. QED
  BY <1>4, <1>7, <1>8, <1>9 DEF taken

LEMMA VerifyQualityInv == ASSUME SourcesInv, VerifyQuality PROVE SourcesInv'
<1>1. job.kind = "attempt" /\ job.phase = "check" /\ UNCHANGED <<sources, host>> /\ ChecksAreOver
  BY DEF VerifyQuality, In
<1>2. CASE QualityFails
  BY <1>1, <1>2, QualityFailsInv
<1> DEFINE b == job.base
<1>3. /\ job \in AttemptRow /\ b \in 0..Len(sources)
      /\ job.ran \in [Commands -> {"waiting", "running", "passed", "failed"}]
  BY <1>1, AttemptIs DEF AttemptRow
<1>4. /\ KeepsLocks(TreeOf(b), job.tree)
      /\ job.changes # <<>> => job.tree \in ApplyChanges(TreeOf(b), job.changes)
      /\ host.quality # "none" => job.ran["install"] = "passed"
  BY <1>1 DEF SourcesInv, AttemptFits
<1>5. ASSUME ~ChecksFailed, host.quality # "none" PROVE \A c \in Commands : job.ran[c] = "passed"
  <2>1. job.ran["lint"] \notin {"waiting", "running", "failed"} /\ job.ran["test"] \notin {"waiting", "running", "failed"}
    BY <1>1, <1>5 DEF ChecksAreOver, ChecksFailed, Checks
  <2>2. QED
    BY <1>3, <1>4, <1>5, <2>1 DEF Commands
<1>6. ASSUME ~ChecksFailed, NEW tree \in Tree, KeepsLocks(TreeOf(b), tree),
             job.changes # <<>> => IF host.quality = "capture" THEN Gives(TreeOf(b), job.changes, tree, TRUE)
                                   ELSE tree \in ApplyChanges(TreeOf(b), job.changes),
             job' = [job EXCEPT !.phase = "store", !.tree = tree]
      PROVE  SourcesInv'
  <2>1. job' = [kind |-> "attempt", base |-> b, phase |-> "store", tree |-> tree, changes |-> job.changes,
                sandbox |-> job.sandbox, ran |-> job.ran, touched |-> job.touched]
    BY <1>3, <1>6 DEF AttemptRow
  <2>2. job' \in AttemptRow
    BY <1>3, <2>1 DEF AttemptRow
  <2>3. QED
    BY <1>1, <1>3, <1>4, <1>5, <1>6, <2>1, <2>2, AttemptInv
<1>7. CASE ~ChecksFailed /\ host.quality = "check" /\ job' = [job EXCEPT !.phase = "store"]
  <2>1. job' = [job EXCEPT !.phase = "store", !.tree = job.tree] /\ job.tree \in Tree
    BY <1>3, <1>7 DEF AttemptRow
  <2>2. QED
    BY <1>4, <1>6, <1>7, <2>1
<1>8. CASE /\ ~ChecksFailed /\ host.quality = "capture" /\ CanCapture(job)
           /\ job' = [job EXCEPT !.phase = "store", !.tree = CapturedEntries(job)]
  <2> DEFINE taken == CapturedEntries(job)
  <2>1. /\ taken \in Tree /\ KeepsLocks(TreeOf(b), taken) /\ DOMAIN taken = DOMAIN job.tree
        /\ \A p \in DOMAIN job.tree : job.tree[p] # taken[p] => ~job.tree[p].locked /\ job.tree[p].content # Binary
    BY <1>3, <1>4, <1>8, CapturedFits
  <2>2. job' = [job EXCEPT !.phase = "store", !.tree = taken]
    BY <1>8
  <2> HIDE DEF taken
  <2>3. job.changes # <<>> => Gives(TreeOf(b), job.changes, taken, TRUE)
    BY <1>4, <2>1 DEF Gives
  <2>4. QED
    BY <1>6, <1>8, <2>1, <2>2, <2>3
<1>9. QED
  BY <1>2, <1>7, <1>8 DEF VerifyQuality

LEMMA StoreVersionInv == ASSUME SourcesInv, StoreVersion PROVE SourcesInv'
<1>1. job.kind = "attempt" /\ job.phase = "store" /\ UNCHANGED host /\ job' = Idle
  BY DEF StoreVersion, In
<1> DEFINE b == job.base
           passed == {c \in Commands : job.ran[c] = "passed"}
           isTaken == host.quality = "capture"
           row == [Version("generated", b, job.tree, job.changes) EXCEPT !.passed = passed, !.captured = isTaken]
<1>2. job \in AttemptRow /\ b \in 0..Len(sources) /\ Len(sources) \in Nat
  BY <1>1, AttemptIs DEF SourcesInv, SourceTypes
<1>3. b \in Nat /\ b <= Len(sources) /\ job.tree \in Tree /\ job.changes \in Seq(SourceChange)
  BY <1>2 DEF AttemptRow
<1>4. /\ KeepsLocks(TreeOf(b), job.tree)
      /\ job.changes # <<>> => IF isTaken THEN Gives(TreeOf(b), job.changes, job.tree, TRUE)
                               ELSE job.tree \in ApplyChanges(TreeOf(b), job.changes)
      /\ host.quality # "none" => passed = Commands
  BY <1>1 DEF SourcesInv, AttemptFits
<1>5. passed \in SUBSET Commands /\ isTaken \in BOOLEAN
  OBVIOUS
<1>6. job.changes # <<>> => Gives(TreeOf(b), job.changes, job.tree, isTaken)
  <2>1. CASE isTaken
    <3>1. isTaken = TRUE
      BY <2>1
    <3>2. QED
      BY <1>4, <3>1
  <2>2. CASE ~isTaken
    BY <1>4, <2>2 DEF Gives
  <2>3. QED
    BY <2>1, <2>2
<1> HIDE DEF isTaken, passed
<1>7. row = [origin |-> "generated", parent |-> b, tree |-> job.tree, changes |-> job.changes,
             passed |-> passed, captured |-> isTaken]
  <2>1. Version("generated", b, job.tree, job.changes) =
          [origin |-> "generated", parent |-> b, tree |-> job.tree, changes |-> job.changes,
           passed |-> {}, captured |-> FALSE]
    BY DEF Version
  <2>2. row = [[origin |-> "generated", parent |-> b, tree |-> job.tree, changes |-> job.changes,
                passed |-> {}, captured |-> FALSE] EXCEPT !.passed = passed, !.captured = isTaken]
    BY <2>1, Zenon
  <2> HIDE DEF row
  <2>3. QED
    BY <2>2
<1>8. sources' = Append(sources, row)
  BY Zenon DEF StoreVersion, isTaken, passed
<1> HIDE DEF row
<1>9. row \in SourceRow
  BY <1>3, <1>5, <1>7 DEF SourceRow
<1>10. QED
  BY <1>1, <1>3, <1>4, <1>6, <1>7, <1>8, <1>9, StoredInv

LEMMA SourcesNextInv == ASSUME SourcesInv, [SourcesNext]_srcVars PROVE SourcesInv'
<1>1. CASE LeaveWorkspace \/ AttemptEnds
  <2>1. UNCHANGED <<sources, host>> /\ job' = Idle
    BY <1>1 DEF LeaveWorkspace, AttemptEnds
  <2>2. QED
    BY <2>1, IdleInv
<1>2. CASE UNCHANGED srcVars
  <2>1. UNCHANGED <<sources, host, job>>
    BY <1>2 DEF srcVars
  <2>2. WorkspaceFits' /\ AttemptFits'
    BY <2>1 DEF SourcesInv, WorkspaceFits, AttemptFits, InWorkspace, TreeOf
  <2>3. QED
    BY <2>1, <2>2, JobInv DEF SourcesInv, SourceTypes, ParentsFit
<1>3. QED
  BY <1>1, <1>2, ImportInv, ApplyToVersionInv, CopyVersionInv, OpenWorkspaceInv, StageChangeInv,
     CommitWorkspaceInv, CommitEndsInv, BeginAttemptInv, GeneratorAnswersInv, RunPrepareInv, ChecksInv,
     VerifyQualityInv, StoreVersionInv DEF SourcesNext

\* However a version comes about, it keeps what its parent locks, its recorded changes give its
\* tree, a workspace stores one version for every answered commit, and a host with quality commands
\* gets no generated version that has not passed them all (Version.apply, AgentWorkspace.commit,
\* completeGeneration, forkVersion, restoreVersion).
THEOREM SourcesAlwaysKept == SourcesSpec => []SourcesAreKept
<1>1. SourcesSpec => []SourcesInv
  BY SourcesInitInv, SourcesNextInv, PTL DEF SourcesSpec
<1>2. SourcesInv => SourcesAreKept
  <2> SUFFICES ASSUME SourcesInv PROVE SourcesAreKept
    OBVIOUS
  <2>1. OneVersionPerCommit
    <3> SUFFICES ASSUME InWorkspace PROVE /\ job.made <= job.lost + 1
                                          /\ job.committed => job.made = job.lost + 1 /\ job.persisting = 0
      BY DEF OneVersionPerCommit
    <3>1. job.made \in Nat /\ job.lost \in Nat
      BY WorkspaceIs DEF WorkspaceRow
    <3>2. QED
      BY <3>1 DEF SourcesInv, WorkspaceFits
  <2>2. QED
    BY <2>1 DEF SourcesInv, SourcesAreKept
<1>3. QED
  BY <1>1, <1>2, PTL

----------------------------------------------------------------------------
(* Feedback: votes are counted once and the last one is shown *)

NatsAbove(T, n) == {m \in T : n < m}

\* Finitely many natural numbers have a greatest one.
LEMMA GreatestNat ==
    ASSUME NEW T \in SUBSET Nat, IsFiniteSet(T), T # {} PROVE \E n \in T : \A m \in T : m <= n
<1> DEFINE C == {Cardinality(NatsAbove(T, n)) : n \in T}
<1>1. \A n \in T : IsFiniteSet(NatsAbove(T, n)) /\ Cardinality(NatsAbove(T, n)) \in Nat
  <2>1. \A n \in T : IsFiniteSet(NatsAbove(T, n))
    BY FS_Subset DEF NatsAbove
  <2>2. QED
    BY <2>1, FS_CardinalityType
<1>2. PICK c \in C : \A d \in C : c <= d
  <2>1. C \in SUBSET Nat /\ C # {}
    BY <1>1
  <2> HIDE DEF C
  <2>2. QED
    BY <2>1, LeastNat
<1>3. PICK n \in T : c = Cardinality(NatsAbove(T, n))
  OBVIOUS
<1>4. ASSUME NEW m \in T, n < m PROVE FALSE
  <2>1. NatsAbove(T, m) \subseteq NatsAbove(T, n) /\ m \in NatsAbove(T, n) /\ m \notin NatsAbove(T, m)
    <3>1. n \in Nat /\ m \in Nat /\ ~(m < m)
      OBVIOUS
    <3>2. \A x \in T : x \in Nat /\ (m < x => n < x)
      BY <1>4, <3>1
    <3>3. QED
      BY <1>4, <3>1, <3>2 DEF NatsAbove
  <2>2. NatsAbove(T, m) # NatsAbove(T, n)
    BY <2>1
  <2>3. /\ Cardinality(NatsAbove(T, m)) <= Cardinality(NatsAbove(T, n))
        /\ Cardinality(NatsAbove(T, m)) # Cardinality(NatsAbove(T, n))
    BY <1>1, <2>1, <2>2, FS_Subset
  <2>4. c <= Cardinality(NatsAbove(T, m))
    BY <1>2
  <2>5. QED
    BY <1>1, <1>3, <2>3, <2>4
<1>5. QED
  BY <1>4

RatingRow ==
    [id: FeedbackId, message: Rated, rating: {"positive", "negative"}, key: FeedbackKey \cup {NoKey},
     meta: Metadata \cup {<<"a", "b">>}, at: Nat, dims: [engine: {"model"}, version: BOOLEAN]]

FbTypes ==
    /\ fbRepo \in {"postgres", "memory", "sqlite"} /\ fbClock \in Nat
    /\ ratings \in Seq(RatingRow)
    /\ selection \in [Rated -> FeedbackId \cup {NoId}]
    /\ rating \in SUBSET [input: Input, at: Nat]
    /\ imported \in SUBSET Rated
    /\ fbRepo # "postgres" => rating = {}

RatingIdsDiffer == \A i, j \in DOMAIN ratings : i # j => ratings[i].id # ratings[j].id

\* Where a call is one step the records are in the order of their times.
TimesGrow ==
    fbRepo # "postgres" =>
       \A i \in DOMAIN ratings :
          ratings[i].at <= fbClock /\ \A j \in DOMAIN ratings : i < j => ratings[i].at <= ratings[j].at

RatingsOf(sq, m) == {i \in DOMAIN sq : sq[i].message = m}

\* What is selected is the last record, or one of its time that an import took for it.
Selected(sq, m, id, isImported) ==
    IF RatingsOf(sq, m) = {} THEN id = NoId
    ELSE \E last \in RatingsOf(sq, m) :
           /\ \A i \in RatingsOf(sq, m) : i <= last
           /\ \E k \in DOMAIN sq : /\ sq[k].id = id
                                   /\ k = last \/ (isImported /\ sq[k].at = sq[last].at)

SelectionFits == \A m \in Rated : Selected(ratings, m, selection[m], m \in imported)

FbInv == FbTypes /\ RatingIdsDiffer /\ TimesGrow /\ OneVotePerKey /\ SelectionFits

LEMMA FbInitInv == FeedbackInit => FbInv
<1> SUFFICES ASSUME FeedbackInit PROVE FbInv
  OBVIOUS
<1>1. ratings = <<>> /\ DOMAIN ratings = {} /\ answered = {} /\ rating = {} /\ imported = {}
  BY DEF FeedbackInit
<1>2. FbTypes
  BY <1>1 DEF FeedbackInit, FbTypes
<1>3. \A m \in Rated : selection[m] = NoId
  BY DEF FeedbackInit
<1>4. SelectionFits
  BY <1>1, <1>3 DEF SelectionFits, Selected, RatingsOf
<1>5. QED
  BY <1>1, <1>2, <1>4 DEF FbInv, RatingIdsDiffer, TimesGrow, OneVotePerKey

\* A record is added.
LEMMA NewRatingInv ==
    ASSUME FbInv, NEW input \in Input, NEW when \in Nat, NEW id \in FreeIds, ExistingFeedback(input) = {},
           fbRepo # "postgres" => when = fbClock,
           ratings' = Append(ratings, Record(input, id, when)), selection' = Selects(input, id),
           answered' = {[input |-> input, id |-> id]}, imported' = imported \ {input.message},
           rating' \subseteq rating, UNCHANGED <<fbRepo, fbClock>>
    PROVE  FbInv'
<1> DEFINE row == Record(input, id, when)
           n == Len(ratings)
<1>1. /\ row \in RatingRow /\ row.id = id /\ row.message = input.message /\ row.rating = input.rating
      /\ row.key = input.key /\ row.at = when /\ input.message \in Rated
  <2>1. /\ input.message \in Rated /\ input.rating \in {"positive", "negative"} /\ input.meta \in Metadata
        /\ input.key \in FeedbackKey \cup {NoKey}
    BY DEF Input
  <2>2. StoredMeta(input.meta) \in Metadata \cup {<<"a", "b">>}
    BY <2>1 DEF StoredMeta, Jsonb, Metadata
  <2>3. Attribution(input.message) \in [engine: {"model"}, version: BOOLEAN]
    BY DEF Attribution
  <2>4. id \in FeedbackId
    BY DEF FreeIds
  <2>5. QED
    BY <2>1, <2>2, <2>3, <2>4 DEF Record, RatingRow
<1> HIDE DEF row
<1>2. /\ ratings \in Seq(RatingRow) /\ n \in Nat /\ ratings' \in Seq(RatingRow) /\ Len(ratings') = n + 1
      /\ DOMAIN ratings = 1..n /\ DOMAIN ratings' = 1..n + 1
      /\ \A i \in 1..n : ratings'[i] = ratings[i] /\ ratings[i] \in RatingRow
      /\ ratings'[n + 1] = row
  BY <1>1 DEF FbInv, FbTypes, row
<1>3. \A i \in 1..n + 1 : i \in 1..n \/ i = n + 1
  BY <1>2
<1>4. \A i \in 1..n : ratings[i].id # id
  BY <1>2 DEF FreeIds, Records
<1>5. selection' = [selection EXCEPT ![input.message] = id]
  BY DEF Selects
<1>6. FbTypes'
  <2>1. id \in FeedbackId
    BY DEF FreeIds
  <2>2. selection' \in [Rated -> FeedbackId \cup {NoId}]
    BY <1>1, <1>5, <2>1 DEF FbInv, FbTypes
  <2>3. QED
    BY <1>2, <2>2 DEF FbInv, FbTypes
<1>7. RatingIdsDiffer'
  BY <1>1, <1>2, <1>3, <1>4 DEF FbInv, RatingIdsDiffer
<1>8. TimesGrow'
  <2> SUFFICES ASSUME fbRepo # "postgres", NEW i \in 1..n + 1
               PROVE  ratings'[i].at <= fbClock /\ \A j \in 1..n + 1 : i < j => ratings'[i].at <= ratings'[j].at
    BY <1>2 DEF TimesGrow
  <2>1. when = fbClock /\ fbClock \in Nat
    BY DEF FbInv, FbTypes
  <2>2. CASE i = n + 1
    <3>1. \A j \in 1..n + 1 : ~(i < j)
      BY <1>2, <2>2
    <3>2. QED
      BY <1>1, <1>2, <2>1, <2>2, <3>1
  <2>3. CASE i \in 1..n
    <3>1. ratings[i].at <= fbClock /\ \A j \in 1..n : i < j => ratings[i].at <= ratings[j].at
      BY <1>2, <2>3 DEF FbInv, TimesGrow
    <3>2. QED
      BY <1>1, <1>2, <1>3, <2>1, <2>3, <3>1
  <2>4. QED
    BY <1>3, <2>2, <2>3
<1>9. OneVotePerKey'
  <2>1. ASSUME NEW i \in 1..n, row.key # NoKey, ratings[i].key = row.key PROVE ratings[i].message # row.message
    <3>1. ratings[i] \notin ExistingFeedback(input) /\ ratings[i] \in Records
      BY <1>2
        DEF Records
    <3>2. QED
      BY <1>1, <2>1, <3>1 DEF ExistingFeedback
  <2>2. \A i, j \in 1..n : i # j /\ ratings[i].key # NoKey /\ ratings[i].key = ratings[j].key
                             => ratings[i].message # ratings[j].message
    BY <1>2 DEF FbInv, OneVotePerKey
  <2>3. \A i, j \in 1..n + 1 : i # j /\ ratings'[i].key # NoKey /\ ratings'[i].key = ratings'[j].key
                                 => ratings'[i].message # ratings'[j].message
    BY <1>2, <1>3, <2>1, <2>2
  <2>4. row \in Records'
    BY <1>2 DEF Records
  <2>5. \A a \in answered' : \E r \in Records' :
           r.id = a.id /\ r.message = a.input.message /\ r.rating = a.input.rating /\ r.key = a.input.key
    BY <1>1, <2>4
  <2>6. QED
    BY <1>2, <2>3, <2>5 DEF OneVotePerKey
<1>10. SelectionFits'
  <2> SUFFICES ASSUME NEW m \in Rated PROVE Selected(ratings', m, selection'[m], m \in imported')
    BY DEF SelectionFits
  <2>1. CASE m = input.message
    <3>1. selection'[m] = id
      BY <1>5, <2>1 DEF FbInv, FbTypes
    <3>2. n + 1 \in RatingsOf(ratings', m) /\ \A i \in RatingsOf(ratings', m) : i <= n + 1
      BY <1>1, <1>2, <2>1 DEF RatingsOf
    <3>3. n + 1 \in DOMAIN ratings' /\ ratings'[n + 1].id = id
      BY <1>1, <1>2
    <3>4. QED
      BY <3>1, <3>2, <3>3 DEF Selected
  <2>2. CASE m # input.message
    <3>1. selection'[m] = selection[m] /\ (m \in imported' <=> m \in imported)
      BY <1>5, <2>2 DEF FbInv, FbTypes
    <3>2. RatingsOf(ratings', m) = RatingsOf(ratings, m)
      BY <1>1, <1>2, <1>3, <2>2 DEF RatingsOf
    <3>3. Selected(ratings, m, selection[m], m \in imported)
      BY DEF FbInv, SelectionFits
    <3>4. \A i \in DOMAIN ratings : i \in DOMAIN ratings' /\ ratings'[i] = ratings[i]
      BY <1>2
    <3>5. RatingsOf(ratings, m) \subseteq DOMAIN ratings
      BY DEF RatingsOf
    <3>6. QED
      BY <3>1, <3>2, <3>3, <3>4, <3>5 DEF Selected
  <2>3. QED
    BY <2>1, <2>2
<1>11. QED
  BY <1>6, <1>7, <1>8, <1>9, <1>10 DEF FbInv

LEMMA StoreFeedbackInv ==
    ASSUME FbInv, NEW input \in Input, NEW when \in Nat, fbRepo # "postgres" => when = fbClock,
           StoreFeedback(input, when), rating' \subseteq rating, UNCHANGED <<fbRepo, fbClock>>
    PROVE  FbInv'
<1>1. CASE ExistingFeedback(input) # {}
  <2>1. PICK r \in ExistingFeedback(input) :
          SameInput(r, input) /\ answered' = {[input |-> input, id |-> r.id]} /\ selection' = Selects(input, r.id)
    BY <1>1 DEF StoreFeedback
  <2>2. UNCHANGED <<ratings, imported>>
    BY <1>1 DEF StoreFeedback
  <2>3. selection' = selection
    BY <1>1, <2>1 DEF Selects
  <2>4. /\ r \in Records /\ r.key = input.key /\ r.message = input.message /\ r.rating = input.rating
        /\ Records' = Records
    BY <2>1, <2>2 DEF ExistingFeedback, SameInput, Records
  <2>5. FbTypes' /\ RatingIdsDiffer' /\ TimesGrow' /\ SelectionFits'
    BY <2>2, <2>3 DEF FbInv, FbTypes, RatingIdsDiffer, TimesGrow, SelectionFits
  <2>6. OneVotePerKey'
    BY <2>1, <2>2, <2>4 DEF FbInv, OneVotePerKey
  <2>7. QED
    BY <2>5, <2>6 DEF FbInv
<1>2. CASE ExistingFeedback(input) = {}
  BY <1>2, NewRatingInv DEF StoreFeedback
<1>3. QED
  BY <1>1, <1>2

\* What a function says of finitely many is finite.
LEMMA FiniteRange == ASSUME NEW S, IsFiniteSet(S), NEW X, NEW f \in [S -> X] PROVE IsFiniteSet({f[x] : x \in S})
<1> DEFINE T == {f[x] : x \in S}
<1>1. f \in Surjection(S, T)
  BY DEF Surjection
<1>2. QED
  BY <1>1, FS_Surjection

\* An import takes a record of the time of the message's last one.
LEMMA LatestOne ==
    ASSUME FbInv, fbRepo # "postgres", NEW m \in Rated, RatingsOf(ratings, m) # {}
    PROVE  \E last, k \in RatingsOf(ratings, m) :
             /\ \A i \in RatingsOf(ratings, m) : i <= last
             /\ ratings[k] = Latest({r \in Records : r.message = m}) /\ ratings[k].at = ratings[last].at
<1> DEFINE D == RatingsOf(ratings, m)
           mine == {r \in Records : r.message = m}
<1>1. /\ D \subseteq 1..Len(ratings) /\ Len(ratings) \in Nat /\ DOMAIN ratings = 1..Len(ratings)
      /\ \A i \in 1..Len(ratings) : ratings[i] \in RatingRow
  BY DEF FbInv, FbTypes, RatingsOf
<1>2. IsFiniteSet(D) /\ D \in SUBSET Nat
  <2>1. IsFiniteSet(1..Len(ratings)) /\ 1..Len(ratings) \subseteq Nat
    BY <1>1, FS_Interval
  <2>2. QED
    BY <1>1, <2>1, FS_Subset
<1>3. PICK last \in D : \A i \in D : i <= last
  BY <1>2, GreatestNat
<1>4. \A i \in D : ratings[i].at <= ratings[last].at /\ ratings[i].at \in Nat /\ ratings[i].id \in Nat
  <2> SUFFICES ASSUME NEW i \in D PROVE ratings[i].at <= ratings[last].at /\ ratings[i].at \in Nat /\ ratings[i].id \in Nat
    OBVIOUS
  <2>1. i \in 1..Len(ratings) /\ last \in 1..Len(ratings) /\ i <= last
    BY <1>1, <1>3
  <2>2. ratings[i].at \in Nat /\ ratings[last].at \in Nat /\ ratings[i].id \in Nat
    BY <1>1, <2>1, FeedbackAssumption DEF RatingRow
  <2>3. i < last => ratings[i].at <= ratings[last].at
    BY <1>1, <2>1 DEF FbInv, TimesGrow
  <2>4. QED
    BY <2>1, <2>2, <2>3
<1> DEFINE L == {i \in D : ratings[i].at = ratings[last].at}
           idOf == [i \in L |-> ratings[i].id]
           ids == {idOf[i] : i \in L}
<1>5. PICK k \in L : \A i \in L : ratings[i].id <= ratings[k].id
  <2>1. IsFiniteSet(L) /\ idOf \in [L -> Nat] /\ last \in L
    <3>1. L \subseteq D
      OBVIOUS
    <3>2. QED
      BY <1>2, <1>4, <3>1, FS_Subset
  <2>2. IsFiniteSet(ids)
    <3> HIDE DEF idOf, L
    <3>1. QED
      BY <2>1, FiniteRange
  <2>3. ids \in SUBSET Nat /\ ids # {}
    BY <2>1
  <2> HIDE DEF ids
  <2>4. PICK g \in ids : \A h \in ids : h <= g
    BY <2>2, <2>3, GreatestNat
  <2>5. QED
    BY <2>4 DEF ids
<1>6. ratings[k] \in mine /\ \A s \in mine : \E i \in D : s = ratings[i]
  BY <1>1 DEF Records, RatingsOf
<1>7. \A s \in mine \ {ratings[k]} : Before(s, ratings[k])
  <2> SUFFICES ASSUME NEW s \in mine, s # ratings[k] PROVE Before(s, ratings[k])
    OBVIOUS
  <2>1. PICK i \in D : s = ratings[i]
    BY <1>6
  <2>2. i # k /\ i \in DOMAIN ratings /\ k \in DOMAIN ratings
    BY <2>1, <1>1
  <2>3. ratings[i].id # ratings[k].id
    BY <2>2 DEF FbInv, RatingIdsDiffer
  <2>4. ratings[k].at = ratings[last].at
    OBVIOUS
  <2>5. CASE i \in L
    BY <1>4, <1>5, <2>1, <2>3, <2>4, <2>5 DEF Before
  <2>6. CASE i \notin L
    BY <1>4, <2>1, <2>4, <2>6 DEF Before
  <2>7. QED
    BY <2>5, <2>6
<1>8. Latest(mine) \in mine /\ \A s \in mine \ {Latest(mine)} : Before(s, Latest(mine))
  BY <1>6, <1>7 DEF Latest
<1>9. Latest(mine) = ratings[k]
  <2>1. SUFFICES ASSUME Latest(mine) # ratings[k] PROVE FALSE
    OBVIOUS
  <2>2. PICK i \in D : Latest(mine) = ratings[i]
    BY <1>6, <1>8
  <2>3. Before(ratings[i], ratings[k]) /\ Before(ratings[k], ratings[i])
    BY <1>6, <1>7, <1>8, <2>1, <2>2
  <2>4. QED
    BY <1>4, <2>3 DEF Before
<1>10. QED
  BY <1>3, <1>9

LEMMA ImportStateInv == FbInv /\ ImportState => FbInv'
<1> SUFFICES ASSUME FbInv, ImportState PROVE FbInv'
  OBVIOUS
<1>1. UNCHANGED <<fbRepo, fbClock, ratings, rating, answered>> /\ fbRepo = "sqlite"
  BY DEF ImportState
<1>2. imported' = {r.message : r \in Records} /\ Records' = Records
  BY <1>1 DEF ImportState, Records
<1>3. /\ DOMAIN ratings = 1..Len(ratings) /\ Len(ratings) \in Nat
      /\ \A i \in 1..Len(ratings) : ratings[i] \in RatingRow
  BY DEF FbInv, FbTypes
<1>4. imported' \in SUBSET Rated
  BY <1>2, <1>3 DEF Records, RatingRow
<1>5. \A m \in Rated : selection'[m] = IF {r \in Records : r.message = m} = {} THEN NoId
                                       ELSE Latest({r \in Records : r.message = m}).id
  BY DEF ImportState
<1>6. DOMAIN selection' = Rated /\ selection' = [m \in Rated |-> selection'[m]]
  BY DEF ImportState
<1>7. \A m \in Rated : {r \in Records : r.message = m} = {} <=> RatingsOf(ratings, m) = {}
  BY DEF Records, RatingsOf
<1>8. ASSUME NEW m \in Rated
      PROVE  selection'[m] \in FeedbackId \cup {NoId} /\ Selected(ratings', m, selection'[m], m \in imported')
  <2>1. CASE RatingsOf(ratings, m) = {}
    BY <1>1, <1>5, <1>7, <2>1 DEF Selected
  <2>2. CASE RatingsOf(ratings, m) # {}
    <3>1. PICK last, k \in RatingsOf(ratings, m) :
             /\ \A i \in RatingsOf(ratings, m) : i <= last
             /\ ratings[k] = Latest({r \in Records : r.message = m}) /\ ratings[k].at = ratings[last].at
      BY <1>1, <2>2, LatestOne
    <3>2. selection'[m] = ratings[k].id
      BY <1>5, <1>7, <2>2, <3>1
    <3>3. k \in DOMAIN ratings /\ ratings[k].message = m /\ ratings[k].id \in FeedbackId
      BY <1>3 DEF RatingsOf, RatingRow
    <3>4. m \in imported'
      BY <1>2, <3>3 DEF Records
    <3>5. QED
      BY <1>1, <2>2, <3>1, <3>2, <3>3, <3>4 DEF Selected
  <2>3. QED
    BY <2>1, <2>2
<1>9. selection' \in [Rated -> FeedbackId \cup {NoId}]
  BY <1>6, <1>8
<1>10. FbTypes' /\ RatingIdsDiffer' /\ TimesGrow'
  BY <1>1, <1>4, <1>9 DEF FbInv, FbTypes, RatingIdsDiffer, TimesGrow
<1>11. OneVotePerKey'
  BY <1>1, <1>2 DEF FbInv, OneVotePerKey
<1>12. SelectionFits'
  BY <1>8 DEF SelectionFits
<1>13. QED
  BY <1>10, <1>11, <1>12 DEF FbInv

LEMMA FbStepInv == FbInv /\ [FeedbackNext]_fbVars => FbInv'
<1> SUFFICES ASSUME FbInv, [FeedbackNext]_fbVars PROVE FbInv'
  OBVIOUS
<1>1. ASSUME UNCHANGED <<fbRepo, ratings, selection, answered, imported>>, rating' \in SUBSET [input: Input, at: Nat],
             fbRepo # "postgres" => rating' = {}, fbClock' \in Nat, fbClock <= fbClock'
      PROVE  FbInv'
  <2>1. FbTypes' /\ RatingIdsDiffer' /\ SelectionFits'
    BY <1>1 DEF FbInv, FbTypes, RatingIdsDiffer, SelectionFits
  <2>2. TimesGrow'
    <3>1. \A i \in DOMAIN ratings : ratings[i].at \in Nat
      <4>1. DOMAIN ratings = 1..Len(ratings) /\ \A i \in 1..Len(ratings) : ratings[i] \in RatingRow
        BY DEF FbInv, FbTypes
      <4>2. QED
        BY <4>1 DEF RatingRow
    <3>2. \A i \in DOMAIN ratings : ratings[i].at <= fbClock => ratings[i].at <= fbClock'
      BY <1>1, <3>1 DEF FbInv, FbTypes
    <3>3. QED
      BY <1>1, <3>2 DEF FbInv, TimesGrow
  <2>3. Records' = Records
    BY <1>1 DEF Records
  <2>4. OneVotePerKey'
    BY <1>1, <2>3 DEF FbInv, OneVotePerKey
  <2>5. QED
    BY <2>1, <2>2, <2>4 DEF FbInv
<1>2. rating \in SUBSET [input: Input, at: Nat] /\ fbClock \in Nat /\ (fbRepo # "postgres" => rating = {})
  BY DEF FbInv, FbTypes
<1>3. CASE SubmitFeedback
  <2>1. PICK input \in Input : StoreFeedback(input, fbClock)
    BY <1>3 DEF SubmitFeedback
  <2>2. UNCHANGED <<fbRepo, fbClock, rating>>
    BY <1>3 DEF SubmitFeedback
  <2>3. QED
    BY <1>2, <2>1, <2>2, StoreFeedbackInv
<1>4. CASE BeginFeedback
  <2>1. PICK input \in Input : rating' = rating \cup {[input |-> input, at |-> fbClock]}
    BY <1>4 DEF BeginFeedback
  <2>2. rating' \in SUBSET [input: Input, at: Nat]
    BY <1>2, <2>1
  <2>3. UNCHANGED <<fbRepo, fbClock, ratings, selection, answered, imported>> /\ fbRepo = "postgres"
    BY <1>4 DEF BeginFeedback
  <2>4. QED
    BY <1>1, <1>2, <2>2, <2>3
<1>5. CASE CommitFeedback
  <2>1. PICK c \in rating : StoreFeedback(c.input, c.at) /\ rating' = rating \ {c}
    BY <1>5 DEF CommitFeedback
  <2>2. UNCHANGED <<fbRepo, fbClock>>
    BY <1>5 DEF CommitFeedback
  <2>3. c.input \in Input /\ c.at \in Nat /\ fbRepo = "postgres" /\ rating' \subseteq rating
    BY <1>2, <2>1
  <2>4. QED
    BY <2>1, <2>2, <2>3, StoreFeedbackInv
<1>6. CASE RefuseFeedback
  BY <1>1, <1>2, <1>6 DEF RefuseFeedback
<1>7. CASE ImportState
  BY <1>7, ImportStateInv
<1>8. CASE FeedbackTime
  BY <1>1, <1>2, <1>8 DEF FeedbackTime
<1>9. CASE UNCHANGED fbVars
  BY <1>1, <1>2, <1>9 DEF fbVars
<1>10. QED
  BY <1>3, <1>4, <1>5, <1>6, <1>7, <1>8, <1>9 DEF FeedbackNext

LEMMA FbInvNewest == FbInv => SelectionIsNewest
<1> SUFFICES ASSUME FbInv, NEW m \in Rated
             PROVE  LET mine == {i \in DOMAIN ratings : ratings[i].message = m}
                    IN IF mine = {} THEN selection[m] = NoId
                       ELSE \E last \in mine :
                              /\ \A i \in mine : i <= last
                              /\ \/ selection[m] = ratings[last].id
                                 \/ m \in imported /\ RecordOf(selection[m]).at = ratings[last].at
  BY DEF SelectionIsNewest
<1>1. Selected(ratings, m, selection[m], m \in imported)
  BY DEF FbInv, SelectionFits
<1>2. CASE RatingsOf(ratings, m) = {}
  BY <1>1, <1>2 DEF Selected, RatingsOf
<1>3. CASE RatingsOf(ratings, m) # {}
  <2>1. PICK last \in RatingsOf(ratings, m) :
           /\ \A i \in RatingsOf(ratings, m) : i <= last
           /\ \E k \in DOMAIN ratings : /\ ratings[k].id = selection[m]
                                        /\ k = last \/ (m \in imported /\ ratings[k].at = ratings[last].at)
    BY <1>1, <1>3 DEF Selected
  <2>2. PICK k \in DOMAIN ratings : /\ ratings[k].id = selection[m]
                                    /\ k = last \/ (m \in imported /\ ratings[k].at = ratings[last].at)
    BY <2>1
  <2>3. RecordOf(selection[m]) = ratings[k]
    <3>1. ratings[k] \in Records
      BY DEF Records
    <3>2. \A r \in Records : r.id = ratings[k].id => r = ratings[k]
      BY DEF Records, FbInv, RatingIdsDiffer
    <3>3. QED
      BY <2>2, <3>1, <3>2 DEF RecordOf
  <2>4. QED
    BY <1>3, <2>1, <2>2, <2>3 DEF RatingsOf
<1>4. QED
  BY <1>2, <1>3

SumStep(g, S) == IF S = {} THEN 0 ELSE (CHOOSE c \in S : TRUE).total + g[S \ {CHOOSE c \in S : TRUE}]
SumsOver(F, g) == g = [S \in F |-> SumStep(g, S)]
SubsetsTo(buckets, n) == {S \in SUBSET buckets : Cardinality(S) <= n}

\* The sum over the subsets of a finite set exists.
LEMMA SumUnfolds ==
    ASSUME NEW buckets, IsFiniteSet(buckets)
    PROVE  SumsOver(SUBSET buckets, SumOfTotals(buckets))
<1> DEFINE Stuck == {n \in Nat : ~\E g : SumsOver(SubsetsTo(buckets, n), g)}
<1>0. \A S \in SUBSET buckets : IsFiniteSet(S) /\ Cardinality(S) \in Nat /\ Cardinality(S) <= Cardinality(buckets)
  BY FS_Subset, FS_CardinalityType
<1>1. Stuck = {}
  <2> SUFFICES ASSUME Stuck # {} PROVE FALSE
    OBVIOUS
  <2>1. PICK n \in Stuck : \A k \in Stuck : n <= k
    BY LeastNat
  <2>2. n # 0
    <3> DEFINE g == [S \in SubsetsTo(buckets, 0) |-> 0]
    <3>1. \A S \in SubsetsTo(buckets, 0) : S = {}
      <4> SUFFICES ASSUME NEW S \in SUBSET buckets, Cardinality(S) <= 0 PROVE S = {}
        BY DEF SubsetsTo
      <4>1. Cardinality(S) = 0
        BY <1>0
      <4>2. QED
        BY <1>0, <4>1, FS_EmptySet
    <3>2. SumsOver(SubsetsTo(buckets, 0), g)
      BY <3>1 DEF SumsOver, SumStep
    <3>3. QED
      BY <2>1, <3>2
  <2>3. n - 1 \in Nat /\ n - 1 \notin Stuck /\ n \in Nat
    BY <2>1, <2>2
  <2>4. PICK g : SumsOver(SubsetsTo(buckets, n - 1), g)
    BY <2>3
  <2> DEFINE h == [S \in SubsetsTo(buckets, n) |-> SumStep(g, S)]
  <2>5. ASSUME NEW S \in SubsetsTo(buckets, n - 1) PROVE S \in SubsetsTo(buckets, n) /\ h[S] = g[S]
    <3>1. S \in SUBSET buckets /\ Cardinality(S) <= n - 1
      BY DEF SubsetsTo
    <3>2. Cardinality(S) <= n
      BY <1>0, <2>3, <3>1
    <3>3. S \in SubsetsTo(buckets, n)
      BY <3>1, <3>2 DEF SubsetsTo
    <3>4. g[S] = SumStep(g, S)
      BY <2>4 DEF SumsOver
    <3>5. QED
      BY <3>3, <3>4
  <2>6. ASSUME NEW S \in SubsetsTo(buckets, n), S # {} PROVE S \ {CHOOSE c \in S : TRUE} \in SubsetsTo(buckets, n - 1)
    <3> DEFINE c == CHOOSE x \in S : TRUE
    <3>1. c \in S
      BY <2>6
    <3>2. S \in SUBSET buckets /\ Cardinality(S) <= n /\ IsFiniteSet(S) /\ Cardinality(S) \in Nat
      BY <1>0 DEF SubsetsTo
    <3> HIDE DEF c
    <3>3. Cardinality(S \ {c}) = Cardinality(S) - 1
      BY <3>1, <3>2, FS_RemoveElement
    <3>4. Cardinality(S \ {c}) <= n - 1
      BY <2>3, <3>2, <3>3
    <3>5. S \ {c} \in SubsetsTo(buckets, n - 1)
      BY <3>2, <3>4 DEF SubsetsTo
    <3>6. QED
      BY <3>5 DEF c
  <2>7. \A S \in SubsetsTo(buckets, n) : SumStep(g, S) = SumStep(h, S)
    <3> HIDE DEF h
    <3>1. QED
      BY <2>5, <2>6 DEF SumStep
  <2>8. SumsOver(SubsetsTo(buckets, n), h)
    BY <2>7 DEF SumsOver
  <2>9. QED
    BY <2>1, <2>8
<1>2. SubsetsTo(buckets, Cardinality(buckets)) = SUBSET buckets /\ Cardinality(buckets) \in Nat
  BY <1>0, FS_CardinalityType DEF SubsetsTo
<1>3. \E g : SumsOver(SUBSET buckets, g)
  BY <1>1, <1>2
<1>4. SumOfTotals(buckets) = CHOOSE g : SumsOver(SUBSET buckets, g)
  BY DEF SumOfTotals, SumsOver, SumStep
<1>5. QED
  BY <1>3, <1>4

BucketOf(q, r) == Bucket(q, Dimensions(r, q.groupBy))
InBuckets(q, S) == {r \in Counted(q) : BucketOf(q, r) \in S}

LEMMA RecordsAreRows == FbInv => Records \in SUBSET RatingRow /\ IsFiniteSet(Records)
<1> SUFFICES ASSUME FbInv PROVE Records \in SUBSET RatingRow /\ IsFiniteSet(Records)
  OBVIOUS
<1>1. /\ DOMAIN ratings = 1..Len(ratings) /\ Len(ratings) \in Nat /\ ratings \in [1..Len(ratings) -> RatingRow]
  BY DEF FbInv, FbTypes
<1>2. IsFiniteSet(1..Len(ratings))
  BY <1>1, FS_Interval
<1>3. IsFiniteSet({ratings[i] : i \in 1..Len(ratings)})
  BY <1>1, <1>2, FiniteRange
<1>4. QED
  BY <1>1, <1>3 DEF Records

\* Records are in one bucket when their dimensions are the same, and a bucket
\* is of those that are in it.
LEMMA BucketsSplit ==
    ASSUME FbInv, NEW q \in Queries
    PROVE  /\ IsFiniteSet(Counted(q)) /\ IsFiniteSet(AllBuckets(q))
           /\ \A b \in AllBuckets(q) : b.total = Cardinality(InBuckets(q, {b})) /\ b.total \in Nat
<1>1. IsFiniteSet(Counted(q))
  <2>1. Counted(q) \in SUBSET Records
    BY DEF Counted
  <2>2. QED
    BY <2>1, RecordsAreRows, FS_Subset
<1>2. IsFiniteSet(AllBuckets(q))
  <2> DEFINE f == [r \in Counted(q) |-> BucketOf(q, r)]
  <2>1. f \in Surjection(Counted(q), AllBuckets(q))
    BY DEF AllBuckets, BucketOf, Surjection
  <2> HIDE DEF f
  <2>2. QED
    BY <1>1, <2>1, FS_Surjection
<1>3. ASSUME NEW b \in AllBuckets(q) PROVE b.total = Cardinality(InBuckets(q, {b})) /\ b.total \in Nat
  <2>1. PICK s \in Counted(q) : b = BucketOf(q, s)
    BY DEF AllBuckets, BucketOf
  <2> DEFINE D == Dimensions(s, q.groupBy)
             same == {r \in Counted(q) : Dimensions(r, q.groupBy) = D}
  <2>2. b.total = Cardinality(same) /\ b.dims = D
    BY <2>1 DEF BucketOf, Bucket
  <2>3. \A r \in Counted(q) : BucketOf(q, r).dims = Dimensions(r, q.groupBy)
    BY DEF BucketOf, Bucket
  <2>4. \A r \in Counted(q) : BucketOf(q, r) = b <=> Dimensions(r, q.groupBy) = D
    <3>1. \A r \in Counted(q) : Dimensions(r, q.groupBy) = D => BucketOf(q, r) = b
      BY <2>1 DEF BucketOf
    <3>2. QED
      BY <2>2, <2>3, <3>1
  <2>5. InBuckets(q, {b}) = same
    BY <2>4 DEF InBuckets
  <2>6. IsFiniteSet(same)
    <3>1. same \in SUBSET Counted(q)
      OBVIOUS
    <3> HIDE DEF same
    <3>2. QED
      BY <1>1, <3>1, FS_Subset
  <2> HIDE DEF same, D
  <2>7. QED
    BY <2>2, <2>5, <2>6, FS_CardinalityType
<1>4. QED
  BY <1>1, <1>2, <1>3

\* The totals of buckets add up to the number of records that are in them.
LEMMA SumCounts ==
    ASSUME FbInv, NEW q \in Queries
    PROVE  \A S \in SUBSET AllBuckets(q) : SumOfTotals(AllBuckets(q))[S] = Cardinality(InBuckets(q, S))
<1> DEFINE A == AllBuckets(q)
           sum == SumOfTotals(AllBuckets(q))
           Wrong == {S \in SUBSET A : sum[S] # Cardinality(InBuckets(q, S))}
           sizes == {Cardinality(S) : S \in Wrong}
<1>1. /\ IsFiniteSet(Counted(q)) /\ IsFiniteSet(A)
      /\ \A b \in A : b.total = Cardinality(InBuckets(q, {b})) /\ b.total \in Nat
  BY BucketsSplit
<1>2. \A S \in SUBSET A : IsFiniteSet(S) /\ Cardinality(S) \in Nat
  BY <1>1, FS_Subset, FS_CardinalityType
<1>3. \A S \in SUBSET A : sum[S] = SumStep(sum, S)
  BY <1>1, SumUnfolds DEF SumsOver
<1>4. \A S : IsFiniteSet(InBuckets(q, S)) /\ Cardinality(InBuckets(q, S)) \in Nat
  <2>1. \A S : InBuckets(q, S) \in SUBSET Counted(q)
    BY DEF InBuckets
  <2>2. QED
    BY <1>1, <2>1, FS_Subset, FS_CardinalityType
<1>5. Wrong = {}
  <2> SUFFICES ASSUME Wrong # {} PROVE FALSE
    OBVIOUS
  <2>1. sizes \in SUBSET Nat /\ sizes # {}
    BY <1>2
  <2>2. PICK n \in sizes : \A k \in sizes : n <= k
    <3> HIDE DEF sizes
    <3>1. QED
      BY <2>1, LeastNat
  <2>3. PICK S \in Wrong : n = Cardinality(S)
    OBVIOUS
  <2>4. \A R \in Wrong : Cardinality(S) <= Cardinality(R)
    BY <2>2, <2>3
  <2>5. S \in SUBSET A /\ sum[S] # Cardinality(InBuckets(q, S))
    OBVIOUS
  <2>6. S # {}
    <3>1. InBuckets(q, {}) = {}
      BY DEF InBuckets
    <3>2. sum[{}] = 0
      BY <1>3 DEF SumStep
    <3>3. QED
      BY <2>5, <3>1, <3>2, FS_EmptySet
  <2> DEFINE b == CHOOSE c \in S : TRUE
             R == S \ {b}
  <2>7. b \in S /\ b \in A
    BY <2>5, <2>6
  <2>8. sum[S] = b.total + sum[R]
    BY <1>3, <2>5, <2>6 DEF SumStep
  <2> HIDE DEF b
  <2>9. R \in SUBSET A /\ Cardinality(R) = Cardinality(S) - 1
    BY <1>2, <2>5, <2>7, FS_RemoveElement
  <2>10. R \notin Wrong
    BY <1>2, <2>4, <2>5, <2>9
  <2>11. sum[R] = Cardinality(InBuckets(q, R))
    BY <2>9, <2>10
  <2>12. Cardinality(InBuckets(q, S)) = Cardinality(InBuckets(q, {b})) + Cardinality(InBuckets(q, R))
    <3>1. InBuckets(q, S) = InBuckets(q, {b}) \cup InBuckets(q, R)
      BY <2>7 DEF InBuckets
    <3>2. InBuckets(q, {b}) \cap InBuckets(q, R) = {}
      BY DEF InBuckets
    <3> HIDE DEF R
    <3>3. Cardinality(InBuckets(q, {b}) \cap InBuckets(q, R)) = 0
      BY <3>2, FS_EmptySet
    <3>4. Cardinality(InBuckets(q, {b}) \cup InBuckets(q, R)) =
            Cardinality(InBuckets(q, {b})) + Cardinality(InBuckets(q, R))
            - Cardinality(InBuckets(q, {b}) \cap InBuckets(q, R))
      BY <1>4, FS_Union
    <3>5. Cardinality(InBuckets(q, {b})) \in Nat /\ Cardinality(InBuckets(q, R)) \in Nat
      BY <1>4
    <3>6. QED
      BY <3>1, <3>3, <3>4, <3>5
  <2>13. QED
    BY <1>1, <2>5, <2>7, <2>8, <2>11, <2>12
<1>6. QED
  BY <1>5

\* The engine is the same for all: records differ in their version only.
LEMMA DimensionsTell ==
    ASSUME FbInv, NEW q \in Queries, NEW r \in Records, NEW s \in Records
    PROVE  Dimensions(r, q.groupBy) # Dimensions(s, q.groupBy)
             => /\ "version" \in q.groupBy
                /\ Dimensions(r, q.groupBy)["version"] # Dimensions(s, q.groupBy)["version"]
<1>1. r.dims \in [engine: {"model"}, version: BOOLEAN] /\ s.dims \in [engine: {"model"}, version: BOOLEAN]
  BY RecordsAreRows DEF RatingRow
<1>2. q.groupBy \in SUBSET {"engine", "version"}
  BY DEF Queries
<1>3. r.dims["engine"] = s.dims["engine"]
  BY <1>1
<1>4. CASE "version" \in q.groupBy /\ r.dims["version"] # s.dims["version"]
  <2>1. /\ Dimensions(r, q.groupBy)["version"] = r.dims["version"]
        /\ Dimensions(s, q.groupBy)["version"] = s.dims["version"]
    BY <1>4 DEF Dimensions
  <2>2. QED
    BY <1>4, <2>1
<1>5. CASE ~("version" \in q.groupBy /\ r.dims["version"] # s.dims["version"])
  <2>1. \A d \in q.groupBy : r.dims[d] = s.dims[d]
    BY <1>2, <1>3, <1>5
  <2>2. Dimensions(r, q.groupBy) = Dimensions(s, q.groupBy)
    BY <2>1 DEF Dimensions
  <2>3. QED
    BY <2>2
<1>6. QED
  BY <1>4, <1>5

\* Of two buckets one comes first, and it is not the smaller one.
LEMMA OneIsFuller ==
    ASSUME FbInv, NEW q \in Queries, NEW b \in AllBuckets(q), NEW c \in AllBuckets(q), b # c
    PROVE  /\ Fuller(b, c) \/ Fuller(c, b)
           /\ b.total = c.total =>
                /\ "version" \in DOMAIN b.dims /\ "version" \in DOMAIN c.dims /\ b.dims # c.dims
                /\ b.dims["version"] \in BOOLEAN /\ c.dims["version"] \in BOOLEAN
                /\ b.dims["version"] # c.dims["version"]
<1>1. PICK r, s \in Counted(q) : b = BucketOf(q, r) /\ c = BucketOf(q, s)
  BY DEF AllBuckets, BucketOf
<1>2. r \in Records /\ s \in Records
  BY DEF Counted
<1>3. b.dims = Dimensions(r, q.groupBy) /\ c.dims = Dimensions(s, q.groupBy)
  BY <1>1 DEF BucketOf, Bucket
<1>4. b.dims # c.dims
  BY <1>1, <1>3 DEF BucketOf
<1>5. "version" \in q.groupBy /\ b.dims["version"] # c.dims["version"]
  BY <1>2, <1>3, <1>4, DimensionsTell
<1>6. DOMAIN b.dims = q.groupBy /\ DOMAIN c.dims = q.groupBy
  BY <1>3 DEF Dimensions
<1>7. b.dims["version"] \in BOOLEAN /\ c.dims["version"] \in BOOLEAN
  <2>1. r.dims \in [engine: {"model"}, version: BOOLEAN] /\ s.dims \in [engine: {"model"}, version: BOOLEAN]
    BY <1>2, RecordsAreRows DEF RatingRow
  <2>2. b.dims["version"] = r.dims["version"] /\ c.dims["version"] = s.dims["version"]
    BY <1>3, <1>5 DEF Dimensions
  <2>3. QED
    BY <2>1, <2>2
<1>8. b.total \in Nat /\ c.total \in Nat
  BY BucketsSplit
<1>9. ~b.dims["version"] \/ ~c.dims["version"]
  BY <1>5, <1>7
<1>10. ASSUME b.total = c.total PROVE Fuller(b, c) \/ Fuller(c, b)
  <2>1. c.total = b.total /\ c.dims # b.dims
    BY <1>4, <1>10
  <2>2. ~b.dims["version"] => Fuller(b, c)
    BY <1>4, <1>5, <1>6, <1>10, Zenon DEF Fuller
  <2>3. ~c.dims["version"] => Fuller(c, b)
    BY <2>1, <1>5, <1>6, Zenon DEF Fuller
  <2>4. QED
    BY <1>9, <2>2, <2>3
<1>11. ASSUME b.total # c.total PROVE Fuller(b, c) \/ Fuller(c, b)
  BY <1>8, <1>11 DEF Fuller
<1>12. QED
  BY <1>4, <1>5, <1>6, <1>7, <1>10, <1>11

FullerThan(q, b) == {c \in AllBuckets(q) : Fuller(c, b)}
Fullest(q) == {b \in AllBuckets(q) : FullerThan(q, b) = {}}

\* When there is a bucket, there is one that no other comes before.
LEMMA SomeIsFullest == ASSUME FbInv, NEW q \in Queries, AllBuckets(q) # {} PROVE Fullest(q) # {}
<1> DEFINE A == AllBuckets(q)
           totals == {b.total : b \in A}
           totalOf == [b \in A |-> b.total]
<1>1. IsFiniteSet(A) /\ \A b \in A : b.total \in Nat
  BY BucketsSplit
<1>2. IsFiniteSet(totals) /\ totals \in SUBSET Nat /\ totals # {}
  <2>1. totalOf \in Surjection(A, totals)
    BY DEF Surjection
  <2>2. IsFiniteSet(totals)
    <3> HIDE DEF totalOf, totals
    <3>1. QED
      BY <1>1, <2>1, FS_Surjection
  <2>3. QED
    BY <1>1, <2>2
<1>3. PICK n \in totals : \A m \in totals : m <= n
  <2> HIDE DEF totals
  <2>1. QED
    BY <1>2, GreatestNat
<1>4. PICK b \in A : b.total = n
  OBVIOUS
<1>5. \A c \in A : c.total <= b.total
  BY <1>3, <1>4
<1>6. ASSUME NEW x \in A, NEW c \in A, x.total = b.total, Fuller(c, x)
      PROVE  c.total = x.total /\ c # x /\ ~c.dims["version"]
  <2>1. ~(c.total > x.total)
    BY <1>1, <1>5, <1>6
  <2>2. QED
    BY <1>6, <2>1, Zenon DEF Fuller
<1>7. CASE FullerThan(q, b) = {}
  BY <1>7 DEF Fullest
<1>8. CASE FullerThan(q, b) # {}
  <2>1. PICK c \in A : Fuller(c, b)
    BY <1>8 DEF FullerThan
  <2>2. c.total = b.total /\ ~c.dims["version"]
    BY <1>6, <2>1
  <2>3. ASSUME NEW d \in A, Fuller(d, c) PROVE FALSE
    <3>1. d.total = c.total /\ d # c /\ ~d.dims["version"]
      BY <1>6, <2>2, <2>3
    <3>2. /\ d.dims["version"] \in BOOLEAN /\ c.dims["version"] \in BOOLEAN
          /\ d.dims["version"] # c.dims["version"]
      BY <3>1, OneIsFuller
    <3>3. QED
      BY <2>2, <3>1, <3>2, Zenon
  <2>4. FullerThan(q, c) = {}
    BY <2>3 DEF FullerThan
  <2>5. QED
    BY <2>4 DEF Fullest
<1>9. QED
  BY <1>7, <1>8

LEMMA FbInvAgree == FbInv => CountsAgree
<1> SUFFICES ASSUME FbInv, NEW q \in Queries
             PROVE  LET answer == Analytics(q)
                    IN /\ SumOfTotals(AllBuckets(q))[AllBuckets(q)] = answer.positive + answer.negative
                       /\ \A b \in answer.buckets, c \in AllBuckets(q) \ answer.buckets : b.total >= c.total
                       /\ Cardinality(answer.buckets) =
                            IF q.limit < Cardinality(AllBuckets(q)) THEN q.limit
                                                                    ELSE Cardinality(AllBuckets(q))
  BY DEF CountsAgree
<1> DEFINE A == AllBuckets(q)
           up == {r \in Counted(q) : r.rating = "positive"}
           down == {r \in Counted(q) : r.rating = "negative"}
<1>1. /\ IsFiniteSet(Counted(q)) /\ IsFiniteSet(A) /\ Cardinality(A) \in Nat
      /\ \A b \in A : b.total \in Nat
  BY BucketsSplit, FS_CardinalityType
<1>2. q.limit = 1
  BY DEF Queries
<1>3. \A b \in A : IsFiniteSet(FullerThan(q, b)) /\ Cardinality(FullerThan(q, b)) \in Nat
  <2>1. \A b \in A : FullerThan(q, b) \in SUBSET A
    BY DEF FullerThan
  <2>2. QED
    BY <1>1, <2>1, FS_Subset, FS_CardinalityType
<1>4. \A b \in A : Cardinality(FullerThan(q, b)) < 1 <=> FullerThan(q, b) = {}
  <2>1. \A b \in A : Cardinality(FullerThan(q, b)) = 0 <=> FullerThan(q, b) = {}
    BY <1>3, FS_EmptySet
  <2>2. QED
    BY <1>3, <2>1
<1>5. Analytics(q).buckets = Fullest(q)
  BY <1>2, <1>4 DEF Analytics, Fullest, FullerThan
<1>6. SumOfTotals(A)[A] = Analytics(q).positive + Analytics(q).negative
  <2>1. SumOfTotals(A)[A] = Cardinality(InBuckets(q, A))
    BY SumCounts
  <2>2. InBuckets(q, A) = Counted(q)
    BY DEF InBuckets, AllBuckets, BucketOf
  <2>3. Analytics(q).positive = Cardinality(up) /\ Analytics(q).negative = Cardinality(down)
    BY DEF Analytics, Count
  <2>4. Counted(q) = up \cup down
    <3>1. \A r \in Counted(q) : r.rating \in {"positive", "negative"}
      BY RecordsAreRows DEF Counted, RatingRow
    <3>2. QED
      BY <3>1
  <2>5. up \cap down = {} /\ up \in SUBSET Counted(q) /\ down \in SUBSET Counted(q)
    OBVIOUS
  <2> HIDE DEF up, down
  <2>6. /\ IsFiniteSet(up) /\ IsFiniteSet(down)
        /\ Cardinality(up) \in Nat /\ Cardinality(down) \in Nat
    BY <1>1, <2>5, FS_Subset, FS_CardinalityType
  <2>7. Cardinality(up \cup down) = Cardinality(up) + Cardinality(down) - Cardinality(up \cap down)
    BY <2>6, FS_Union
  <2>8. Cardinality(up \cap down) = 0
    BY <2>5, FS_EmptySet
  <2>9. QED
    BY <2>1, <2>2, <2>3, <2>4, <2>6, <2>7, <2>8
<1>7. ASSUME NEW b \in Fullest(q), NEW c \in A \ Fullest(q) PROVE b.total >= c.total
  <2>1. ~Fuller(c, b) /\ b \in A
    BY <1>7 DEF Fullest, FullerThan
  <2>2. QED
    BY <1>1, <2>1 DEF Fuller
<1>8. \A b, c \in Fullest(q) : b = c
  BY OneIsFuller DEF Fullest, FullerThan
<1>9. Cardinality(Fullest(q)) = IF q.limit < Cardinality(A) THEN q.limit ELSE Cardinality(A)
  <2>1. CASE A = {}
    <3>1. Fullest(q) = {} /\ Cardinality(A) = 0 /\ Cardinality(Fullest(q)) = 0
      BY <2>1, FS_EmptySet DEF Fullest
    <3>2. QED
      BY <1>2, <3>1
  <2>2. CASE A # {}
    <3>1. PICK b \in Fullest(q) : TRUE
      BY <2>2, SomeIsFullest
    <3>2. Fullest(q) = {b}
      BY <1>8, <3>1
    <3>3. Cardinality(Fullest(q)) = 1
      BY <3>2, FS_Singleton
    <3>4. Cardinality(A) # 0
      BY <1>1, <2>2, FS_EmptySet
    <3>5. QED
      BY <1>1, <1>2, <3>3, <3>4
  <2>3. QED
    BY <2>1, <2>2
<1>10. QED
  BY <1>5, <1>6, <1>7, <1>9

\* createMessageFeedback, importState and queryMessageFeedbackAnalytics, for
\* any number of ids, keys and transactions, and any time: a key votes once for
\* a message, the record selected is the last one stored, and the buckets of
\* every query are disjoint and add up to its totals.
THEOREM VotesAlwaysCounted == FeedbackSpec => []VotesAreCounted
<1>1. FbInv => VotesAreCounted
  BY FbInvNewest, FbInvAgree DEF FbInv, VotesAreCounted
<1>2. QED
  BY <1>1, FbInitInv, FbStepInv, PTL DEF FeedbackSpec

----------------------------------------------------------------------------
(* The repository in memory: rows that hang on a chat, and generations under the contract *)

GenRow == [status: {"absent", "queued", "running", "waiting", "succeeded", "failed", "cancelled"},
           after: LocalGeneration \cup {NoLocal}, operation: {"change", "inspect"}, base: Nat,
           attempt: Nat, holder: LocalToken \cup {NoLocal}, live: BOOLEAN, steer: BOOLEAN, task: Nat]
VersionRow == [number: Nat, gen: LocalGeneration \cup {NoLocal}, parent: Nat]
RowKind    == Removed \cup {"checkpoint", "push", "link", "deployment", "project", "webhook", "cursor",
                           "delivery", "source", "session", "connection"}
RowStatus  == {"kept", "passed", "pending", "succeeded", "failed", "pushed", "conflict", "building", "ready",
               "active", "stopped", "expired", "starting", "paused", "delivering", "dead_lettered",
               "delivered", "disabled", "archived", "open", "consumed", "reauthorization_required",
               "revoked"}
LocalRow   == [kind: RowKind, key: LocalKey, status: RowStatus,
               of: LocalKey \cup LocalToken \cup {NoLocal} \cup Nat, tries: Int]

LocalTypes ==
    /\ area \in {"work", "rows"} /\ chat \in {"live", "deleted", "due", "purged"}
    /\ gens \in [LocalGeneration -> GenRow]
    /\ versions \subseteq VersionRow /\ IsFiniteSet(versions)
    /\ rows \subseteq LocalRow

\* A number is given once, and generations start from numbers that are given.
NumbersDiffer == \A v, w \in versions : v.number = w.number => v = w
BasesAreGiven == \A g \in LocalGeneration : gens[g].base <= Cardinality(versions)

\* A generation has a version exactly when it has changed the chat, and then one.
Changed(g)  == gens[g].status = "succeeded" /\ gens[g].operation = "change"
ResultsAreOne ==
    \A g \in LocalGeneration : IF Changed(g) THEN \E v \in versions : VersionsFrom(g) = {v}
                                             ELSE VersionsFrom(g) = {}

Follows(r) == r.status = "running" /\ r.after # NoLocal => gens[r.after].status = "succeeded"

\* Only a chat of rows is purged, and nothing can begin in it any more.
PurgedIsQuiet ==
    /\ chat \in {"due", "purged"} => area = "rows"
    /\ chat = "purged" => \A g \in LocalGeneration : gens[g] = Absent

\* NothingOutlivesItsChat by the loops' own list: what cascades and is not left behind.
RowsGo ==
    chat = "purged" =>
        /\ versions = {}
        /\ \A r \in rows : r.kind \in Removed =>
             r.kind = "deploymentArtifact" /\ Row("deployment", r.key) # {}

LocalInv ==
    /\ LocalTypes /\ NumbersDiffer /\ BasesAreGiven /\ NumbersAreDense /\ ResultsAreOne
    /\ \A g \in LocalGeneration : Follows(gens[g])
    /\ PurgedIsQuiet /\ RowsGo

LEMMA RowNames ==
    /\ "event" \in RowKind /\ "message" \in RowKind /\ "attribution" \in RowKind
    /\ "toolCall" \in RowKind /\ "skills" \in RowKind /\ "evaluation" \in RowKind
    /\ "feedback" \in RowKind /\ "attachment" \in RowKind /\ "artifact" \in RowKind
    /\ "visual" \in RowKind /\ "deploymentArtifact" \in RowKind /\ "lease" \in RowKind
    /\ "preview" \in RowKind /\ "chatSource" \in RowKind /\ "checkpoint" \in RowKind
    /\ "push" \in RowKind /\ "link" \in RowKind /\ "deployment" \in RowKind
    /\ "project" \in RowKind /\ "webhook" \in RowKind /\ "cursor" \in RowKind
    /\ "delivery" \in RowKind /\ "source" \in RowKind /\ "session" \in RowKind
    /\ "connection" \in RowKind
    /\ "kept" \in RowStatus /\ "passed" \in RowStatus /\ "pending" \in RowStatus /\ "succeeded" \in RowStatus
    /\ "failed" \in RowStatus /\ "pushed" \in RowStatus /\ "conflict" \in RowStatus
    /\ "building" \in RowStatus /\ "ready" \in RowStatus /\ "active" \in RowStatus
    /\ "stopped" \in RowStatus /\ "expired" \in RowStatus /\ "starting" \in RowStatus
    /\ "paused" \in RowStatus /\ "delivering" \in RowStatus /\ "dead_lettered" \in RowStatus
    /\ "delivered" \in RowStatus /\ "disabled" \in RowStatus /\ "archived" \in RowStatus
    /\ "open" \in RowStatus /\ "consumed" \in RowStatus
    /\ "reauthorization_required" \in RowStatus /\ "revoked" \in RowStatus
BY DEF RowKind, RowStatus, Removed

LEMMA LocalBounds ==
    NoLocal \notin LocalGeneration /\ MaxLocalAttempts \in Nat /\ MaxLocalVersions \in Nat
BY LocalAssumption DEF LocalAssumption

LEMMA AbsentFits ==
    Absent \in GenRow /\ Absent.status = "absent" /\ Absent.base = 0 /\ Absent.after = NoLocal
BY DEF Absent, GenRow

LEMMA LocalInitInv == LocalInit => LocalInv
<1> SUFFICES ASSUME LocalInit PROVE LocalInv
  OBVIOUS
<1>1. PICK first : first = [number |-> 1, gen |-> NoLocal, parent |-> 0]
  OBVIOUS
<1>2. /\ first \in VersionRow /\ first.number = 1 /\ first.gen = NoLocal /\ first.parent = 0
      /\ versions = {first} /\ rows = {} /\ chat = "live" /\ area \in {"work", "rows"}
  BY <1>1 DEF LocalInit, VersionRow
<1>3. IsFiniteSet(versions) /\ Cardinality(versions) = 1
  BY <1>2, FS_Singleton
<1>4. \A g \in LocalGeneration :
        /\ gens[g] \in GenRow /\ gens[g].base <= 1 /\ gens[g].status # "succeeded"
        /\ gens[g].after = NoLocal
  <2>1. CASE area = "work"
    <3>1. gens = [g \in LocalGeneration |-> Absent]
      BY <2>1 DEF LocalInit
    <3>2. QED
      BY <3>1, AbsentFits
  <2>2. CASE area # "work"
    <3>1. PICK h \in LocalGeneration, t \in LocalToken :
            gens = [g \in LocalGeneration |->
                      IF g = h THEN [Absent EXCEPT !.status = "running", !.base = 1,
                                       !.attempt = MaxLocalAttempts, !.holder = t, !.live = TRUE]
                      ELSE Absent]
      BY <2>2 DEF LocalInit
    <3>2. PICK r : r = [Absent EXCEPT !.status = "running", !.base = 1,
                          !.attempt = MaxLocalAttempts, !.holder = t, !.live = TRUE]
      OBVIOUS
    <3>3. r \in GenRow /\ r.base = 1 /\ r.status = "running" /\ r.after = NoLocal
      BY <3>2, LocalBounds DEF Absent, GenRow
    <3>4. \A g \in LocalGeneration : gens[g] = r \/ gens[g] = Absent
      BY <3>1, <3>2
    <3>5. QED
      BY <3>3, <3>4, AbsentFits DEF Absent
  <2>3. QED
    BY <2>1, <2>2
<1>5. \E d : gens = [g \in LocalGeneration |-> d[g]]
  BY DEF LocalInit
<1>6. gens \in [LocalGeneration -> GenRow]
  BY <1>4, <1>5
<1>7. LocalTypes
  BY <1>2, <1>3, <1>6 DEF LocalTypes
<1>8. NumbersDiffer /\ BasesAreGiven /\ NumbersAreDense
  BY <1>2, <1>3, <1>4 DEF NumbersDiffer, BasesAreGiven, NumbersAreDense
<1>9. ResultsAreOne
  BY <1>2, <1>4, LocalBounds DEF ResultsAreOne, Changed, VersionsFrom
<1>10. PurgedIsQuiet /\ RowsGo /\ \A g \in LocalGeneration : Follows(gens[g])
  BY <1>2, <1>4 DEF PurgedIsQuiet, RowsGo, Follows
<1>11. QED
  BY <1>7, <1>8, <1>9, <1>10 DEF LocalInv

\* One generation's row changes and nothing else.
LEMMA LocalGenInv ==
    ASSUME LocalInv, NEW g \in LocalGeneration, NEW r \in GenRow, Change(g, r), OnlyGens,
           chat # "purged", r.base <= Cardinality(versions),
           r.status = "succeeded" => r.operation = "inspect" \/ gens[g].status = "succeeded",
           gens[g].status = "succeeded" => r.status = "succeeded",
           gens[g].status = "succeeded" => r.operation = gens[g].operation,
           Follows(r)
    PROVE  LocalInv'
<1>1. /\ LocalTypes /\ gens'[g] = r /\ \A h \in LocalGeneration : h # g => gens'[h] = gens[h]
      /\ UNCHANGED <<area, chat, versions, rows>>
  BY DEF LocalInv, LocalTypes, Change, OnlyGens
<1>2. LocalTypes'
  BY <1>1 DEF LocalTypes, Change
<1>3. NumbersDiffer' /\ BasesAreGiven' /\ NumbersAreDense'
  BY <1>1 DEF LocalInv, NumbersDiffer, BasesAreGiven, NumbersAreDense
<1>4. ASSUME NEW h \in LocalGeneration PROVE Changed(h)' <=> Changed(h)
  BY <1>1 DEF Changed
<1>5. ResultsAreOne'
  BY <1>1, <1>4 DEF LocalInv, ResultsAreOne, VersionsFrom
<1>6. ASSUME NEW h \in LocalGeneration, gens[h].status = "succeeded"
      PROVE  gens'[h].status = "succeeded"
  BY <1>1, <1>6
<1>7. ASSUME NEW h \in LocalGeneration PROVE Follows(gens[h])'
  <2> SUFFICES ASSUME gens'[h].status = "running", gens'[h].after # NoLocal
               PROVE  gens'[gens'[h].after].status = "succeeded"
    BY DEF Follows
  <2>1. gens'[h].after \in LocalGeneration
    BY <1>2 DEF LocalTypes, GenRow
  <2>2. gens[gens'[h].after].status = "succeeded"
    BY <1>1 DEF LocalInv, Follows
  <2>3. QED
    BY <1>6, <2>1, <2>2
<1>8. PurgedIsQuiet' /\ RowsGo'
  BY <1>1 DEF LocalInv, PurgedIsQuiet, RowsGo, Row
<1>9. QED
  BY <1>2, <1>3, <1>5, <1>7, <1>8 DEF LocalInv

\* Steps of the other rows.
LEMMA LocalRowsInv ==
    ASSUME LocalInv, OnlyRows, rows' \subseteq LocalRow,
           \A q \in rows' : chat = "purged" /\ q.kind \in Removed =>
             \/ \E r \in rows : r.kind = q.kind /\ r.key = q.key
             \/ q.kind = "deploymentArtifact" /\ Row("deployment", q.key) # {},
           \A r \in rows : r.kind = "deployment" => \E q \in rows' : q.kind = r.kind /\ q.key = r.key
    PROVE  LocalInv'
<1>1. UNCHANGED <<area, chat, gens, versions>>
  BY DEF OnlyRows
<1>2. LocalTypes' /\ NumbersDiffer' /\ BasesAreGiven' /\ NumbersAreDense' /\ ResultsAreOne'
  BY <1>1 DEF LocalInv, LocalTypes, NumbersDiffer, BasesAreGiven, NumbersAreDense, ResultsAreOne,
              Changed, VersionsFrom
<1>3. (\A g \in LocalGeneration : Follows(gens[g])') /\ PurgedIsQuiet'
  BY <1>1 DEF LocalInv, Follows, PurgedIsQuiet
<1>4. RowsGo'
  <2> SUFFICES ASSUME chat = "purged"
               PROVE  versions = {} /\ \A q \in rows' : q.kind \in Removed =>
                        q.kind = "deploymentArtifact" /\ Row("deployment", q.key)' # {}
    BY <1>1 DEF RowsGo
  <2>1. versions = {}
    BY DEF LocalInv, RowsGo
  <2>2. ASSUME NEW q \in rows', q.kind \in Removed
        PROVE  q.kind = "deploymentArtifact" /\ Row("deployment", q.key)' # {}
    <3>1. q.kind = "deploymentArtifact" /\ Row("deployment", q.key) # {}
      BY <2>2 DEF LocalInv, RowsGo
    <3>2. PICK r \in rows : r.kind = "deployment" /\ r.key = q.key
      BY <3>1 DEF Row
    <3>3. QED
      BY <3>1, <3>2 DEF Row
  <2>3. QED
    BY <2>1, <2>2
<1>5. QED
  BY <1>2, <1>3, <1>4 DEF LocalInv

\* A row that is inserted, and one that is replaced by one of its kind and key.
LEMMA RowInsertInv ==
    ASSUME LocalInv, NEW k \in LocalKey, NEW kind \in RowKind, NEW q \in LocalRow,
           q.kind = kind, q.key = k,
           rows' = rows \cup {q}, OnlyRows,
           chat = "purged" /\ kind \in Removed =>
             kind = "deploymentArtifact" /\ Row("deployment", k) # {}
    PROVE  LocalInv'
<1>1. rows' \subseteq LocalRow /\ rows \subseteq rows'
  BY DEF LocalInv, LocalTypes
<1>2. \A x \in rows' : chat = "purged" /\ x.kind \in Removed =>
             \/ \E r \in rows : r.kind = x.kind /\ r.key = x.key
             \/ x.kind = "deploymentArtifact" /\ Row("deployment", x.key) # {}
  OBVIOUS
<1>3. \A r \in rows : r.kind = "deployment" => \E x \in rows' : x.kind = r.kind /\ x.key = r.key
  BY <1>1
<1>4. QED
  BY <1>1, <1>2, <1>3, LocalRowsInv

LEMMA RowReplaceInv ==
    ASSUME LocalInv, NEW r \in rows, NEW q \in LocalRow, q.kind = r.kind, q.key = r.key, Replace(r, q)
    PROVE  LocalInv'
<1>1. OnlyRows /\ rows' = (rows \ {r}) \cup {q} /\ rows' \subseteq LocalRow
  BY DEF Replace, LocalInv, LocalTypes
<1>2. \A x \in rows' : \E y \in rows : y.kind = x.kind /\ y.key = x.key
  BY <1>1
<1>3. \A x \in rows : \E y \in rows' : y.kind = x.kind /\ y.key = x.key
  BY <1>1
<1>4. QED
  BY <1>1, <1>2, <1>3, LocalRowsInv

LEMMA RowMarkInv ==
    ASSUME LocalInv, NEW r \in rows, NEW s \in RowStatus, Mark(r, s)
    PROVE  LocalInv'
<1>1. PICK q : q = [r EXCEPT !.status = s]
  OBVIOUS
<1>2. r \in LocalRow
  BY DEF LocalInv, LocalTypes
<1>3. q \in LocalRow /\ q.kind = r.kind /\ q.key = r.key /\ Replace(r, q)
  BY <1>1, <1>2 DEF LocalRow, Mark
<1>4. QED
  BY <1>3, RowReplaceInv

LEMMA NewRowFits ==
    ASSUME NEW k \in LocalKey, NEW kind \in RowKind, NEW s \in RowStatus,
           NEW of \in LocalKey \cup LocalToken \cup {NoLocal} \cup Nat
    PROVE  /\ New(kind, k, s, of) \in LocalRow
           /\ New(kind, k, s, of).kind = kind /\ New(kind, k, s, of).key = k
BY DEF New, LocalRow

\* Insert, where the chat is not purged, or the kind of row is not purged with it.
LEMMA RowInsertedInv ==
    ASSUME LocalInv, NEW k \in LocalKey, NEW kind \in RowKind, NEW s \in RowStatus,
           NEW of \in LocalKey \cup LocalToken \cup {NoLocal} \cup Nat,
           Insert(kind, k, s, of),
           chat = "purged" /\ kind \in Removed =>
             kind = "deploymentArtifact" /\ Row("deployment", k) # {}
    PROVE  LocalInv'
<1>1. PICK q : q = New(kind, k, s, of)
  OBVIOUS
<1>2. q \in LocalRow /\ q.kind = kind /\ q.key = k
  BY <1>1, NewRowFits
<1>3. rows' = rows \cup {q} /\ OnlyRows
  BY <1>1 DEF Insert
<1>4. QED
  BY <1>2, <1>3, RowInsertInv

\* Nothing that a row of a purged chat would hang on is there.
LEMMA PurgedHasNone ==
    ASSUME LocalInv, chat = "purged"
    PROVE  /\ \A g \in LocalGeneration : ~Unsettled(g) /\ \A t \in LocalToken : ~Leased(g, t)
           /\ versions = {}
           /\ \A k \in LocalKey : Row("message", k) = {}
<1>1. \A g \in LocalGeneration : gens[g].status = "absent"
  BY AbsentFits DEF LocalInv, PurgedIsQuiet
<1>2. versions = {} /\ \A r \in rows : r.kind # "message"
  BY DEF LocalInv, RowsGo, Removed
<1>3. QED
  BY <1>1, <1>2 DEF Unsettled, Leased, Row

LEMMA RowStepInv == ASSUME LocalInv, RowStep PROVE LocalInv'
<1> SUFFICES ASSUME NEW k \in LocalKey,
               \/ AppendEvent(k) \/ AddMessage(k) \/ AddAttachment(k) \/ AddGeneratedArtifact(k)
               \/ CreateAttribution(k) \/ SaveCheckpoint(k) \/ ClearCheckpoint(k) \/ AttachSkills(k)
               \/ CreateToolCall(k) \/ \E s \in {"succeeded", "failed"} : SettleToolCall(k, s)
               \/ CreateEvaluation(k) \/ CreateVisual(k) \/ CreateFeedback(k)
               \/ CreateLease(k) \/ CloseLease(k) \/ CreatePreview(k) \/ RetargetPreview(k)
               \/ MarkPreviewReady(k) \/ FailPreview(k)
               \/ \E s \in {"stopped", "expired"} : ClosePreview(k, s)
             PROVE  LocalInv'
  BY DEF RowStep
<1> DEFINE Dangling == chat = "purged"
<1>1. /\ Dangling => \A g \in LocalGeneration : ~Unsettled(g) /\ \A t \in LocalToken : ~Leased(g, t)
      /\ Dangling => versions = {} /\ Row("message", k) = {}
  BY PurgedHasNone
<1>2. CASE \/ AppendEvent(k) \/ AddMessage(k) \/ CreateAttribution(k) \/ AttachSkills(k)
           \/ CreateToolCall(k)
  <2>1. chat # "purged"
    BY <1>1, <1>2 DEF AppendEvent, AddMessage, CreateAttribution, AttachSkills, CreateToolCall
  <2>2. CASE AppendEvent(k)
    BY <2>1, <2>2, RowNames, RowInsertedInv DEF AppendEvent
  <2>3. CASE AddMessage(k)
    BY <2>1, <2>3, RowNames, RowInsertedInv DEF AddMessage
  <2>4. CASE CreateAttribution(k)
    BY <2>1, <2>4, RowNames, RowInsertedInv DEF CreateAttribution
  <2>5. CASE AttachSkills(k)
    BY <2>1, <2>5, RowNames, RowInsertedInv DEF AttachSkills
  <2>6. CASE CreateToolCall(k)
    BY <2>1, <2>6, RowNames, RowInsertedInv DEF CreateToolCall
  <2>7. QED
    BY <1>2, <2>2, <2>3, <2>4, <2>5, <2>6
<1>3. CASE AddAttachment(k) \/ AddGeneratedArtifact(k) \/ CreateFeedback(k)
  <2>1. chat # "purged"
    BY <1>1, <1>3 DEF AddAttachment, AddGeneratedArtifact, CreateFeedback
  <2>2. CASE AddAttachment(k)
    BY <2>1, <2>2, RowNames, RowInsertedInv DEF AddAttachment
  <2>3. CASE AddGeneratedArtifact(k)
    BY <2>1, <2>3, RowNames, RowInsertedInv DEF AddGeneratedArtifact
  <2>4. CASE CreateFeedback(k)
    BY <2>1, <2>4, RowNames, RowInsertedInv DEF CreateFeedback
  <2>5. QED
    BY <1>3, <2>2, <2>3, <2>4
<1>4. CASE CreateEvaluation(k) \/ CreateVisual(k) \/ CreateLease(k) \/ CreatePreview(k)
  <2>1. chat # "purged"
    BY <1>1, <1>4 DEF CreateEvaluation, CreateVisual, CreateLease, CreatePreview
  <2>2. CASE CreateEvaluation(k)
    BY <2>1, <2>2, RowNames, RowInsertedInv DEF CreateEvaluation
  <2>3. CASE CreateVisual(k)
    BY <2>1, <2>3, RowNames, RowInsertedInv DEF CreateVisual
  <2>4. CASE CreateLease(k)
    BY <2>1, <2>4, RowNames, RowInsertedInv DEF CreateLease
  <2>5. CASE CreatePreview(k)
    BY <2>1, <2>5, RowNames, RowInsertedInv DEF CreatePreview
  <2>6. QED
    BY <1>4, <2>2, <2>3, <2>4, <2>5
<1>5. CASE SaveCheckpoint(k)
  <2>1. Insert("checkpoint", k, "kept", NoLocal) /\ "checkpoint" \notin Removed
    BY <1>5 DEF SaveCheckpoint, Removed
  <2>2. QED
    BY <2>1, RowNames, RowInsertedInv
<1>6. CASE ClearCheckpoint(k)
  <2>1. PICK r \in rows : r.kind = "checkpoint" /\ rows' = rows \ {r} /\ OnlyRows
    BY <1>6 DEF ClearCheckpoint, Row
  <2>2. rows' \subseteq LocalRow /\ \A q \in rows : q.kind = "deployment" => q \in rows'
    BY <2>1 DEF LocalInv, LocalTypes
  <2>3. QED
    BY <2>1, <2>2, LocalRowsInv
<1>7. CASE \E s \in {"succeeded", "failed"} : SettleToolCall(k, s)
  BY <1>7, RowNames, RowMarkInv DEF SettleToolCall, Row
<1>8. CASE CloseLease(k)
  BY <1>8, RowNames, RowMarkInv DEF CloseLease, Row
<1>9. CASE RetargetPreview(k)
  <2>1. PICK r \in rows, v \in versions : Replace(r, [r EXCEPT !.of = v.number])
    BY <1>9 DEF RetargetPreview, ActivePreview, Row
  <2>2. PICK q : q = [r EXCEPT !.of = v.number]
    OBVIOUS
  <2>3. r \in LocalRow /\ v.number \in Nat
    BY DEF LocalInv, LocalTypes, VersionRow
  <2>4. q \in LocalRow /\ q.kind = r.kind /\ q.key = r.key
    BY <2>2, <2>3 DEF LocalRow
  <2>5. QED
    BY <2>1, <2>2, <2>4, RowReplaceInv
<1>10. CASE \/ MarkPreviewReady(k) \/ FailPreview(k)
            \/ \E s \in {"stopped", "expired"} : ClosePreview(k, s)
  BY <1>10, RowNames, RowMarkInv DEF MarkPreviewReady, FailPreview, ClosePreview, ActivePreview, Row
<1>11. QED
  BY <1>2, <1>3, <1>4, <1>5, <1>6, <1>7, <1>8, <1>9, <1>10

\* A row is completed, and another that its kind of row leads to is there with it.
LEMMA RowCompletedInv ==
    ASSUME LocalInv, NEW k \in LocalKey, NEW r \in rows, r.key = k, NEW s \in RowStatus,
           NEW kind \in {"link", "project"},
           rows' = (rows \ {r}) \cup {[r EXCEPT !.status = s], New(kind, k, "kept", NoLocal)},
           OnlyRows
    PROVE  LocalInv'
<1>1. PICK q : q = [r EXCEPT !.status = s]
  OBVIOUS
<1>2. PICK n : n = New(kind, k, "kept", NoLocal)
  OBVIOUS
<1>3. r \in LocalRow /\ rows \subseteq LocalRow
  BY DEF LocalInv, LocalTypes
<1>4. q \in LocalRow /\ q.kind = r.kind /\ q.key = r.key
  BY <1>1, <1>3 DEF LocalRow
<1>5. n \in LocalRow /\ n.kind = kind /\ n.kind \notin Removed
  <2>1. kind \in RowKind /\ kind \notin Removed /\ "kept" \in RowStatus
    BY RowNames DEF Removed
  <2>2. QED
    BY <1>2, <2>1, NewRowFits
<1>6. rows' = (rows \ {r}) \cup {q, n}
  BY <1>1, <1>2
<1>7. rows' \subseteq LocalRow
  BY <1>3, <1>4, <1>5, <1>6
<1>8. \A x \in rows' : x.kind \in Removed => \E y \in rows : y.kind = x.kind /\ y.key = x.key
  BY <1>4, <1>5, <1>6
<1>9. \A x \in rows : \E y \in rows' : y.kind = x.kind /\ y.key = x.key
  BY <1>4, <1>6
<1>10. QED
  BY <1>7, <1>8, <1>9, LocalRowsInv

LEMMA PublishStepInv == ASSUME LocalInv, PublishStep PROVE LocalInv'
<1> SUFFICES ASSUME NEW k \in LocalKey,
               \/ BeginPush(k) \/ FailPush(k) \/ \E s \in {"pushed", "conflict"} : CompletePush(k, s)
               \/ BeginDeployment(k) \/ FailDeployment(k) \/ CreateDeploymentArtifact(k)
               \/ \E s \in {"building", "ready"} : CompleteDeployment(k, s) \/ ObserveDeployment(k, s)
               \/ CreateWebhook(k) \/ ReplaceSecret(k) \/ DeleteWebhook(k) \/ AdvanceCursor(k)
               \/ \E s \in {"active", "paused"} : UpdateWebhook(k, s)
               \/ DeliveryLeaseExpires(k) \/ Redrive(k)
               \/ \E t \in LocalToken : ClaimDelivery(k, t) \/ CompleteDelivery(k, t) \/ FailDelivery(k, t)
             PROVE  LocalInv'
  BY DEF PublishStep
<1>1. rows \subseteq LocalRow
  BY DEF LocalInv, LocalTypes
<1>2. CASE BeginPush(k) \/ BeginDeployment(k) \/ CreateWebhook(k) \/ AdvanceCursor(k)
  <2>1. {"push", "deployment", "webhook", "cursor"} \cap Removed = {}
    BY DEF Removed
  <2>2. CASE BeginPush(k)
    BY <2>1, <2>2, RowNames, RowInsertedInv DEF BeginPush
  <2>3. CASE BeginDeployment(k)
    BY <2>1, <2>3, RowNames, RowInsertedInv DEF BeginDeployment
  <2>4. CASE CreateWebhook(k)
    BY <2>1, <2>4, RowNames, RowInsertedInv DEF CreateWebhook
  <2>5. CASE AdvanceCursor(k)
    <3>1. PICK w \in LocalKey : Insert("cursor", k, "passed", w)
      BY <2>5 DEF AdvanceCursor
    <3>2. QED
      BY <2>1, <3>1, RowNames, RowInsertedInv
  <2>6. QED
    BY <1>2, <2>2, <2>3, <2>4, <2>5
<1>3. CASE CreateDeploymentArtifact(k)
  BY <1>3, RowNames, RowInsertedInv DEF CreateDeploymentArtifact
<1>4. CASE \/ FailPush(k) \/ FailDeployment(k) \/ \E s \in {"building", "ready"} : ObserveDeployment(k, s)
           \/ \E s \in {"active", "paused"} : UpdateWebhook(k, s)
           \/ DeliveryLeaseExpires(k) \/ \E t \in LocalToken : CompleteDelivery(k, t)
  BY <1>4, RowNames, RowMarkInv DEF FailPush, FailDeployment, ObserveDeployment, UpdateWebhook,
     DeliveryLeaseExpires, CompleteDelivery, DeliveredBy, Row
<1>5. CASE \E t \in LocalToken : FailDelivery(k, t)
  <2>1. PICK r \in rows : Mark(r, IF r.tries >= MaxLocalTries THEN "dead_lettered" ELSE "pending")
    BY <1>5 DEF FailDelivery, DeliveredBy, Row
  <2>2. QED
    BY <2>1, RowNames, RowMarkInv
<1>6. CASE \E s \in {"pushed", "conflict"} : CompletePush(k, s)
  BY <1>6, RowNames, RowCompletedInv DEF CompletePush, Row
<1>7. CASE \E s \in {"building", "ready"} : CompleteDeployment(k, s)
  BY <1>7, RowNames, RowCompletedInv DEF CompleteDeployment, Row
<1>8. CASE ReplaceSecret(k)
  <2>1. PICK r \in rows : Replace(r, [r EXCEPT !.tries = 1 - r.tries])
    BY <1>1, <1>8 DEF ReplaceSecret, Row, LocalRow
  <2>2. PICK n \in Int : n = 1 - r.tries
    BY <1>1 DEF LocalRow
  <2>3. PICK q : q = [r EXCEPT !.tries = n]
    OBVIOUS
  <2>4. q \in LocalRow /\ q.kind = r.kind /\ q.key = r.key
    BY <1>1, <2>3 DEF LocalRow
  <2>5. QED
    BY <2>1, <2>2, <2>3, <2>4, RowReplaceInv
<1>9. CASE DeleteWebhook(k)
  <2>1. PICK r \in rows : /\ r.kind = "webhook" /\ OnlyRows
                          /\ rows' = {q \in rows \ {r} : ~(q.kind = "cursor" /\ q.of = k)}
    BY <1>9 DEF DeleteWebhook, Row
  <2>2. rows' \subseteq LocalRow /\ \A q \in rows : q.kind = "deployment" => q \in rows'
    BY <1>1, <2>1
  <2>3. rows' \subseteq rows
    BY <2>1
  <2>4. QED
    BY <2>1, <2>2, <2>3, LocalRowsInv
<1>10. CASE \E t \in LocalToken : ClaimDelivery(k, t)
  <2>1. PICK t \in LocalToken : ClaimDelivery(k, t)
    BY <1>10
  <2>2. CASE /\ rows' = rows \cup {[New("delivery", k, "delivering", t) EXCEPT !.tries = 1]}
             /\ OnlyRows
    <3>1. PICK q : q = [New("delivery", k, "delivering", t) EXCEPT !.tries = 1]
      OBVIOUS
    <3>2. q \in LocalRow /\ q.kind = "delivery" /\ q.key = k
      BY <3>1, RowNames DEF New, LocalRow
    <3>3. "delivery" \notin Removed
      BY DEF Removed
    <3>4. QED
      BY <2>2, <3>1, <3>2, <3>3, RowNames, RowInsertInv
  <2>3. CASE \E r \in rows : Replace(r, [r EXCEPT !.status = "delivering", !.of = t, !.tries = r.tries + 1])
    <3>1. PICK r \in rows : Replace(r, [r EXCEPT !.status = "delivering", !.of = t, !.tries = r.tries + 1])
      BY <2>3
    <3>2. PICK n \in Int : n = r.tries + 1
      BY <1>1 DEF LocalRow
    <3>3. PICK q : q = [r EXCEPT !.status = "delivering", !.of = t, !.tries = n]
      OBVIOUS
    <3>4. q \in LocalRow /\ q.kind = r.kind /\ q.key = r.key
      BY <1>1, <3>3, RowNames DEF LocalRow
    <3>5. QED
      BY <3>1, <3>2, <3>3, <3>4, RowReplaceInv
  <2>4. CASE \E r \in rows : Mark(r, "dead_lettered")
    BY <2>4, RowNames, RowMarkInv
  <2>5. QED
    BY <1>1, <2>1, <2>2, <2>3, <2>4 DEF ClaimDelivery, Row, LocalRow
<1>11. CASE Redrive(k)
  <2>1. PICK r \in rows : Replace(r, [r EXCEPT !.status = "pending", !.tries = 0])
    BY <1>11 DEF Redrive, Row
  <2>2. PICK q : q = [r EXCEPT !.status = "pending", !.tries = 0]
    OBVIOUS
  <2>3. "pending" \in RowStatus /\ 0 \in Int
    BY RowNames
  <2>4. q \in LocalRow /\ q.kind = r.kind /\ q.key = r.key
    BY <1>1, <2>2, <2>3 DEF LocalRow
  <2>5. QED
    BY <2>1, <2>2, <2>4, RowReplaceInv
<1>12. QED
  BY <1>2, <1>3, <1>4, <1>5, <1>6, <1>7, <1>8, <1>9, <1>10, <1>11

LEMMA SourceStepInv == ASSUME LocalInv, SourceStep PROVE LocalInv'
<1> SUFFICES ASSUME NEW k \in LocalKey,
               \/ CreateSource(k) \/ ArchiveSource(k) \/ ReplaceChatSources(k)
               \/ \E s \in {"active", "disabled"} : UpdateSource(k, s)
               \/ CreateSession(k) \/ ConsumeSession(k) \/ UpsertConnection(k)
               \/ \E s \in {"active", "reauthorization_required", "revoked"} : UpdateConnection(k, s)
             PROVE  LocalInv'
  BY DEF SourceStep
<1>1. rows \subseteq LocalRow
  BY DEF LocalInv, LocalTypes
<1>2. CASE CreateSource(k) \/ CreateSession(k) \/ UpsertConnection(k)
  <2>1. {"source", "session", "connection"} \cap Removed = {}
    BY DEF Removed
  <2>2. CASE CreateSource(k)
    BY <2>1, <2>2, RowNames, RowInsertedInv DEF CreateSource
  <2>3. CASE CreateSession(k)
    BY <2>1, <2>3, RowNames, RowInsertedInv DEF CreateSession
  <2>4. CASE UpsertConnection(k)
    <3>1. CASE Insert("connection", k, "active", NoLocal)
      BY <2>1, <3>1, RowNames, RowInsertedInv
    <3>2. CASE \E r \in rows : Mark(r, "active")
      BY <3>2, RowNames, RowMarkInv
    <3>3. QED
      BY <2>4, <3>1, <3>2 DEF UpsertConnection, Row
  <2>5. QED
    BY <1>2, <2>2, <2>3, <2>4
<1>3. CASE \/ \E s \in {"active", "disabled"} : UpdateSource(k, s)
           \/ ConsumeSession(k)
           \/ \E s \in {"active", "reauthorization_required", "revoked"} : UpdateConnection(k, s)
  BY <1>3, RowNames, RowMarkInv DEF UpdateSource, ConsumeSession, UpdateConnection, Row
<1>4. CASE ArchiveSource(k)
  <2>1. PICK r \in rows : /\ r.kind = "source" /\ OnlyRows
          /\ rows' = {q \in rows \ {r} : ~(q.kind = "chatSource" /\ q.of = k)}
                       \cup {[r EXCEPT !.status = "archived"]}
    BY <1>4 DEF ArchiveSource, Row
  <2>2. PICK n : n = [r EXCEPT !.status = "archived"]
    OBVIOUS
  <2>3. n \in LocalRow /\ n.kind = r.kind /\ n.key = r.key
    BY <1>1, <2>2, RowNames DEF LocalRow
  <2>4. rows' \subseteq LocalRow /\ \A q \in rows : q.kind = "deployment" => q \in rows'
    BY <1>1, <2>1, <2>2, <2>3
  <2>5. \A x \in rows' : \E y \in rows : y.kind = x.kind /\ y.key = x.key
    BY <2>1, <2>2, <2>3
  <2>6. QED
    BY <2>1, <2>4, <2>5, LocalRowsInv
<1>5. CASE ReplaceChatSources(k)
  <2>1. PICK picked \in SUBSET LocalKey :
          /\ rows' = {r \in rows : r.kind # "chatSource"}
                       \cup {New("chatSource", j, "kept", j) : j \in picked}
          /\ chat = "live" /\ OnlyRows
    BY <1>5 DEF ReplaceChatSources
  <2>2. \A j \in picked : New("chatSource", j, "kept", j) \in LocalRow
    BY RowNames, NewRowFits
  <2>3. rows' \subseteq LocalRow /\ \A q \in rows : q.kind = "deployment" => q \in rows'
    BY <1>1, <2>1, <2>2
  <2>4. QED
    BY <2>1, <2>3, LocalRowsInv
<1>6. QED
  BY <1>2, <1>3, <1>4, <1>5

\* The next number by the highest one is the next number by counting.
LEMMA HighestIsCount == ASSUME LocalInv PROVE Newest = Cardinality(versions) /\ Newest \in Nat
<1>1. Cardinality(versions) \in Nat /\ {v.number : v \in versions} = 1..Cardinality(versions)
  BY FS_CardinalityType DEF LocalInv, LocalTypes, NumbersAreDense
<1>2. Cardinality(versions) \in {0} \cup {v.number : v \in versions}
  BY <1>1
<1>3. \A v \in versions : v.number <= Cardinality(versions)
  <2>1. \A v \in versions : v.number \in 1..Cardinality(versions)
    BY <1>1
  <2>2. QED
    BY <1>1, <2>1
<1>4. /\ Newest \in {0} \cup {v.number : v \in versions}
      /\ \A v \in versions : v.number <= Newest
  BY <1>2, <1>3 DEF Newest
<1>5. Newest \in Nat /\ Newest <= Cardinality(versions)
  BY <1>1, <1>4
<1>6. Cardinality(versions) <= Newest
  BY <1>1, <1>2, <1>4, <1>5
<1>7. QED
  BY <1>1, <1>5, <1>6

LEMMA WorkGoesOn ==
    ASSUME LocalInv, NEW g \in LocalGeneration
    PROVE  /\ gens[g] \in GenRow /\ gens[g].base <= Cardinality(versions)
           /\ gens[g].status # "absent" => chat # "purged"
BY AbsentFits DEF LocalInv, LocalTypes, BasesAreGiven, PurgedIsQuiet

\* A run starts from a version the chat has.
LEMMA BaseIsGiven ==
    ASSUME LocalInv, NEW g \in LocalGeneration, Ready(g)
    PROVE  Base(g) \in Nat /\ Base(g) <= Cardinality(versions)
<1>1. CASE gens[g].after = NoLocal
  BY <1>1, WorkGoesOn DEF Base, GenRow
<1>2. CASE gens[g].after # NoLocal
  <2>1. PICK v \in VersionsFrom(gens[g].after) : Base(g) = v.number
    BY <1>2 DEF Base, Ready
  <2>2. v \in versions /\ v.number \in Nat /\ v.number \in 1..Cardinality(versions)
    BY <2>1 DEF VersionsFrom, LocalInv, LocalTypes, VersionRow, NumbersAreDense
  <2>3. Cardinality(versions) \in Nat
    BY FS_CardinalityType DEF LocalInv, LocalTypes
  <2>4. QED
    BY <2>1, <2>2, <2>3
<1>3. QED
  BY <1>1, <1>2

\* What the generation's row becomes: its predecessor and operation stay from its creation on.
Becomes(g, r) == Change(g, r) /\ OnlyGens /\ r.after = gens[g].after /\ r.operation = gens[g].operation

\* The row of g after a step of its own that commits nothing.
LEMMA StartedRow ==
    ASSUME LocalInv, NEW g \in LocalGeneration,
           StartAttempt(g) \/ \E t \in LocalToken : Claim(g, t)
    PROVE  \E r \in GenRow : /\ Becomes(g, r) /\ r.status = "running" /\ r.base <= Cardinality(versions)
                             /\ gens[g].status \in {"queued", "running"} /\ Follows(r)
<1>1. Ready(g) /\ gens[g] \in GenRow /\ gens[g].status \in {"queued", "running"}
  BY WorkGoesOn DEF StartAttempt, Claim
<1>2. PICK b \in Nat : b = Base(g) /\ b <= Cardinality(versions)
  BY <1>1, BaseIsGiven
<1>3. CASE StartAttempt(g)
  <2>1. PICK r : r = [gens[g] EXCEPT !.status = "running", !.base = b]
    OBVIOUS
  <2>2. r \in GenRow /\ r.status = "running" /\ r.base = b /\ r.after = gens[g].after
        /\ r.operation = gens[g].operation
    BY <1>1, <2>1 DEF GenRow
  <2>3. Becomes(g, r) /\ Follows(r)
    BY <1>1, <1>2, <1>3, <2>1, <2>2 DEF StartAttempt, Becomes, Follows, Ready
  <2>4. QED
    BY <1>1, <1>2, <2>2, <2>3
<1>4. ASSUME NEW t \in LocalToken, Claim(g, t)
      PROVE  \E r \in GenRow : /\ Becomes(g, r) /\ r.status = "running" /\ r.base <= Cardinality(versions)
                               /\ gens[g].status \in {"queued", "running"} /\ Follows(r)
  <2>1. PICK r : r = [gens[g] EXCEPT !.status = "running", !.base = b, !.holder = t, !.live = TRUE]
    OBVIOUS
  <2>2. r \in GenRow /\ r.status = "running" /\ r.base = b /\ r.after = gens[g].after
        /\ r.operation = gens[g].operation
    BY <1>1, <2>1 DEF GenRow
  <2>3. Becomes(g, r) /\ Follows(r)
    BY <1>1, <1>2, <1>4, <2>1, <2>2 DEF Claim, Becomes, Follows, Ready
  <2>4. QED
    BY <1>1, <1>2, <2>2, <2>3
<1>5. QED
  BY <1>3, <1>4

\* A row that is queued again, for a new attempt.
LEMMA AgainRow ==
    ASSUME LocalInv, NEW g \in LocalGeneration,
           \/ \E reason \in {"retry", "resume"} : CreateAttempt(g, reason)
           \/ ResolveTask(g)
           \/ \E t \in LocalToken : RepairAttempt(g, t)
    PROVE  \E r \in GenRow : /\ Becomes(g, r) /\ r.status = "queued" /\ r.base = gens[g].base
                             /\ gens[g].status \in {"queued", "running", "waiting", "failed", "cancelled"}
<1>1. gens[g] \in GenRow
  BY WorkGoesOn
<1>2. PICK n \in Nat : n = gens[g].attempt + 1
  BY <1>1 DEF GenRow
<1>3. PICK a : a = [gens[g] EXCEPT !.status = "queued", !.attempt = n, !.holder = NoLocal, !.live = FALSE]
  OBVIOUS
<1>4. a = Again(gens[g])
  BY <1>1, <1>2, <1>3 DEF Again, GenRow
<1>5. a \in GenRow /\ a.status = "queued" /\ a.after = gens[g].after /\ a.operation = gens[g].operation
      /\ a.base = gens[g].base
  BY <1>1, <1>3 DEF GenRow
<1>6. CASE \/ \E reason \in {"retry", "resume"} : CreateAttempt(g, reason)
           \/ \E t \in LocalToken : RepairAttempt(g, t)
  <2>1. Becomes(g, a) /\ gens[g].status \in {"queued", "running", "waiting", "failed", "cancelled"}
    BY <1>4, <1>5, <1>6 DEF CreateAttempt, RepairAttempt, Leased, Becomes
  <2>2. QED
    BY <1>5, <2>1
<1>7. CASE ResolveTask(g)
  <2>1. PICK b : b = [a EXCEPT !.task = 0]
    OBVIOUS
  <2>2. b \in GenRow /\ b.status = "queued" /\ b.after = gens[g].after /\ b.operation = gens[g].operation
        /\ b.base = gens[g].base
    BY <1>5, <2>1 DEF GenRow
  <2>3. Becomes(g, b) /\ gens[g].status = "waiting"
    BY <1>4, <1>7, <2>1, <2>2 DEF ResolveTask, Becomes
  <2>4. QED
    BY <2>2, <2>3
<1>8. QED
  BY <1>6, <1>7

\* A row that is settled without a version.
LEMMA SettledRow ==
    ASSUME LocalInv, NEW g \in LocalGeneration,
           CancelGeneration(g) \/ \E t \in LocalToken : Pause(g, t) \/ FailAttempt(g, t)
    PROVE  \E r \in GenRow :
             /\ Becomes(g, r) /\ r.base = gens[g].base
             /\ \/ r.status = "cancelled" /\ gens[g].status \in {"queued", "running", "waiting"}
                \/ r.status \in {"waiting", "failed"} /\ gens[g].status = "running"
<1>1. gens[g] \in GenRow
  BY WorkGoesOn
<1>2. ASSUME NEW s \in {"waiting", "failed", "cancelled"}
      PROVE  /\ Settled(gens[g], s) \in GenRow /\ Settled(gens[g], s).status = s
             /\ Settled(gens[g], s).after = gens[g].after
             /\ Settled(gens[g], s).operation = gens[g].operation
             /\ Settled(gens[g], s).base = gens[g].base
  BY <1>1 DEF Settled, GenRow
<1>3. CASE CancelGeneration(g)
  <2>1. Becomes(g, Settled(gens[g], "cancelled")) /\ gens[g].status \in {"queued", "running", "waiting"}
    BY <1>2, <1>3 DEF CancelGeneration, Unsettled, Becomes
  <2>2. QED
    BY <1>2, <2>1
<1>4. ASSUME NEW t \in LocalToken, FailAttempt(g, t)
      PROVE  Becomes(g, Settled(gens[g], "failed")) /\ gens[g].status = "running"
  BY <1>2, <1>4 DEF FailAttempt, Leased, Becomes
<1>5. ASSUME NEW t \in LocalToken, Pause(g, t)
      PROVE  \E r \in GenRow : /\ Becomes(g, r) /\ r.base = gens[g].base /\ r.status = "waiting"
                               /\ gens[g].status = "running"
  <2>1. PICK w : w = Settled(gens[g], "waiting")
    OBVIOUS
  <2>2. PICK r : r = [w EXCEPT !.task = gens[g].attempt]
    OBVIOUS
  <2>3. w \in GenRow /\ w.status = "waiting" /\ w.after = gens[g].after
        /\ w.operation = gens[g].operation /\ w.base = gens[g].base /\ gens[g].attempt \in Nat
    BY <1>1, <1>2, <2>1 DEF GenRow
  <2>4. r \in GenRow /\ r.status = "waiting" /\ r.after = gens[g].after
        /\ r.operation = gens[g].operation /\ r.base = gens[g].base
    BY <2>2, <2>3 DEF GenRow
  <2>5. Becomes(g, r) /\ gens[g].status = "running"
    BY <1>5, <2>1, <2>2, <2>4 DEF Pause, Leased, Becomes
  <2>6. QED
    BY <2>4, <2>5
<1>6. QED
  BY <1>2, <1>3, <1>4, <1>5

\* A row whose status stays.
LEMMA SteeredRow ==
    ASSUME LocalInv, NEW g \in LocalGeneration,
           LeaseExpires(g) \/ Steer(g) \/ \E t \in LocalToken : ConsumeSteering(g, t)
    PROVE  \E r \in GenRow : Becomes(g, r) /\ r.base = gens[g].base /\ r.status = gens[g].status
<1>1. gens[g] \in GenRow
  BY WorkGoesOn
<1>2. CASE LeaseExpires(g)
  <2>1. PICK r : r = [gens[g] EXCEPT !.live = FALSE]
    OBVIOUS
  <2>2. r \in GenRow /\ Becomes(g, r) /\ r.base = gens[g].base /\ r.status = gens[g].status
    BY <1>1, <1>2, <2>1 DEF LeaseExpires, GenRow, Becomes
  <2>3. QED
    BY <2>2
<1>3. ASSUME NEW b \in BOOLEAN, Change(g, [gens[g] EXCEPT !.steer = b]), OnlyGens
      PROVE  \E r \in GenRow : Becomes(g, r) /\ r.base = gens[g].base /\ r.status = gens[g].status
  <2>1. PICK r : r = [gens[g] EXCEPT !.steer = b]
    OBVIOUS
  <2>2. r \in GenRow /\ Becomes(g, r) /\ r.base = gens[g].base /\ r.status = gens[g].status
    BY <1>1, <1>3, <2>1 DEF GenRow, Becomes
  <2>3. QED
    BY <2>2
<1>4. QED
  BY <1>2, <1>3 DEF Steer, ConsumeSteering

\* A row that goes on, as the lemmas above describe it.
LEMMA GoneOnInv ==
    ASSUME LocalInv, NEW g \in LocalGeneration, NEW r \in GenRow, Becomes(g, r),
           chat # "purged", r.base <= Cardinality(versions),
           r.status = gens[g].status \/ (r.status # "succeeded" /\ gens[g].status # "succeeded"),
           r.status = "running" => Follows(r) \/ gens[g].status = "running"
    PROVE  LocalInv'
<1>1. Change(g, r) /\ OnlyGens /\ r.after = gens[g].after /\ r.operation = gens[g].operation
  BY DEF Becomes
<1>2. Follows(r)
  BY <1>1 DEF LocalInv, Follows
<1>3. QED
  BY <1>1, <1>2, LocalGenInv

LEMMA CreatedInv ==
    ASSUME LocalInv, NEW g \in LocalGeneration, NEW p \in LocalGeneration \cup {NoLocal},
           NEW op \in {"change", "inspect"}, CreateGeneration(g, p, op)
    PROVE  \E r \in GenRow : /\ Change(g, r) /\ r.status = "queued" /\ r.after = p /\ r.operation = op
                             /\ LocalInv'
<1>1. PICK n \in Nat : n = Newest /\ n <= Cardinality(versions)
  BY HighestIsCount
<1>2. PICK r : r = [Absent EXCEPT !.status = "queued", !.after = p, !.operation = op,
                      !.base = n, !.attempt = 1]
  OBVIOUS
<1>3. r \in GenRow /\ r.status = "queued" /\ r.after = p /\ r.operation = op /\ r.base = n
  BY <1>2 DEF Absent, GenRow
<1>4. Change(g, r) /\ OnlyGens /\ gens[g].status = "absent" /\ chat = "live"
  BY <1>1, <1>2 DEF CreateGeneration, Exists
<1>5. LocalInv'
  BY <1>1, <1>3, <1>4, LocalGenInv DEF Follows
<1>6. QED
  BY <1>3, <1>4, <1>5

\* An answer commits no version.
LEMMA AnsweredInv ==
    ASSUME LocalInv, NEW g \in LocalGeneration, NEW t \in LocalToken, CompleteResponse(g, t)
    PROVE  \E r \in GenRow : /\ Becomes(g, r) /\ r.status = "succeeded" /\ r.operation = "inspect"
                             /\ gens[g].status = "running" /\ LocalInv'
<1>1. gens[g] \in GenRow /\ gens[g].base <= Cardinality(versions) /\ gens[g].status = "running"
      /\ chat # "purged" /\ gens[g].operation = "inspect"
  BY WorkGoesOn DEF CompleteResponse, Leased
<1>2. PICK r : r = Settled(gens[g], "succeeded")
  OBVIOUS
<1>3. r \in GenRow /\ r.status = "succeeded" /\ r.after = gens[g].after /\ r.operation = "inspect"
      /\ r.base = gens[g].base
  BY <1>1, <1>2 DEF Settled, GenRow
<1>4. Change(g, r) /\ OnlyGens
  BY <1>2 DEF CompleteResponse
<1>5. LocalInv'
  BY <1>1, <1>3, <1>4, LocalGenInv DEF Follows
<1>6. QED
  BY <1>1, <1>3, <1>4, <1>5 DEF Becomes

\* A version joins the others under the next number.
LEMMA NextVersion ==
    ASSUME LocalInv, NEW v \in VersionRow, v.number = Cardinality(versions) + 1, v.parent < v.number,
           versions' = versions \cup {v}
    PROVE  /\ versions' \subseteq VersionRow /\ IsFiniteSet(versions')
           /\ Cardinality(versions') = Cardinality(versions) + 1 /\ Cardinality(versions) \in Nat
           /\ NumbersDiffer' /\ NumbersAreDense'
<1>1. /\ versions \subseteq VersionRow /\ IsFiniteSet(versions) /\ Cardinality(versions) \in Nat
      /\ {w.number : w \in versions} = 1..Cardinality(versions)
  BY FS_CardinalityType DEF LocalInv, LocalTypes, NumbersAreDense
<1>2. \A w \in versions : w.number \in 1..Cardinality(versions)
  BY <1>1
<1>3. v \notin versions
  BY <1>1, <1>2
<1>4. IsFiniteSet(versions') /\ Cardinality(versions') = Cardinality(versions) + 1
  BY <1>1, <1>3, FS_AddElement
<1>5. NumbersDiffer'
  BY <1>1, <1>2 DEF LocalInv, NumbersDiffer
<1>6. {w.number : w \in versions'} = 1..(Cardinality(versions) + 1)
  <2>1. {w.number : w \in versions'} = {w.number : w \in versions} \cup {v.number}
    OBVIOUS
  <2>2. QED
    BY <1>1, <2>1
<1>7. NumbersAreDense'
  BY <1>4, <1>6 DEF LocalInv, NumbersAreDense
<1>8. QED
  BY <1>1, <1>4, <1>5, <1>7

LEMMA CompletedGenInv ==
    ASSUME LocalInv, NEW g \in LocalGeneration, NEW t \in LocalToken, Complete(g, t)
    PROVE  LocalInv'
<1>1. gens[g] \in GenRow /\ gens[g].base <= Cardinality(versions) /\ gens[g].status = "running"
      /\ chat # "purged" /\ gens[g].operation = "change"
  BY WorkGoesOn DEF Complete, Leased
<1>2. Cardinality(versions) \in Nat
  BY FS_CardinalityType DEF LocalInv, LocalTypes
<1>3. PICK v : v = [number |-> Cardinality(versions) + 1, gen |-> g, parent |-> gens[g].base]
  OBVIOUS
<1>4. v \in VersionRow /\ v.number = Cardinality(versions) + 1 /\ v.gen = g /\ v.parent < v.number
      /\ versions' = versions \cup {v}
  BY <1>1, <1>2, <1>3 DEF VersionRow, GenRow, Complete
<1>5. PICK r : r = Settled(gens[g], "succeeded")
  OBVIOUS
<1>6. r \in GenRow /\ r.status = "succeeded" /\ r.after = gens[g].after /\ r.operation = "change"
      /\ r.base = gens[g].base
  BY <1>1, <1>5 DEF Settled, GenRow
<1>7. /\ gens' = [gens EXCEPT ![g] = r] /\ UNCHANGED <<area, chat, rows>>
      /\ gens'[g] = r /\ \A h \in LocalGeneration : h # g => gens'[h] = gens[h]
  BY <1>5 DEF Complete, Change, LocalInv, LocalTypes
<1>8. /\ versions' \subseteq VersionRow /\ IsFiniteSet(versions')
      /\ Cardinality(versions') = Cardinality(versions) + 1
      /\ NumbersDiffer' /\ NumbersAreDense'
  BY <1>4, NextVersion
<1>9. LocalTypes'
  BY <1>6, <1>7, <1>8 DEF LocalInv, LocalTypes
<1>10. BasesAreGiven'
  <2> SUFFICES ASSUME NEW h \in LocalGeneration PROVE gens'[h].base <= Cardinality(versions)'
    BY DEF BasesAreGiven
  <2>1. gens'[h].base <= Cardinality(versions) /\ gens'[h].base \in Nat
    BY <1>1, <1>6, <1>7, <1>9 DEF LocalInv, BasesAreGiven, LocalTypes, GenRow
  <2>2. QED
    BY <1>2, <1>8, <2>1
<1>11. VersionsFrom(g)' = {v} /\ \A h \in LocalGeneration : h # g => VersionsFrom(h)' = VersionsFrom(h)
  <2>1. VersionsFrom(g) = {}
    BY <1>1 DEF LocalInv, ResultsAreOne, Changed
  <2>2. QED
    BY <1>4, <2>1 DEF VersionsFrom
<1>12. ResultsAreOne'
  <2> SUFFICES ASSUME NEW h \in LocalGeneration
               PROVE  IF Changed(h)' THEN \E w \in versions' : VersionsFrom(h)' = {w}
                                     ELSE VersionsFrom(h)' = {}
    BY DEF ResultsAreOne
  <2>1. CASE h = g
    BY <1>4, <1>6, <1>7, <1>11, <2>1 DEF Changed
  <2>2. CASE h # g
    BY <1>4, <1>7, <1>11, <2>2 DEF LocalInv, ResultsAreOne, Changed
  <2>3. QED
    BY <2>1, <2>2
<1>13. ASSUME NEW h \in LocalGeneration PROVE Follows(gens[h])'
  <2> SUFFICES ASSUME gens'[h].status = "running", gens'[h].after # NoLocal
               PROVE  gens'[gens'[h].after].status = "succeeded"
    BY DEF Follows
  <2>1. h # g /\ gens'[h] = gens[h] /\ gens[h].after \in LocalGeneration
    BY <1>6, <1>7 DEF LocalInv, LocalTypes, GenRow
  <2>2. gens[gens[h].after].status = "succeeded"
    BY <2>1 DEF LocalInv, Follows
  <2>3. QED
    BY <1>6, <1>7, <2>1, <2>2
<1>14. PurgedIsQuiet' /\ RowsGo'
  BY <1>1, <1>7 DEF LocalInv, PurgedIsQuiet, RowsGo
<1>15. QED
  BY <1>8, <1>9, <1>10, <1>12, <1>13, <1>14 DEF LocalInv

LEMMA WorkStepInv == ASSUME LocalInv, WorkStep PROVE LocalInv'
<1> SUFFICES ASSUME NEW g \in LocalGeneration,
               \/ \E p \in LocalGeneration \cup {NoLocal}, op \in {"change", "inspect"} :
                    CreateGeneration(g, p, op)
               \/ StartAttempt(g) \/ LeaseExpires(g) \/ Steer(g) \/ ResolveTask(g) \/ CancelGeneration(g)
               \/ \E reason \in {"retry", "resume"} : CreateAttempt(g, reason)
               \/ \E t \in LocalToken :
                    \/ Claim(g, t) \/ ConsumeSteering(g, t) \/ Complete(g, t) \/ CompleteResponse(g, t)
                    \/ Pause(g, t) \/ FailAttempt(g, t) \/ RepairAttempt(g, t)
             PROVE  LocalInv'
  BY DEF WorkStep
<1>1. gens[g].base <= Cardinality(versions)
  BY WorkGoesOn
<1>2. CASE \E p \in LocalGeneration \cup {NoLocal}, op \in {"change", "inspect"} : CreateGeneration(g, p, op)
  BY <1>2, CreatedInv
<1>3. CASE StartAttempt(g) \/ \E t \in LocalToken : Claim(g, t)
  <2>1. PICK r \in GenRow : /\ Becomes(g, r) /\ r.status = "running" /\ r.base <= Cardinality(versions)
                            /\ gens[g].status \in {"queued", "running"} /\ Follows(r)
    BY <1>3, StartedRow
  <2>2. QED
    BY <2>1, WorkGoesOn, GoneOnInv
<1>4. CASE \/ \E reason \in {"retry", "resume"} : CreateAttempt(g, reason)
           \/ ResolveTask(g)
           \/ \E t \in LocalToken : RepairAttempt(g, t)
  <2>1. PICK r \in GenRow :
          /\ Becomes(g, r) /\ r.status = "queued" /\ r.base = gens[g].base
          /\ gens[g].status \in {"queued", "running", "waiting", "failed", "cancelled"}
    BY <1>4, AgainRow
  <2>2. QED
    BY <1>1, <2>1, WorkGoesOn, GoneOnInv
<1>5. CASE CancelGeneration(g) \/ \E t \in LocalToken : Pause(g, t) \/ FailAttempt(g, t)
  <2>1. PICK r \in GenRow :
             /\ Becomes(g, r) /\ r.base = gens[g].base
             /\ \/ r.status = "cancelled" /\ gens[g].status \in {"queued", "running", "waiting"}
                \/ r.status \in {"waiting", "failed"} /\ gens[g].status = "running"
    BY <1>5, SettledRow
  <2>2. QED
    BY <1>1, <2>1, WorkGoesOn, GoneOnInv
<1>6. CASE LeaseExpires(g) \/ Steer(g) \/ \E t \in LocalToken : ConsumeSteering(g, t)
  <2>1. PICK r \in GenRow : Becomes(g, r) /\ r.base = gens[g].base /\ r.status = gens[g].status
    BY <1>6, SteeredRow
  <2>2. chat # "purged"
    BY <1>6, WorkGoesOn DEF LeaseExpires, Steer, ConsumeSteering, Unsettled, Leased, LocalInv,
       PurgedIsQuiet, Absent
  <2>3. QED
    BY <1>1, <2>1, <2>2, GoneOnInv
<1>7. CASE \E t \in LocalToken : Complete(g, t) \/ CompleteResponse(g, t)
  BY <1>7, CompletedGenInv, AnsweredInv
<1>8. QED
  BY <1>2, <1>3, <1>4, <1>5, <1>6, <1>7

\* A version that no generation made takes the next number too.
LEMMA EditedInv ==
    ASSUME LocalInv, NEW v \in versions, chat = "live",
           versions' = versions \cup {SourceVersion(v.number)}, UNCHANGED <<area, chat, gens, rows>>
    PROVE  LocalInv' /\ \A g \in LocalGeneration : VersionsFrom(g)' = VersionsFrom(g)
<1>1. Cardinality(versions) \in Nat /\ Newest = Cardinality(versions)
  BY HighestIsCount, FS_CardinalityType DEF LocalInv, LocalTypes
<1>2. PICK n : n = SourceVersion(v.number)
  OBVIOUS
<1>3. v.number \in Nat /\ v.number \in 1..Cardinality(versions)
  BY DEF LocalInv, LocalTypes, VersionRow, NumbersAreDense
<1>4. n \in VersionRow /\ n.number = Cardinality(versions) + 1 /\ n.gen = NoLocal /\ n.parent < n.number
      /\ versions' = versions \cup {n}
  BY <1>1, <1>2, <1>3 DEF SourceVersion, VersionRow
<1>5. /\ versions' \subseteq VersionRow /\ IsFiniteSet(versions')
      /\ Cardinality(versions') = Cardinality(versions) + 1
      /\ NumbersDiffer' /\ NumbersAreDense'
  BY <1>4, NextVersion
<1>6. \A g \in LocalGeneration : VersionsFrom(g)' = VersionsFrom(g)
  BY <1>4, LocalBounds DEF VersionsFrom
<1>7. LocalTypes'
  BY <1>5 DEF LocalInv, LocalTypes
<1>8. BasesAreGiven'
  <2> SUFFICES ASSUME NEW g \in LocalGeneration PROVE gens[g].base <= Cardinality(versions)'
    BY DEF BasesAreGiven
  <2>1. gens[g].base <= Cardinality(versions) /\ gens[g].base \in Nat
    BY DEF LocalInv, BasesAreGiven, LocalTypes, GenRow
  <2>2. QED
    BY <1>1, <1>5, <2>1
<1>9. ResultsAreOne'
  BY <1>4, <1>6 DEF LocalInv, ResultsAreOne, Changed
<1>10. (\A g \in LocalGeneration : Follows(gens[g])') /\ PurgedIsQuiet' /\ RowsGo'
  BY DEF LocalInv, Follows, PurgedIsQuiet, RowsGo
<1>11. QED
  BY <1>5, <1>6, <1>7, <1>8, <1>9, <1>10 DEF LocalInv

\* The chat changes its state, and stays unpurged.
LEMMA ChatKeptInv ==
    ASSUME LocalInv, UNCHANGED <<area, gens, versions, rows>>, chat' \in {"live", "deleted", "due"},
           chat' = "due" => area = "rows"
    PROVE  LocalInv'
<1>1. LocalTypes' /\ NumbersDiffer' /\ BasesAreGiven' /\ NumbersAreDense' /\ ResultsAreOne'
  BY DEF LocalInv, LocalTypes, NumbersDiffer, BasesAreGiven, NumbersAreDense, ResultsAreOne,
         Changed, VersionsFrom
<1>2. (\A g \in LocalGeneration : Follows(gens[g])') /\ PurgedIsQuiet' /\ RowsGo'
  BY DEF LocalInv, Follows, PurgedIsQuiet, RowsGo
<1>3. QED
  BY <1>1, <1>2 DEF LocalInv

LEMMA PurgedInv == ASSUME LocalInv, PurgeChat PROVE LocalInv'
<1>1. /\ chat = "due" /\ chat' = "purged" /\ area' = area /\ area = "rows" /\ versions' = {}
      /\ gens' = [g \in LocalGeneration |-> Absent] /\ rows' = {r \in rows : r.kind \notin Removed}
  BY DEF PurgeChat, LocalInv, PurgedIsQuiet
<1>2. IsFiniteSet(versions') /\ Cardinality(versions') = 0
  BY <1>1, FS_EmptySet
<1>3. LocalTypes' /\ \A g \in LocalGeneration : gens'[g] = Absent
  BY <1>1, <1>2, AbsentFits DEF LocalInv, LocalTypes
<1>4. NumbersDiffer' /\ BasesAreGiven' /\ NumbersAreDense'
  BY <1>1, <1>2, <1>3, AbsentFits DEF NumbersDiffer, BasesAreGiven, NumbersAreDense
<1>5. ResultsAreOne' /\ \A g \in LocalGeneration : Follows(gens[g])'
  BY <1>1, <1>3, AbsentFits DEF ResultsAreOne, Changed, VersionsFrom, Follows
<1>6. PurgedIsQuiet' /\ RowsGo'
  BY <1>1, <1>3 DEF PurgedIsQuiet, RowsGo
<1>7. QED
  BY <1>3, <1>4, <1>5, <1>6 DEF LocalInv

LEMMA ChatStepInv == ASSUME LocalInv, ChatStep PROVE LocalInv'
<1>1. CASE CreateSourceVersion \/ RestoreVersion
  BY <1>1, EditedInv DEF CreateSourceVersion, RestoreVersion
<1>2. CASE DeleteChat \/ RestoreChat \/ RetentionEnds
  BY <1>2, ChatKeptInv DEF DeleteChat, RestoreChat, RetentionEnds
<1>3. QED
  BY <1>1, <1>2, PurgedInv DEF ChatStep

LEMMA LocalNextInv == LocalInv /\ [LocalNext]_localVars => LocalInv'
<1> SUFFICES ASSUME LocalInv, [LocalNext]_localVars PROVE LocalInv'
  OBVIOUS
<1>1. CASE UNCHANGED localVars
  BY <1>1 DEF localVars, LocalInv, LocalTypes, NumbersDiffer, BasesAreGiven, NumbersAreDense,
     ResultsAreOne, Changed, VersionsFrom, Follows, PurgedIsQuiet, RowsGo, Row
<1>2. QED
  BY <1>1, WorkStepInv, ChatStepInv, RowStepInv, PublishStepInv, SourceStepInv DEF LocalNext

LEMMA LocalInvAlways == LocalSpec => []LocalInv
<1>1. QED
  BY LocalInitInv, LocalNextInv, PTL DEF LocalSpec

\* The loops remove exactly the kinds that cascade and are not among those left behind.
LEMMA LoopsFollowCascades ==
    Removed \subseteq Cascaded /\ \A kind \in Cascaded \ LeftBehind : kind \in Removed
BY DEF Removed, Cascaded, LeftBehind, RefersToChat, RefersToGeneration, RefersToVersion

\* For chats, keys and rows of any number: version numbers have no gap, whichever of both
\* rules gives one, and no row that PostgreSQL's cascades would take along is left by
\* purgeDeletedChats or comes after it, except of the kinds LeftBehind and the archive of a
\* deployment that is left (src/memory-repository.ts).
THEOREM LocalRowsAlwaysAgree == LocalSpec => []LocalRowsAgree
<1>1. RowsGo => NothingOutlivesItsChat
  BY LoopsFollowCascades DEF RowsGo, NothingOutlivesItsChat
<1>2. LocalInv => LocalRowsAgree
  BY <1>1 DEF LocalInv, LocalRowsAgree
<1>3. QED
  BY <1>2, LocalInvAlways, PTL

\* What the contract sees of a generation without a version, and with one.
LEMMA LocalResultOf ==
    ASSUME NEW g \in LocalGeneration
    PROVE  /\ VersionsFrom(g) = {} => Result[g] = 0
           /\ \A v : VersionsFrom(g) = {v} => Result[g] = v.number
BY DEF Result

\* A step that commits nothing leaves every result as it is.
LEMMA LocalResultKept ==
    ASSUME \A h \in LocalGeneration : VersionsFrom(h)' = VersionsFrom(h)
    PROVE  Result' = Result
<1> DEFINE R(V) == IF V = {} THEN 0 ELSE (CHOOSE v \in V : TRUE).number
<1>1. /\ Result = [h \in LocalGeneration |-> R(VersionsFrom(h))]
      /\ Result' = [h \in LocalGeneration |-> R(VersionsFrom(h)')]
  BY DEF Result
<1> HIDE DEF R
<1>2. \A h \in LocalGeneration : R(VersionsFrom(h)') = R(VersionsFrom(h))
  OBVIOUS
<1>3. QED
  BY <1>1, <1>2

LocalContractStep == Contract!Next \/ UNCHANGED Contract!vars

\* What the contract sees of a row that goes on.
LEMMA RowBecomes ==
    ASSUME LocalInv, NEW g \in LocalGeneration, NEW r \in GenRow, Becomes(g, r)
    PROVE  /\ Contract!Become(g, r.status)
           /\ [h \in LocalGeneration |-> gens'[h].after] = [h \in LocalGeneration |-> gens[h].after]
           /\ [h \in LocalGeneration |-> gens'[h].operation] = [h \in LocalGeneration |-> gens[h].operation]
           /\ Result' = Result
<1>1. /\ gens'[g] = r /\ \A h \in LocalGeneration : h # g => gens'[h] = gens[h]
      /\ versions' = versions /\ r.after = gens[g].after /\ r.operation = gens[g].operation
  BY DEF Becomes, Change, OnlyGens, LocalInv, LocalTypes
<1>2. \A h \in LocalGeneration : VersionsFrom(h)' = VersionsFrom(h)
  BY <1>1 DEF VersionsFrom
<1>3. Result' = Result
  BY <1>2, LocalResultKept
<1>4. Contract!Become(g, r.status)
  BY <1>1 DEF Contract!Become
<1>5. QED
  BY <1>1, <1>3, <1>4

LEMMA LocalMayRun ==
    ASSUME LocalInv, NEW g \in LocalGeneration,
           gens[g].after # NoLocal => gens[gens[g].after].status = "succeeded"
    PROVE  Contract!MayRun(g)
<1>1. gens[g].after \in LocalGeneration \cup {NoLocal}
  BY WorkGoesOn DEF GenRow
<1>2. QED
  BY <1>1 DEF Contract!MayRun

LEMMA WorkKeepsContract == ASSUME LocalInv, WorkStep PROVE LocalContractStep
<1> SUFFICES ASSUME NEW g \in LocalGeneration,
               \/ \E p \in LocalGeneration \cup {NoLocal}, op \in {"change", "inspect"} :
                    CreateGeneration(g, p, op)
               \/ StartAttempt(g) \/ LeaseExpires(g) \/ Steer(g) \/ ResolveTask(g) \/ CancelGeneration(g)
               \/ \E reason \in {"retry", "resume"} : CreateAttempt(g, reason)
               \/ \E t \in LocalToken :
                    \/ Claim(g, t) \/ ConsumeSteering(g, t) \/ Complete(g, t) \/ CompleteResponse(g, t)
                    \/ Pause(g, t) \/ FailAttempt(g, t) \/ RepairAttempt(g, t)
             PROVE  LocalContractStep
  BY DEF WorkStep
<1> DEFINE S == [h \in LocalGeneration |-> gens[h].status]
<1>0. ASSUME NEW r \in GenRow, Becomes(g, r), r.status = gens[g].status PROVE LocalContractStep
  <2>1. Contract!Become(g, r.status)
    BY <1>0, RowBecomes
  <2>2. [h \in LocalGeneration |-> gens'[h].status] = S
    BY <1>0, <2>1 DEF Contract!Become
  <2>3. QED
    BY <1>0, <2>2, RowBecomes DEF LocalContractStep, Contract!vars
<1>1. ASSUME NEW p \in LocalGeneration \cup {NoLocal}, NEW op \in {"change", "inspect"},
             CreateGeneration(g, p, op)
      PROVE  LocalContractStep
  <2>1. PICK r \in GenRow : Change(g, r) /\ r.status = "queued" /\ r.after = p /\ r.operation = op
    BY <1>1, CreatedInv
  <2>2. /\ gens' = [gens EXCEPT ![g] = r] /\ gens \in [LocalGeneration -> GenRow]
        /\ gens'[g] = r /\ \A h \in LocalGeneration : h # g => gens'[h] = gens[h]
        /\ versions' = versions
    BY <1>1, <2>1 DEF Change, LocalInv, LocalTypes, CreateGeneration, OnlyGens
  <2>3. Result' = Result
    BY <2>2, LocalResultKept DEF VersionsFrom
  <2>4. /\ Contract!Become(g, "queued")
        /\ [h \in LocalGeneration |-> gens'[h].after] = [[h \in LocalGeneration |-> gens[h].after] EXCEPT ![g] = p]
        /\ [h \in LocalGeneration |-> gens'[h].operation]
             = [[h \in LocalGeneration |-> gens[h].operation] EXCEPT ![g] = op]
    BY <2>1, <2>2 DEF Contract!Become
  <2>5. gens[g].status = "absent" /\ (p # NoLocal => gens[p].status # "absent" /\ gens[p].operation = "change")
    BY <1>1 DEF CreateGeneration, Exists
  <2>6. Contract!Accept(g, op, p)
    BY <2>3, <2>4, <2>5 DEF Contract!Accept
  <2>7. QED
    BY <2>6 DEF LocalContractStep, Contract!Next
<1>2. CASE StartAttempt(g) \/ \E t \in LocalToken : Claim(g, t)
  <2>1. PICK r \in GenRow : Becomes(g, r) /\ r.status = "running" /\ gens[g].status \in {"queued", "running"}
    BY <1>2, StartedRow
  <2>2. Contract!MayRun(g)
    BY <1>2, LocalMayRun DEF StartAttempt, Claim, Ready
  <2>3. CASE gens[g].status = "queued"
    <3>1. Contract!Start(g)
      BY <2>1, <2>2, <2>3, RowBecomes DEF Contract!Start
    <3>2. QED
      BY <3>1 DEF LocalContractStep, Contract!Next
  <2>4. QED
    BY <1>0, <2>1, <2>3
<1>3. CASE \/ \E reason \in {"retry", "resume"} : CreateAttempt(g, reason)
           \/ ResolveTask(g)
           \/ \E t \in LocalToken : RepairAttempt(g, t)
  <2>1. PICK r \in GenRow :
          /\ Becomes(g, r) /\ r.status = "queued"
          /\ gens[g].status \in {"queued", "running", "waiting", "failed", "cancelled"}
    BY <1>3, AgainRow
  <2>2. CASE gens[g].status # "queued"
    <3>1. Contract!Requeue(g)
      BY <2>1, <2>2, RowBecomes DEF Contract!Requeue
    <3>2. QED
      BY <3>1 DEF LocalContractStep, Contract!Next
  <2>3. QED
    BY <1>0, <2>1, <2>2
<1>4. CASE CancelGeneration(g) \/ \E t \in LocalToken : Pause(g, t) \/ FailAttempt(g, t)
  <2>1. PICK r \in GenRow :
             /\ Becomes(g, r)
             /\ \/ r.status = "cancelled" /\ gens[g].status \in {"queued", "running", "waiting"}
                \/ r.status \in {"waiting", "failed"} /\ gens[g].status = "running"
    BY <1>4, SettledRow
  <2>2. Contract!Cancel(g) \/ Contract!Stop(g)
    BY <2>1, RowBecomes DEF Contract!Cancel, Contract!Stop
  <2>3. QED
    BY <2>2 DEF LocalContractStep, Contract!Next
<1>5. CASE LeaseExpires(g) \/ Steer(g) \/ \E t \in LocalToken : ConsumeSteering(g, t)
  BY <1>0, <1>5, SteeredRow
<1>6. ASSUME NEW t \in LocalToken, CompleteResponse(g, t) PROVE LocalContractStep
  <2>1. PICK r \in GenRow : /\ Becomes(g, r) /\ r.status = "succeeded" /\ r.operation = "inspect"
                            /\ gens[g].status = "running"
    BY <1>6, AnsweredInv
  <2>2. Contract!MayRun(g) /\ Result[g] = 0 /\ gens[g].operation = "inspect"
    BY <2>1, LocalMayRun, LocalResultOf DEF Becomes, LocalInv, Follows, ResultsAreOne, Changed
  <2>3. Contract!Finish(g)
    BY <2>1, <2>2, RowBecomes DEF Contract!Finish
  <2>4. QED
    BY <2>3 DEF LocalContractStep, Contract!Next
<1>7. ASSUME NEW t \in LocalToken, Complete(g, t) PROVE LocalContractStep
  <2>1. PICK v : v = [number |-> Cardinality(versions) + 1, gen |-> g, parent |-> gens[g].base]
    OBVIOUS
  <2>2. PICK n : n = Cardinality(versions) + 1
    OBVIOUS
  <2>3. /\ v.number = n /\ v.gen = g /\ versions' = versions \cup {v}
        /\ Cardinality(versions) \in Nat /\ n \in 1..MaxLocalVersions
        /\ gens[g].status = "running" /\ gens[g].operation = "change"
    BY <1>7, <2>1, <2>2, FS_CardinalityType, LocalBounds DEF Complete, Leased, LocalInv, LocalTypes
  <2>4. VersionsFrom(g) = {}
    BY <2>3 DEF LocalInv, ResultsAreOne, Changed
  <2>5. VersionsFrom(g)' = {v} /\ \A h \in LocalGeneration : h # g => VersionsFrom(h)' = VersionsFrom(h)
    BY <2>3, <2>4 DEF VersionsFrom
  <2>6. Result' = [Result EXCEPT ![g] = n]
    <3> DEFINE R(V) == IF V = {} THEN 0 ELSE (CHOOSE w \in V : TRUE).number
    <3>1. /\ Result = [h \in LocalGeneration |-> R(VersionsFrom(h))]
          /\ Result' = [h \in LocalGeneration |-> R(VersionsFrom(h)')]
      BY DEF Result
    <3>2. R(VersionsFrom(g)') = n
      BY <2>3, <2>5
    <3> HIDE DEF R
    <3>3. \A h \in LocalGeneration : h # g => R(VersionsFrom(h)') = R(VersionsFrom(h))
      BY <2>5
    <3>4. QED
      BY <3>1, <3>2, <3>3
  <2>7. \A h \in LocalGeneration : Result[h] < n
    <3> SUFFICES ASSUME NEW h \in LocalGeneration PROVE Result[h] < n
      OBVIOUS
    <3>1. CASE VersionsFrom(h) = {}
      BY <2>2, <2>3, <3>1, LocalResultOf
    <3>2. CASE VersionsFrom(h) # {}
      <4>1. PICK w \in versions : VersionsFrom(h) = {w}
        BY <3>2 DEF LocalInv, ResultsAreOne
      <4>2. w.number \in 1..Cardinality(versions) /\ Result[h] = w.number
        BY <4>1, LocalResultOf DEF LocalInv, NumbersAreDense
      <4>3. QED
        BY <2>2, <2>3, <4>2
    <3>3. QED
      BY <3>1, <3>2
  <2>8. PICK r : r = Settled(gens[g], "succeeded")
    OBVIOUS
  <2>9. /\ r.status = "succeeded" /\ r.after = gens[g].after /\ r.operation = gens[g].operation
        /\ gens'[g] = r /\ \A h \in LocalGeneration : h # g => gens'[h] = gens[h]
    BY <1>7, <2>8, WorkGoesOn DEF Settled, GenRow, Complete, Change, LocalInv, LocalTypes
  <2>10. /\ Contract!Become(g, "succeeded")
         /\ [h \in LocalGeneration |-> gens'[h].after] = [h \in LocalGeneration |-> gens[h].after]
         /\ [h \in LocalGeneration |-> gens'[h].operation] = [h \in LocalGeneration |-> gens[h].operation]
    BY <2>9 DEF Contract!Become
  <2>11. Contract!MayRun(g) /\ Result[g] = 0
    BY <2>3, <2>4, LocalMayRun, LocalResultOf DEF LocalInv, Follows
  <2>12. Contract!Finish(g)
    BY <2>3, <2>6, <2>7, <2>10, <2>11 DEF Contract!Finish
  <2>13. QED
    BY <2>12 DEF LocalContractStep, Contract!Next
<1>8. QED
  BY <1>1, <1>2, <1>3, <1>4, <1>5, <1>6, <1>7

\* Steps that touch neither a generation nor a result of one are none of the contract's.
LEMMA OtherStepsKeepContract ==
    ASSUME LocalInv, gens' = gens,
           \A h \in LocalGeneration : VersionsFrom(h)' = VersionsFrom(h)
    PROVE  LocalContractStep
BY LocalResultKept DEF LocalContractStep, Contract!vars

LEMMA RowStepsKeepGenerations ==
    ASSUME RowStep \/ PublishStep \/ SourceStep PROVE OnlyRows
<1>1. CASE RowStep
  BY <1>1 DEF RowStep, AppendEvent, AddMessage, AddAttachment, AddGeneratedArtifact, CreateAttribution,
     SaveCheckpoint, ClearCheckpoint, AttachSkills, CreateToolCall, SettleToolCall, CreateEvaluation,
     CreateVisual, CreateFeedback, CreateLease, CloseLease, CreatePreview, RetargetPreview,
     MarkPreviewReady, FailPreview, ClosePreview, Insert, Mark, Replace
<1>2. CASE PublishStep
  BY <1>2 DEF PublishStep, BeginPush, FailPush, CompletePush, BeginDeployment, FailDeployment,
     CreateDeploymentArtifact, CompleteDeployment, ObserveDeployment, CreateWebhook, ReplaceSecret,
     DeleteWebhook, AdvanceCursor, UpdateWebhook, DeliveryLeaseExpires, Redrive, ClaimDelivery,
     CompleteDelivery, FailDelivery, Insert, Mark, Replace
<1>3. CASE SourceStep
  BY <1>3 DEF SourceStep, CreateSource, ArchiveSource, ReplaceChatSources, UpdateSource, CreateSession,
     ConsumeSession, UpsertConnection, UpdateConnection, Insert, Mark, Replace
<1>4. QED
  BY <1>1, <1>2, <1>3

LEMMA LocalStepKeepsContract ==
    ASSUME LocalInv, [LocalNext]_localVars, area = "work"
    PROVE  LocalContractStep
<1>1. CASE UNCHANGED localVars \/ RowStep \/ PublishStep \/ SourceStep
           \/ DeleteChat \/ RestoreChat \/ RetentionEnds
  <2>1. gens' = gens /\ versions' = versions
    BY <1>1, RowStepsKeepGenerations DEF localVars, OnlyRows, DeleteChat, RestoreChat, RetentionEnds
  <2>2. QED
    BY <2>1, OtherStepsKeepContract DEF VersionsFrom
<1>2. CASE CreateSourceVersion \/ RestoreVersion
  <2>1. gens' = gens /\ \A h \in LocalGeneration : VersionsFrom(h)' = VersionsFrom(h)
    BY <1>2, EditedInv DEF CreateSourceVersion, RestoreVersion
  <2>2. QED
    BY <2>1, OtherStepsKeepContract
<1>3. ~PurgeChat
  BY DEF LocalInv, PurgedIsQuiet, PurgeChat
<1>4. QED
  BY <1>1, <1>2, <1>3, WorkKeepsContract DEF LocalNext, ChatStep

\* The generations of the maps keep the contract of the durable ones, for any number of
\* them: a step of MemoryRepository is one step of GenerationContract or none.
THEOREM LocalImplementsContract == LocalSpec => LocalKeepsContract
<1>1. LocalInv /\ [LocalNext]_localVars => [area = "work" => Contract!Next]_(Contract!vars)
  BY LocalStepKeepsContract DEF LocalContractStep
<1>2. QED
  BY <1>1, LocalInvAlways, PTL DEF LocalSpec, LocalKeepsContract

----------------------------------------------------------------------------
(* SQLite: the processes that share a file implement one repository *)

\* What a call in hand knows: it has the write lock, its delegate came from the committed
\* snapshot, and what it is about to commit is one mutation of that.
SqInHand(p) ==
    /\ revision[p] <= stored.revision
    /\ at[p] # "idle" => writer = p
    /\ at[p] \in {"loaded", "applied", "written"} => revision[p] = stored.revision
    /\ at[p] \in {"applied", "written"} => <<stored.value, delegate[p]>> \in Mutation
    /\ at[p] = "written" =>
         draft = [revision |-> stored.revision + 1, value |-> delegate[p]]

SqInv == TypeOK /\ CacheIsCurrent /\ \A p \in SqProcess : SqInHand(p)

LEMMA SqInitInv == SqInit => SqInv
BY SqAssumption DEF SqInit, SqInv, TypeOK, CacheIsCurrent, SqInHand, Snapshot, Stage, Unknown

\* Steps of one process that leave the row, the lock and the other processes alone.
LEMMA SqLoadInv ==
    ASSUME SqInv, NEW p \in SqProcess, at[p] \in {"idle", "begun"}, LoadLatest(p),
           UNCHANGED <<stored, writer, draft>>,
           \/ UNCHANGED at
           \/ at[p] = "begun" /\ at' = [at EXCEPT ![p] = "loaded"]
    PROVE  SqInv'
<1>1. TypeOK'
  BY DEF SqInv, TypeOK, LoadLatest, Snapshot, Stage
<1>2. /\ revision'[p] = stored.revision /\ delegate'[p] = stored.value
      /\ \A q \in SqProcess \ {p} :
           revision'[q] = revision[q] /\ delegate'[q] = delegate[q] /\ at'[q] = at[q]
  <2>1. CASE revision[p] = stored.revision
    BY <2>1 DEF SqInv, TypeOK, LoadLatest, CacheIsCurrent
  <2>2. CASE revision[p] # stored.revision
    BY <2>2 DEF SqInv, TypeOK, LoadLatest
  <2>3. QED
    BY <2>1, <2>2
<1>3. CacheIsCurrent'
  BY <1>2 DEF SqInv, CacheIsCurrent
<1>4. \A q \in SqProcess : SqInHand(q)'
  <2> SUFFICES ASSUME NEW q \in SqProcess PROVE SqInHand(q)'
    OBVIOUS
  <2>1. CASE q = p
    <3>1. /\ at'[p] \in {"idle", "begun", "loaded"}
          /\ at'[p] # "idle" => at[p] = "begun"
      BY DEF SqInv, TypeOK
    <3>2. SqInHand(p) /\ stored' = stored /\ writer' = writer /\ stored.revision \in Nat
      BY DEF SqInv, TypeOK, Snapshot
    <3>3. QED
      BY <2>1, <1>2, <3>1, <3>2 DEF SqInHand
  <2>2. CASE q # p
    BY <2>2, <1>2 DEF SqInv, SqInHand
  <2>3. QED
    BY <2>1, <2>2
<1>5. QED
  BY <1>1, <1>3, <1>4 DEF SqInv

\* A commit moves the revision past every other delegate's.
LEMMA SqCommitInv ==
    ASSUME SqInv, NEW p \in SqProcess, Commit(p)
    PROVE  SqInv' /\ Store!Next
<1>1. /\ SqInHand(p) /\ at[p] = "written" /\ stored' = draft /\ writer' = NoProcess
      /\ stored.revision \in Nat /\ stored.value \in Value /\ delegate[p] \in Value
      /\ draft = [revision |-> stored.revision + 1, value |-> delegate[p]]
      /\ UNCHANGED <<draft, delegate>>
  BY DEF SqInv, SqInHand, Commit, TypeOK, Snapshot
<1>2. /\ stored'.revision = stored.revision + 1 /\ stored'.value = delegate[p]
      /\ <<stored.value, stored'.value>> \in Mutation
  BY <1>1 DEF SqInHand
<1>3. TypeOK'
  BY <1>1 DEF SqInv, TypeOK, Commit, Goto, Snapshot, Stage
<1>4. \A q \in SqProcess \ {p} :
        /\ revision'[q] = revision[q] /\ at'[q] = at[q] /\ at[q] = "idle"
        /\ revision[q] <= stored.revision /\ revision[q] \in Nat \cup {Unknown}
  BY <1>1 DEF SqInv, SqInHand, TypeOK, Commit, Goto
<1>5. /\ revision'[p] = stored'.revision /\ delegate'[p] = stored'.value /\ at'[p] = "idle"
  BY <1>1, <1>2 DEF SqInv, TypeOK, Commit, Goto
<1>6. CacheIsCurrent'
  <2> SUFFICES ASSUME NEW q \in SqProcess, revision'[q] = stored'.revision
               PROVE  delegate'[q] = stored'.value
    BY DEF CacheIsCurrent
  <2>1. CASE q = p
    BY <2>1, <1>5
  <2>2. CASE q # p
    BY <2>2, <1>1, <1>2, <1>4 DEF Unknown
  <2>3. QED
    BY <2>1, <2>2
<1>7. \A q \in SqProcess : SqInHand(q)'
  <2> SUFFICES ASSUME NEW q \in SqProcess PROVE SqInHand(q)'
    OBVIOUS
  <2>1. revision'[q] <= stored'.revision /\ at'[q] = "idle"
    <3>1. CASE q = p
      BY <3>1, <1>1, <1>2, <1>5
    <3>2. CASE q # p
      BY <3>2, <1>1, <1>2, <1>4 DEF Unknown
    <3>3. QED
      BY <3>1, <3>2
  <2>2. QED
    BY <2>1 DEF SqInHand
<1>8. Store!Next
  BY <1>1, <1>2 DEF Store!Next
<1>9. QED
  BY <1>3, <1>6, <1>7, <1>8 DEF SqInv

\* Every step keeps the invariant, and changes the store by one mutation or not at all.
LEMMA SqStepInv == SqInv /\ [SqNext]_sqVars => SqInv' /\ (Store!Next \/ stored'.value = stored.value)
<1> SUFFICES ASSUME SqInv, [SqNext]_sqVars
             PROVE  SqInv' /\ (Store!Next \/ stored' = stored)
  OBVIOUS
<1>1. ASSUME UNCHANGED sqVars PROVE SqInv' /\ stored' = stored
  BY <1>1 DEF SqInv, sqVars, TypeOK, CacheIsCurrent, SqInHand
<1>2. ASSUME NEW p \in SqProcess, Read(p) PROVE SqInv' /\ stored' = stored
  BY <1>2, SqLoadInv DEF Read
<1>3. ASSUME NEW p \in SqProcess, Load(p) PROVE SqInv' /\ stored' = stored
  BY <1>3, SqLoadInv DEF Load, Goto
<1>4. ASSUME NEW p \in SqProcess, Commit(p) PROVE SqInv' /\ Store!Next
  BY <1>4, SqCommitInv
<1>5. ASSUME NEW p \in SqProcess,
             Begin(p) \/ Apply(p) \/ Throw(p) \/ Write(p) \/ Interrupt(p) \/ Rollback(p) \/ Reopen(p)
      PROVE  SqInv' /\ stored' = stored
  <2>1. stored' = stored /\ TypeOK'
    <3>1. CASE Begin(p)
      BY <3>1 DEF SqInv, TypeOK, Begin, Goto, Stage
    <3>2. CASE Apply(p) \/ Throw(p)
      BY <3>2 DEF SqInv, TypeOK, Apply, Throw, Goto, Stage
    <3>3. CASE Write(p)
      <4>1. SqInHand(p) /\ stored.revision \in Nat /\ delegate[p] \in Value /\ at[p] = "applied"
        BY <3>3 DEF SqInv, TypeOK, Write, Snapshot
      <4>2. draft' \in Snapshot
        BY <3>3, <4>1 DEF SqInHand, Write, Snapshot
      <4>3. QED
        BY <3>3, <4>2 DEF SqInv, TypeOK, Write, Goto, Stage
    <3>4. CASE Interrupt(p)
      BY <3>4 DEF SqInv, TypeOK, Interrupt, Goto, Stage
    <3>5. CASE Rollback(p) \/ Reopen(p)
      BY <3>5, SqAssumption DEF SqInv, TypeOK, Rollback, Reopen, Forget, Goto, Stage
    <3>6. QED
      BY <1>5, <3>1, <3>2, <3>3, <3>4, <3>5
  <2>2. \A q \in SqProcess \ {p} :
          /\ delegate'[q] = delegate[q] /\ revision'[q] = revision[q] /\ at'[q] = at[q]
          /\ at[q] # "idle" => writer # NoProcess /\ writer # p /\ writer' = writer /\ draft' = draft
    BY <1>5, SqAssumption DEF SqInv, TypeOK, SqInHand, Begin, Apply, Throw, Write, Interrupt,
                Rollback, Reopen, Forget, Goto
  <2>3. \A q \in SqProcess \ {p} : SqInHand(q)'
    BY <2>1, <2>2 DEF SqInv, SqInHand
  <2>4. SqInHand(p)' /\ (at'[p] \in {"idle", "begun", "loaded"} /\ revision'[p] = stored'.revision
                         => delegate'[p] = stored'.value)
    <3>1. CASE Begin(p)
      BY <3>1, <2>1 DEF SqInv, TypeOK, CacheIsCurrent, SqInHand, Begin, Goto
    <3>2. CASE Apply(p)
      BY <3>2, <2>1 DEF SqInv, TypeOK, CacheIsCurrent, SqInHand, Apply, Goto
    <3>3. CASE Throw(p)
      BY <3>3, <2>1 DEF SqInv, TypeOK, SqInHand, Throw, Goto
    <3>4. CASE Write(p)
      BY <3>4, <2>1 DEF SqInv, TypeOK, SqInHand, Write, Goto
    <3>5. CASE Interrupt(p)
      BY <3>5, <2>1 DEF SqInv, TypeOK, SqInHand, Interrupt, Goto
    <3>6. CASE Rollback(p) \/ Reopen(p)
      BY <3>6, <2>1 DEF SqInv, TypeOK, SqInHand, Rollback, Reopen, Forget, Goto, Unknown, Snapshot
    <3>7. QED
      BY <1>5, <3>1, <3>2, <3>3, <3>4, <3>5, <3>6
  <2>5. CacheIsCurrent'
    BY <2>1, <2>2, <2>4 DEF SqInv, CacheIsCurrent
  <2>6. QED
    BY <2>1, <2>3, <2>4, <2>5 DEF SqInv
<1>6. QED
  BY <1>1, <1>2, <1>3, <1>4, <1>5 DEF SqNext

\* A trusted delegate is the committed repository.
THEOREM TrustedDelegatesAreCurrent == SqSpec => []CacheIsCurrent
<1>1. SqInv => CacheIsCurrent
  BY DEF SqInv
<1>2. QED
  BY <1>1, SqInitInv, SqStepInv, PTL DEF SqSpec

\* All processes together are one repository: the adapter implements AtomicStore.
THEOREM SnapshotsImplementOneStore == SqSpec => ActsAsOneStore
<1>1. SqInit => Store!Init
  BY DEF SqInit, Store!Init
<1>2. SqInv /\ [SqNext]_sqVars => [Store!Next]_(stored.value)
  BY SqStepInv
<1>3. QED
  BY <1>1, <1>2, SqInitInv, SqStepInv, PTL DEF SqSpec, ActsAsOneStore, Store!Spec

=============================================================================
