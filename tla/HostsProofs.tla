---------------------------- MODULE HostsProofs -----------------------------
(***************************************************************************)
(* Theorems about the hosts of others that Viby drives, one component after *)
(* the other, for any number of calls.                                     *)
(***************************************************************************)
EXTENDS RepositoryPush, Deployments, Connections, Sandboxes, FiniteSetTheorems, TLAPS

(* Repository pushes, merges and imports *)

FileTree  == [Path -> {NoFile, "one", "other", "old"}]
CommitRow == [parents: SUBSET Nat, tree: FileTree]
PushPlace == {"ensure", "create", "target", "base", "initialize", "commit", "reread", "pull",
              "pushed", "conflict", "fail"}
WorkRow   == [pc: PushPlace, input: PushInput, head: Nat, commit: Nat, creates: BOOLEAN]
MergeRow  == [pc: {"merging"}, expected: {0, 1}, head: Nat]
ImportRow == [pc: {"importing"}, branch: Branch, commit: Nat]
FilesRow  == [pc: {"imported"}, commit: Nat, files: FileTree]
CallRow   == {Idle, Done} \cup WorkRow \cup MergeRow \cup ImportRow \cup FilesRow
KeptRow   == [status: {"pending", "pushed", "conflict", "failed"}, branch: Branch, pull: BOOLEAN,
              commit: Nat]

PushTypes ==
    /\ provider \in Provider
    /\ commits \in Seq(CommitRow)
    /\ \A n \in 1..Len(commits) : commits[n].parents \subseteq 1..Len(commits)
    /\ heads \in [Branch -> 0..Len(commits)]
    /\ pushRow \in [PushKey -> {NoRow} \cup KeptRow]
    /\ pushCall \in [PushCall -> CallRow]
    /\ merged \subseteq [expected: {0, 1}, head: Nat]

\* The head that a commit is built on: on GitLab it is the branch's, or the first commit.
BuildsOn(r) ==
    /\ r.input.expected \in {0, r.head} /\ r.head \in 0..Len(commits)
    /\ provider = "gitlab" => r.head = 0 \/ r.head \in History(heads[r.input.branch])

\* What a call that reports a commit knows of it.
Reports(r) ==
    /\ r.commit \in 1..Len(commits)
    /\ \/ r.commit \in History(heads[r.input.branch])
       \/ provider = "bitbucket" /\ commits[r.commit].tree = Snapshot
    /\ provider = "github" => commits[r.commit].tree = Snapshot

\* What a call that reports a conflict knows: another head than the one it expected or built on.
Conflicts(r) ==
    /\ r.commit \in 1..Len(commits)
    /\ \E b \in Branch : r.commit \in History(heads[b])
    /\ r.commit # (IF r.input.expected # 0 THEN r.input.expected ELSE r.head)

\* A call works on the row of its key, and on what its last request told it.
WorkHolds(r) ==
    /\ pushRow[r.input.key] # NoRow /\ pushRow[r.input.key].branch = r.input.branch
    /\ r.pc = "base" => r.input.from = "main"
    /\ r.pc \in {"commit", "reread"} => BuildsOn(r)
    /\ r.pc \in {"pull", "pushed"} => Reports(r)
    /\ r.pc = "conflict" => Conflicts(r)

PushHolds(r) ==
    /\ r.pc \in PushPlace => WorkHolds(r)
    /\ r.pc = "merging" => r.expected \in {0, r.head}
    /\ r.pc = "importing" => r.commit \in 1..Len(commits)
    /\ r.pc = "imported" => r.commit \in 1..Len(commits) /\ r.files = commits[r.commit].tree

PushInv ==
    /\ PushTypes
    /\ \A c \in PushCall : PushHolds(pushCall[c])
    /\ \A k \in PushKey : pushRow[k] # NoRow => RowIsTrue(pushRow[k])
    /\ provider # "bitbucket" => \A m \in merged : m.expected \in {0, m.head}

\* The repository only grows: commits stay, and a branch moves to a commit that has its old head.
PushGrows ==
    /\ Len(commits) <= Len(commits')
    /\ \A n \in 1..Len(commits) : commits'[n] = commits[n]
    /\ \A b \in Branch : heads[b] # 0 => heads[b] \in History(heads[b])'

LEMMA HistoryOfNothing == ASSUME PushTypes, NEW n \in History(0) PROVE FALSE
<1>1. {} \in SUBSET (1..Len(commits)) /\ WithParents({})
  BY DEF WithParents
<1>2. QED
  BY <1>1 DEF History

LEMMA HistoryInRange == ASSUME NEW h, NEW n \in History(h) PROVE n \in 1..Len(commits)
BY DEF History

LEMMA HistoryHasHead == ASSUME PushTypes, NEW h \in 1..Len(commits) PROVE h \in History(h)
<1>1. h # 0
  BY DEF PushTypes
<1>2. QED
  BY <1>1 DEF History

\* What a head reaches stays reached from every commit that reaches that head.
LEMMA HistoryGrows ==
    ASSUME PushTypes, Len(commits) <= Len(commits'), Len(commits') \in Nat,
           \A n \in 1..Len(commits) : commits'[n] = commits[n],
           NEW h \in 1..Len(commits), NEW n \in History(h), NEW g, h \in History(g)'
    PROVE  n \in History(g)'
<1>1. n \in 1..Len(commits) /\ Len(commits) \in Nat /\ n \in 1..Len(commits')
  BY DEF History, PushTypes
<1>2. ASSUME NEW S \in SUBSET (1..Len(commits')), g \in S \cup {0},
             \A m \in S : commits'[m].parents \subseteq S
      PROVE  n \in S
  <2>1. h \in S
    BY <1>2 DEF History, WithParents
  <2>2. PICK T : T = S \cap (1..Len(commits))
    OBVIOUS
  <2>3. T \in SUBSET (1..Len(commits)) /\ h \in T \cup {0}
    BY <2>1, <2>2
  <2>4. WithParents(T)
    <3>1. ASSUME NEW m \in T PROVE commits[m].parents \subseteq T
      BY <1>2, <2>2, <3>1 DEF PushTypes
    <3>2. QED
      BY <3>1 DEF WithParents
  <2>5. n \in T
    BY <2>3, <2>4 DEF History
  <2>6. QED
    BY <2>2, <2>5
<1>3. QED
  BY <1>1, <1>2 DEF History, WithParents

\* A head of a branch keeps everything it had.
LEMMA HeadsKeepHistory ==
    ASSUME PushTypes, PushTypes', PushGrows, NEW b \in Branch, NEW n \in History(heads[b])
    PROVE  n \in History(heads[b])'
<1>1. heads[b] # 0
  BY HistoryOfNothing
<1>2. PICK h \in 1..Len(commits) : h = heads[b]
  BY <1>1 DEF PushTypes
<1>3. PICK g : g = heads'[b]
  OBVIOUS
<1>4. h \in History(g)' /\ n \in History(h)
  BY <1>1, <1>2, <1>3 DEF PushGrows
<1>5. Len(commits') \in Nat
  BY DEF PushTypes
<1>6. n \in History(g)'
  BY <1>2, <1>4, <1>5, HistoryGrows DEF PushGrows
<1>7. QED
  BY <1>3, <1>6

LEMMA SameGrows == ASSUME PushTypes, UNCHANGED <<commits, heads>> PROVE PushGrows
<1>1. ASSUME NEW b \in Branch, heads[b] # 0 PROVE heads[b] \in History(heads[b])'
  <2>1. PICK h \in 1..Len(commits) : h = heads[b]
    BY <1>1 DEF PushTypes
  <2>2. h \in History(h)
    BY HistoryHasHead
  <2>3. QED
    BY <2>1, <2>2 DEF History, WithParents
<1>2. QED
  BY <1>1 DEF PushGrows, PushTypes

\* A commit on a branch with the branch's head, if it has one, among its parents.
LEMMA CommitGrows ==
    ASSUME PushTypes, NEW branch \in Branch, NEW parents \in SUBSET (0..Len(commits)),
           NEW tree \in FileTree, AddCommit(branch, parents, tree),
           heads[branch] = 0 \/ heads[branch] \in parents
    PROVE  /\ PushGrows /\ commits' \in Seq(CommitRow) /\ heads' \in [Branch -> 0..Len(commits')]
           /\ \A n \in 1..Len(commits') : commits'[n].parents \subseteq 1..Len(commits')
           /\ Len(commits) + 1 \in 1..Len(commits') /\ commits'[Len(commits) + 1].tree = tree
           /\ heads'[branch] = Len(commits) + 1
           /\ Len(commits) + 1 \in History(heads[branch])'
<1>1. PICK r : r = [parents |-> parents \ {0}, tree |-> tree]
  OBVIOUS
<1>2. r \in CommitRow /\ r.parents = parents \ {0} /\ r.tree = tree
  BY <1>1 DEF CommitRow
<1>3. commits' = Append(commits, r) /\ heads' = [heads EXCEPT ![branch] = Len(commits) + 1]
  BY <1>1 DEF AddCommit
<1>4. commits \in Seq(CommitRow) /\ Len(commits) \in Nat
  BY DEF PushTypes
<1>5. /\ commits' \in Seq(CommitRow) /\ Len(commits') = Len(commits) + 1
      /\ commits'[Len(commits) + 1] = r /\ \A n \in 1..Len(commits) : commits'[n] = commits[n]
  BY <1>2, <1>3, <1>4
<1>6. /\ heads' \in [Branch -> 0..Len(commits')] /\ heads'[branch] = Len(commits) + 1
      /\ \A b \in Branch : b # branch => heads'[b] = heads[b]
  BY <1>3, <1>4, <1>5 DEF PushTypes
<1>7. ASSUME NEW n \in 1..Len(commits') PROVE commits'[n].parents \subseteq 1..Len(commits')
  <2>1. CASE n \in 1..Len(commits)
    BY <1>4, <1>5, <2>1 DEF PushTypes
  <2>2. CASE n = Len(commits) + 1
    <3>1. \A m \in parents : m \in 0..Len(commits)
      OBVIOUS
    <3>2. parents \ {0} \subseteq 1..Len(commits')
      BY <1>4, <1>5, <3>1
    <3>3. QED
      BY <1>2, <1>5, <2>2, <3>2
  <2>3. QED
    BY <1>4, <1>5, <2>1, <2>2
<1>8. ASSUME NEW h \in 1..Len(commits') PROVE h \in History(h)'
  BY <1>4, <1>5 DEF History
<1>9. ASSUME NEW b \in Branch, heads[b] # 0 PROVE heads[b] \in History(heads[b])'
  <2>1. heads[b] \in 1..Len(commits')
    BY <1>4, <1>5, <1>9 DEF PushTypes
  <2>2. CASE b # branch
    BY <1>6, <1>8, <2>1, <2>2
  <2>3. CASE b = branch
    <3>1. heads[b] \in commits'[Len(commits) + 1].parents
      BY <1>2, <1>5, <1>9, <2>3
    <3>2. ASSUME NEW S \in SUBSET (1..Len(commits')), Len(commits) + 1 \in S \cup {0},
                 \A m \in S : commits'[m].parents \subseteq S
          PROVE  heads[b] \in S
      BY <1>4, <3>1, <3>2
    <3>3. QED
      BY <1>6, <2>1, <2>3, <3>2 DEF History, WithParents
  <2>4. QED
    BY <2>2, <2>3
<1>10. PushGrows
  BY <1>4, <1>5, <1>9 DEF PushGrows
<1>11. Len(commits) + 1 \in 1..Len(commits') /\ commits'[Len(commits) + 1].tree = tree
  BY <1>2, <1>4, <1>5
<1>12. Len(commits) + 1 \in History(heads[branch])'
  BY <1>6, <1>8, <1>11
<1>13. QED
  BY <1>5, <1>6, <1>7, <1>10, <1>11, <1>12

\* What a row or a call says of the repository stays true as the repository grows.
LEMMA RowStaysTrue ==
    ASSUME PushTypes, PushTypes', PushGrows, provider' = provider, NEW row \in KeptRow, RowIsTrue(row)
    PROVE  RowIsTrue(row)'
<1>1. row.branch \in Branch /\ Len(commits) \in Nat /\ Len(commits') \in Nat
  BY DEF KeptRow, PushTypes
<1>2. \A n \in 1..Len(commits) : n \in 1..Len(commits') /\ commits'[n] = commits[n]
  BY <1>1 DEF PushGrows
<1>3. row.status = "conflict" => \E b \in Branch : row.commit \in History(heads[b])'
  BY HeadsKeepHistory DEF RowIsTrue
<1>4. row.commit \in History(heads[row.branch]) => row.commit \in History(heads[row.branch])'
  BY <1>1, HeadsKeepHistory
<1>5. QED
  BY <1>2, <1>3, <1>4 DEF RowIsTrue

LEMMA CallStaysTrue ==
    ASSUME PushTypes, PushTypes', PushGrows, provider' = provider, NEW r \in CallRow, PushHolds(r),
           \A k \in PushKey : pushRow[k] # NoRow =>
             pushRow'[k] # NoRow /\ pushRow'[k].branch = pushRow[k].branch
    PROVE  PushHolds(r)'
<1>1. Len(commits) \in Nat /\ Len(commits') \in Nat
  BY DEF PushTypes
<1>2. \A n \in 1..Len(commits) : n \in 1..Len(commits') /\ commits'[n] = commits[n]
  BY <1>1 DEF PushGrows
<1>3. ASSUME r.pc \in PushPlace PROVE WorkHolds(r)'
  <2>1. r \in WorkRow /\ WorkHolds(r)
    BY <1>3 DEF PushHolds, CallRow, Idle, Done, MergeRow, ImportRow, FilesRow, PushPlace
  <2>2. r.input.branch \in Branch /\ r.input.key \in PushKey
    BY <2>1 DEF WorkRow, PushInput
  <2>3. \A n : n \in History(heads[r.input.branch]) => n \in History(heads[r.input.branch])'
    BY <2>2, HeadsKeepHistory
  <2>4. BuildsOn(r) => BuildsOn(r)'
    <3>1. 0..Len(commits) \subseteq 0..Len(commits')
      BY <1>1 DEF PushGrows
    <3>2. QED
      BY <2>3, <3>1 DEF BuildsOn
  <2>5. Reports(r) => Reports(r)'
    BY <1>2, <2>3 DEF Reports
  <2>6. Conflicts(r) => Conflicts(r)'
    BY <1>2, HeadsKeepHistory DEF Conflicts
  <2>7. QED
    BY <2>1, <2>2, <2>4, <2>5, <2>6 DEF WorkHolds
<1>4. QED
  BY <1>2, <1>3 DEF PushHolds

\* A step of the repository, a row or a call, from what the moved call and the new row know.
LEMMA PushStepInv ==
    ASSUME PushInv, PushTypes', PushGrows, provider' = provider,
           \A k \in PushKey : pushRow[k] # NoRow =>
             pushRow'[k] # NoRow /\ pushRow'[k].branch = pushRow[k].branch,
           \A k \in PushKey : \/ pushRow'[k] \in {pushRow[k], NoRow}
                              \/ RowIsTrue(pushRow[k])',
           \A c \in PushCall : pushCall'[c] = pushCall[c] \/ PushHolds(pushCall[c])',
           provider # "bitbucket" =>
             \A m \in merged' : m \in merged \/ m.expected \in {0, m.head}
    PROVE  PushInv' /\ PushGrows
<1>1. PushTypes
  BY DEF PushInv
<1>2. ASSUME NEW c \in PushCall PROVE PushHolds(pushCall[c])'
  <2>1. CASE pushCall'[c] = pushCall[c]
    <3>1. PICK r \in CallRow : r = pushCall[c]
      BY <1>1 DEF PushTypes
    <3>2. PushHolds(r)
      BY <3>1 DEF PushInv
    <3>3. PushHolds(r)'
      BY <1>1, <3>2, CallStaysTrue
    <3>4. QED
      BY <2>1, <3>1, <3>3
  <2>2. QED
    BY <2>1
<1>3. ASSUME NEW k \in PushKey, pushRow'[k] # NoRow PROVE RowIsTrue(pushRow[k])'
  <2>1. CASE pushRow'[k] = pushRow[k]
    <3>1. PICK row \in KeptRow : row = pushRow[k]
      BY <1>1, <1>3, <2>1 DEF PushTypes
    <3>2. RowIsTrue(row)
      BY <1>3, <2>1, <3>1 DEF PushInv
    <3>3. RowIsTrue(row)'
      BY <1>1, <3>2, RowStaysTrue
    <3>4. QED
      BY <2>1, <3>1, <3>3
  <2>2. QED
    BY <1>3, <2>1
<1>4. provider' # "bitbucket" => \A m \in merged' : m.expected \in {0, m.head}
  BY DEF PushInv
<1>5. QED
  BY <1>2, <1>3, <1>4 DEF PushInv

LEMMA PushSets ==
    ASSUME PushTypes, NEW c \in PushCall, NEW r \in CallRow, Set(c, r)
    PROVE  /\ pushCall' \in [PushCall -> CallRow] /\ pushCall'[c] = r
           /\ \A d \in PushCall : d # c => pushCall'[d] = pushCall[d]
BY DEF PushTypes, Set

\* A step of one call at the provider.
LEMMA PushHostInv ==
    ASSUME PushInv, NEW c \in PushCall, NEW r \in CallRow, Set(c, r),
           UNCHANGED <<provider, pushRow, merged>>, PushGrows,
           commits' \in Seq(CommitRow), heads' \in [Branch -> 0..Len(commits')],
           \A n \in 1..Len(commits') : commits'[n].parents \subseteq 1..Len(commits'),
           PushHolds(r)'
    PROVE  PushInv' /\ PushGrows
<1>1. PushTypes
  BY DEF PushInv
<1>2. /\ pushCall' \in [PushCall -> CallRow] /\ pushCall'[c] = r
      /\ \A d \in PushCall : d # c => pushCall'[d] = pushCall[d]
  BY <1>1, PushSets
<1>3. PushTypes'
  BY <1>1, <1>2 DEF PushTypes
<1>4. \A d \in PushCall : pushCall'[d] = pushCall[d] \/ PushHolds(pushCall[d])'
  BY <1>2
<1>5. QED
  BY <1>3, <1>4, PushStepInv

\* A step of one call in the process.
LEMMA PushCallInv ==
    ASSUME PushInv, NEW c \in PushCall, NEW r \in CallRow, Set(c, r), PushHolds(r),
           UNCHANGED <<provider, commits, heads, pushRow, merged>>
    PROVE  PushInv' /\ PushGrows
<1>1. PushTypes /\ PushGrows
  BY SameGrows DEF PushInv
<1>2. PushTypes'
  BY <1>1, PushSets DEF PushTypes
<1>3. PushHolds(r)'
  BY <1>1, <1>2, CallStaysTrue
<1>4. QED
  BY <1>1, <1>2, <1>3, PushHostInv DEF PushTypes

LEMMA WorkAt ==
    ASSUME PushInv, NEW c \in PushCall, pushCall[c].pc \in PushPlace
    PROVE  /\ pushCall[c] \in WorkRow /\ WorkHolds(pushCall[c]) /\ In(c) = pushCall[c].input
           /\ In(c) \in PushInput /\ In(c).branch \in Branch /\ In(c).key \in PushKey
           /\ In(c).expected \in {0, 1} /\ In(c).pull \in BOOLEAN
<1>1. pushCall[c] \in CallRow
  BY DEF PushInv, PushTypes
<1>2. pushCall[c] \in WorkRow
  BY <1>1 DEF CallRow, Idle, Done, MergeRow, ImportRow, FilesRow, PushPlace
<1>3. WorkHolds(pushCall[c])
  BY DEF PushInv, PushHolds
<1>4. In(c) = pushCall[c].input /\ In(c) \in PushInput
  BY <1>2 DEF In, WorkRow
<1>5. QED
  BY <1>2, <1>3, <1>4 DEF PushInput

LEMMA DoneHolds == Done \in CallRow /\ PushHolds(Done) /\ PushHolds(Done)'
BY DEF Done, CallRow, PushHolds, PushPlace

\* A call that goes on with what it has.
LEMMA PushGoes ==
    ASSUME PushInv, NEW c \in PushCall, pushCall[c].pc \in PushPlace, NEW x \in PushPlace, Go(c, x),
           \/ x \notin {"base", "commit", "reread", "pull", "pushed", "conflict"}
           \/ x = "base" /\ In(c).from = "main"
           \/ x = "reread" /\ pushCall[c].pc = "commit"
           \/ x = "pushed" /\ pushCall[c].pc = "pull"
    PROVE  \E r \in WorkRow : Set(c, r) /\ PushHolds(r)
<1>1. pushCall[c] \in WorkRow /\ WorkHolds(pushCall[c])
  BY WorkAt
<1>2. PICK r : r = [pushCall[c] EXCEPT !.pc = x]
  OBVIOUS
<1>3. /\ r \in WorkRow /\ r.pc = x /\ r.input = pushCall[c].input /\ r.head = pushCall[c].head
      /\ r.commit = pushCall[c].commit
  BY <1>1, <1>2 DEF WorkRow
<1>4. Set(c, r)
  BY <1>2 DEF Go
<1>5. WorkHolds(r)
  BY <1>1, <1>3 DEF WorkHolds, BuildsOn, Reports, In
<1>6. PushHolds(r)
  BY <1>3, <1>5 DEF PushHolds, PushPlace
<1>7. QED
  BY <1>3, <1>4, <1>6

\* A call that only goes on, or ends.
LEMMA PushGoInv ==
    ASSUME PushInv, NEW c \in PushCall, pushCall[c].pc \in PushPlace, NEW x \in PushPlace, Go(c, x),
           \/ x \notin {"base", "commit", "reread", "pull", "pushed", "conflict"}
           \/ x = "base" /\ In(c).from = "main"
           \/ x = "reread" /\ pushCall[c].pc = "commit"
           \/ x = "pushed" /\ pushCall[c].pc = "pull",
           UNCHANGED <<provider, commits, heads, pushRow, merged>>
    PROVE  PushInv' /\ PushGrows
<1>1. PICK r \in WorkRow : Set(c, r) /\ PushHolds(r)
  BY PushGoes
<1>2. r \in CallRow
  BY DEF CallRow
<1>3. QED
  BY <1>1, <1>2, PushCallInv

LEMMA PushDoneInv ==
    ASSUME PushInv, NEW c \in PushCall, Set(c, Done),
           UNCHANGED <<provider, commits, heads, pushRow, merged>>
    PROVE  PushInv' /\ PushGrows
BY DoneHolds, PushCallInv

\* The row of the call whose parent commit is known now.
LEMMA TargetRow ==
    ASSUME PushInv, NEW c \in PushCall, pushCall[c].pc \in PushPlace, NEW head \in Nat, Target(c, head)
    PROVE  \E r \in WorkRow :
             /\ Set(c, r) /\ r.input = In(c) /\ r.head = head
             /\ \/ r.pc = "commit" /\ In(c).expected \in {0, head}
                \/ r.pc = "fail"
                \/ /\ r.pc = "conflict" /\ In(c).expected \notin {0, head} /\ r.commit = head
                   /\ head # 0 \/ provider = "github"
<1>1. /\ pushCall[c] \in WorkRow /\ In(c) = pushCall[c].input /\ In(c).expected \in {0, 1}
  BY WorkAt
<1>2. PICK creates \in BOOLEAN :
        creates = (heads[In(c).branch] = 0 /\ ~(At(c, "initialize") /\ In(c).branch = "main"))
  OBVIOUS
<1>3. PICK commit \in Nat : commit = IF In(c).expected \notin {0, head} THEN head ELSE 0
  OBVIOUS
<1>4. PICK x \in {"commit", "fail", "conflict"} :
        /\ x = CASE In(c).expected \in {0, head} -> "commit"
                 [] head = 0 /\ provider # "github" -> "fail"
                 [] OTHER -> "conflict"
        /\ x = "commit" => In(c).expected \in {0, head}
        /\ x = "conflict" => In(c).expected \notin {0, head} /\ (head # 0 \/ provider = "github")
  <2>1. CASE In(c).expected \in {0, head}
    BY <2>1
  <2>2. CASE In(c).expected \notin {0, head} /\ head = 0 /\ provider # "github"
    BY <2>2
  <2>3. CASE In(c).expected \notin {0, head} /\ ~(head = 0 /\ provider # "github")
    BY <2>3
  <2>4. QED
    BY <2>1, <2>2, <2>3
<1>5. PICK r : r = [pushCall[c] EXCEPT !.head = head, !.creates = creates, !.commit = commit, !.pc = x]
  OBVIOUS
<1>6. /\ r \in WorkRow /\ r.pc = x /\ r.input = pushCall[c].input /\ r.head = head
      /\ r.commit = commit
  BY <1>1, <1>5 DEF WorkRow, PushPlace
<1>7. Set(c, r)
  BY <1>2, <1>3, <1>4, <1>5 DEF Target
<1>8. QED
  BY <1>1, <1>3, <1>4, <1>6, <1>7

LEMMA PushTargetInv ==
    ASSUME PushInv, NEW c \in PushCall, pushCall[c].pc \in PushPlace, NEW head \in Nat,
           Target(c, head), UNCHANGED <<provider, pushRow, merged>>, PushGrows,
           commits' \in Seq(CommitRow), heads' \in [Branch -> 0..Len(commits')],
           \A n \in 1..Len(commits') : commits'[n].parents \subseteq 1..Len(commits'),
           head \in 0..Len(commits'), head # 0 \/ provider # "github",
           NEW b \in Branch, head = 0 \/ head \in History(heads[b])',
           provider = "gitlab" => b = In(c).branch
    PROVE  PushInv' /\ PushGrows
<1>1. /\ pushCall[c] \in WorkRow /\ WorkHolds(pushCall[c]) /\ In(c) = pushCall[c].input
      /\ In(c).expected \in {0, 1} /\ In(c).key \in PushKey
  BY WorkAt
<1>2. PICK r \in WorkRow :
        /\ Set(c, r) /\ r.input = In(c) /\ r.head = head
        /\ \/ r.pc = "commit" /\ In(c).expected \in {0, head}
           \/ r.pc = "fail"
           \/ /\ r.pc = "conflict" /\ In(c).expected \notin {0, head} /\ r.commit = head
              /\ head # 0 \/ provider = "github"
  BY TargetRow
<1>3. r \in CallRow
  BY DEF CallRow
<1>4. (pushRow[r.input.key] # NoRow /\ pushRow[r.input.key].branch = r.input.branch)'
  BY <1>1, <1>2 DEF WorkHolds
<1>5. CASE r.pc = "commit" /\ In(c).expected \in {0, head}
  <2>1. BuildsOn(r)'
    BY <1>2, <1>5 DEF BuildsOn
  <2>2. PushHolds(r)'
    BY <1>4, <1>5, <2>1 DEF PushHolds, WorkHolds
  <2>3. QED
    BY <1>2, <1>3, <2>2, PushHostInv
<1>6. CASE r.pc = "fail"
  <2>1. PushHolds(r)'
    BY <1>4, <1>6 DEF PushHolds, WorkHolds
  <2>2. QED
    BY <1>2, <1>3, <2>1, PushHostInv
<1>7. CASE /\ r.pc = "conflict" /\ In(c).expected \notin {0, head} /\ r.commit = head
           /\ head # 0 \/ provider = "github"
  <2>1. head \in 1..Len(commits')
    BY <1>7
  <2>2. Conflicts(r)'
    BY <1>1, <1>2, <1>7, <2>1 DEF Conflicts
  <2>3. PushHolds(r)'
    BY <1>4, <1>7, <2>2 DEF PushHolds, WorkHolds
  <2>4. QED
    BY <1>2, <1>3, <2>3, PushHostInv
<1>8. QED
  BY <1>2, <1>5, <1>6, <1>7

\* The head was read, and the repository is as it was.
LEMMA PushReadsTarget ==
    ASSUME PushInv, NEW c \in PushCall, pushCall[c].pc \in PushPlace, NEW b \in Branch,
           Target(c, heads[b]), UNCHANGED <<provider, commits, heads, pushRow, merged>>,
           heads[b] # 0 \/ provider # "github", provider = "gitlab" => b = In(c).branch
    PROVE  PushInv' /\ PushGrows
<1>1. PushTypes /\ PushGrows
  BY SameGrows DEF PushInv
<1>2. PICK head \in Nat : head = heads[b]
  BY <1>1 DEF PushTypes
<1>3. head = 0 \/ head \in History(heads[b])'
  BY <1>1, <1>2 DEF PushGrows
<1>4. /\ commits' \in Seq(CommitRow) /\ heads' \in [Branch -> 0..Len(commits')]
      /\ \A n \in 1..Len(commits') : commits'[n].parents \subseteq 1..Len(commits')
      /\ head \in 0..Len(commits')
  BY <1>1, <1>2 DEF PushTypes
<1>5. Target(c, head) /\ (head # 0 \/ provider # "github")
  BY <1>2
<1>6. QED
  BY <1>1, <1>3, <1>4, <1>5, PushTargetInv

LEMMA EnsureInv == ASSUME PushInv, NEW c \in PushCall, Ensure(c) PROVE PushInv' /\ PushGrows
<1>1. /\ pushCall[c].pc \in PushPlace /\ {"target", "create", "fail"} \subseteq PushPlace
      /\ UNCHANGED <<provider, commits, heads, pushRow, merged>>
      /\ \E x \in {"target", "create", "fail"} : Go(c, x)
  BY DEF Ensure, At, PushPlace, atHost
<1>2. QED
  BY <1>1, PushGoInv

LEMMA CreateRepositoryInv == ASSUME PushInv, NEW c \in PushCall, CreateRepository(c) PROVE PushInv' /\ PushGrows
<1>1. /\ pushCall[c].pc \in PushPlace /\ {"target", "fail"} \subseteq PushPlace
      /\ UNCHANGED <<provider, commits, heads, pushRow, merged>>
      /\ \E x \in {"target", "fail"} : Go(c, x)
  BY DEF CreateRepository, At, PushPlace
<1>2. QED
  BY <1>1, PushGoInv

LEMMA GitHubTargetInv == ASSUME PushInv, NEW c \in PushCall, GitHubTarget(c) PROVE PushInv' /\ PushGrows
<1>1. /\ pushCall[c].pc \in PushPlace /\ {"base", "initialize", "fail"} \subseteq PushPlace
      /\ UNCHANGED <<provider, commits, heads, pushRow, merged>> /\ provider # "gitlab"
  BY DEF GitHubTarget, At, PushPlace, atHost
<1>2. In(c).branch \in Branch /\ "main" \in Branch
  BY <1>1, WorkAt DEF Branch
<1>3. PICK b \in Branch : b = IF At(c, "base") THEN "main" ELSE In(c).branch
  BY <1>2
<1>4. \/ heads[b] # 0 /\ Target(c, heads[b])
      \/ \E x \in {"base", "initialize", "fail"} : Go(c, x) /\ (x = "base" => In(c).from = "main")
  BY <1>3 DEF GitHubTarget
<1>5. CASE heads[b] # 0 /\ Target(c, heads[b])
  BY <1>1, <1>5, PushReadsTarget
<1>6. CASE \E x \in {"base", "initialize", "fail"} : Go(c, x) /\ (x = "base" => In(c).from = "main")
  BY <1>1, <1>6, PushGoInv
<1>7. QED
  BY <1>4, <1>5, <1>6

LEMMA BitbucketTargetInv == ASSUME PushInv, NEW c \in PushCall, BitbucketTarget(c) PROVE PushInv' /\ PushGrows
<1>1. /\ pushCall[c].pc \in PushPlace /\ {"base", "fail"} \subseteq PushPlace
      /\ UNCHANGED <<provider, commits, heads, pushRow, merged>> /\ provider = "bitbucket"
  BY DEF BitbucketTarget, At, PushPlace, atHost
<1>2. In(c).branch \in Branch /\ In(c).from \in {"main", "none"}
  BY <1>1, WorkAt DEF PushInput
<1>3. CASE Target(c, heads[In(c).branch])
  BY <1>1, <1>2, <1>3, PushReadsTarget
<1>4. CASE heads[In(c).from] # 0 /\ Target(c, heads[In(c).from]) /\ At(c, "base")
  <2>1. In(c).from = "main" /\ "main" \in Branch
    BY <1>1, <1>4, WorkAt DEF WorkHolds, At, Branch
  <2>2. QED
    BY <1>1, <1>4, <2>1, PushReadsTarget
<1>5. CASE \E x \in {"base", "fail"} : Go(c, x) /\ (x = "base" => In(c).from = "main")
  BY <1>1, <1>5, PushGoInv
<1>6. QED
  BY <1>2, <1>3, <1>4, <1>5 DEF BitbucketTarget

LEMMA SnapshotIsTree == Snapshot \in FileTree /\ EmptyTree \in FileTree /\ Snapshot # EmptyTree
<1>1. EmptyTree \in FileTree /\ EmptyTree["page"] = "none"
  BY DEF EmptyTree, FileTree, Path, NoFile
<1>2. Snapshot \in FileTree /\ Snapshot["page"] = "one"
  BY <1>1 DEF Snapshot, FileTree, Path
<1>3. QED
  BY <1>1, <1>2

LEMMA TreeOfIsTree == ASSUME PushTypes, NEW h \in 0..Len(commits) PROVE TreeOf(h) \in FileTree
<1>1. CASE h = 0
  BY <1>1, SnapshotIsTree DEF TreeOf
<1>2. CASE h # 0
  <2>1. commits[h] \in CommitRow
    BY <1>2 DEF PushTypes
  <2>2. QED
    BY <1>2, <2>1 DEF TreeOf, CommitRow
<1>3. QED
  BY <1>1, <1>2

\* The commit was made: it is the head of its branch.
LEMMA PushCommitInv ==
    ASSUME PushInv, NEW c \in PushCall, pushCall[c].pc = "commit",
           NEW parents \in SUBSET (0..Len(commits)), NEW tree \in FileTree,
           AddCommit(In(c).branch, parents, tree),
           heads[In(c).branch] = 0 \/ heads[In(c).branch] \in parents,
           provider = "github" => tree = Snapshot,
           Set(c, [pushCall[c] EXCEPT !.commit = Len(commits) + 1, !.pc = "pull"]),
           UNCHANGED <<provider, pushRow, merged>>
    PROVE  PushInv' /\ PushGrows
<1>1. PushTypes /\ Len(commits) + 1 \in Nat
  BY DEF PushInv, PushTypes
<1>2. /\ pushCall[c] \in WorkRow /\ WorkHolds(pushCall[c]) /\ In(c) = pushCall[c].input
      /\ In(c).branch \in Branch
  BY WorkAt DEF PushPlace
<1>3. PICK b \in Branch : b = In(c).branch
  BY <1>2
<1>4. AddCommit(b, parents, tree) /\ (heads[b] = 0 \/ heads[b] \in parents)
  BY <1>3
<1>5. /\ PushGrows /\ commits' \in Seq(CommitRow) /\ heads' \in [Branch -> 0..Len(commits')]
      /\ \A n \in 1..Len(commits') : commits'[n].parents \subseteq 1..Len(commits')
      /\ Len(commits) + 1 \in 1..Len(commits') /\ commits'[Len(commits) + 1].tree = tree
      /\ Len(commits) + 1 \in History(heads[b])'
  BY <1>1, <1>4, CommitGrows
<1>6. PICK n \in Nat : n = Len(commits) + 1
  BY <1>1
<1>7. PICK r : r = [pushCall[c] EXCEPT !.commit = n, !.pc = "pull"]
  OBVIOUS
<1>8. r \in WorkRow /\ r.pc = "pull" /\ r.input = pushCall[c].input /\ r.commit = n
  BY <1>2, <1>7 DEF WorkRow, PushPlace
<1>9. Set(c, r) /\ r \in CallRow
  BY <1>6, <1>7, <1>8 DEF CallRow
<1>10. n \in 1..Len(commits') /\ n \in History(heads[b])' /\ commits'[n].tree = tree
  BY <1>5, <1>6
<1>11. Reports(r)'
  BY <1>2, <1>3, <1>8, <1>10 DEF Reports
<1>12. PushHolds(r)'
  BY <1>2, <1>8, <1>11 DEF PushHolds, WorkHolds
<1>13. QED
  BY <1>5, <1>9, <1>12, PushHostInv

\* Nothing to commit: the branch has the version's files already.
LEMMA PushUnchangedInv ==
    ASSUME PushInv, NEW c \in PushCall, pushCall[c].pc = "commit", provider \in {"gitlab", "bitbucket"},
           Changed(TreeOf(pushCall[c].head), Snapshot) = {},
           Set(c, [pushCall[c] EXCEPT !.commit = pushCall[c].head, !.pc = "pull"]),
           UNCHANGED <<provider, commits, heads, pushRow, merged>>
    PROVE  PushInv' /\ PushGrows
<1>1. PushTypes
  BY DEF PushInv
<1>2. /\ pushCall[c] \in WorkRow /\ WorkHolds(pushCall[c]) /\ In(c) = pushCall[c].input
      /\ BuildsOn(pushCall[c])
  BY WorkAt DEF PushPlace, WorkHolds
<1>3. PICK h \in 0..Len(commits) : h = pushCall[c].head
  BY <1>2 DEF BuildsOn
<1>4. TreeOf(h) = Snapshot
  <2>1. TreeOf(h) \in FileTree /\ Snapshot \in FileTree
    BY <1>1, TreeOfIsTree, SnapshotIsTree
  <2>2. \A p \in Path : TreeOf(h)[p] = Snapshot[p]
    BY <1>3 DEF Changed
  <2>3. QED
    BY <2>1, <2>2 DEF FileTree
<1>5. h # 0
  BY <1>4, SnapshotIsTree DEF TreeOf
<1>6. h \in 1..Len(commits) /\ h \in Nat /\ commits[h].tree = Snapshot
  BY <1>1, <1>4, <1>5 DEF TreeOf, PushTypes
<1>7. PICK r : r = [pushCall[c] EXCEPT !.commit = h, !.pc = "pull"]
  OBVIOUS
<1>8. r \in WorkRow /\ r.pc = "pull" /\ r.input = pushCall[c].input /\ r.commit = h
  BY <1>2, <1>6, <1>7 DEF WorkRow, PushPlace
<1>9. Set(c, r) /\ r \in CallRow
  BY <1>3, <1>7, <1>8 DEF CallRow
<1>10. Reports(r)
  BY <1>2, <1>3, <1>5, <1>6, <1>8 DEF Reports, BuildsOn
<1>11. PushHolds(r)
  BY <1>2, <1>8, <1>10 DEF PushHolds, WorkHolds
<1>12. QED
  BY <1>9, <1>11, PushCallInv

LEMMA GitHubCommitInv == ASSUME PushInv, NEW c \in PushCall, GitHubCommit(c) PROVE PushInv' /\ PushGrows
<1>1. /\ pushCall[c].pc = "commit" /\ {"commit", "reread"} \subseteq PushPlace /\ PushTypes
      /\ UNCHANGED <<provider, pushRow, merged>>
  BY DEF GitHubCommit, At, PushPlace, PushInv
<1>2. CASE /\ heads[In(c).branch] = (IF pushCall[c].creates THEN 0 ELSE pushCall[c].head)
           /\ AddCommit(In(c).branch, {pushCall[c].head}, Snapshot)
           /\ Set(c, [pushCall[c] EXCEPT !.commit = Len(commits) + 1, !.pc = "pull"])
  <2>1. pushCall[c].head \in 0..Len(commits)
    BY <1>1, WorkAt DEF WorkHolds, BuildsOn
  <2>2. heads[In(c).branch] = 0 \/ heads[In(c).branch] \in {pushCall[c].head}
    BY <1>2
  <2>3. QED
    BY <1>1, <1>2, <2>1, <2>2, PushCommitInv, SnapshotIsTree
<1>3. CASE Go(c, "reread") /\ UNCHANGED <<commits, heads>>
  BY <1>1, <1>3, PushGoInv
<1>4. QED
  BY <1>2, <1>3 DEF GitHubCommit

LEMMA OverlayIsTree ==
    ASSUME NEW from, NEW to \in FileTree, NEW actual \in FileTree
    PROVE  Overlay(from, to, actual) \in FileTree
BY DEF Overlay, FileTree

LEMMA GitLabCommitInv == ASSUME PushInv, NEW c \in PushCall, GitLabCommit(c) PROVE PushInv' /\ PushGrows
<1>1. /\ pushCall[c].pc = "commit" /\ {"commit", "reread"} \subseteq PushPlace /\ PushTypes
      /\ UNCHANGED <<provider, pushRow, merged>> /\ provider = "gitlab"
  BY DEF GitLabCommit, At, PushPlace, PushInv
<1>2. In(c).branch \in Branch
  BY <1>1, WorkAt
<1>3. PICK now \in 0..Len(commits) : now = heads[In(c).branch]
  BY <1>1, <1>2 DEF PushTypes
<1>4. PICK tree \in FileTree : tree = Overlay(TreeOf(pushCall[c].head), Snapshot, TreeOf(now))
  BY <1>1, TreeOfIsTree, SnapshotIsTree, OverlayIsTree
<1>5. CASE /\ Changed(TreeOf(pushCall[c].head), Snapshot) = {}
           /\ Set(c, [pushCall[c] EXCEPT !.commit = pushCall[c].head, !.pc = "pull"])
           /\ UNCHANGED <<commits, heads>>
  BY <1>1, <1>5, PushUnchangedInv
<1>6. CASE /\ AddCommit(In(c).branch, {now}, tree)
           /\ Set(c, [pushCall[c] EXCEPT !.commit = Len(commits) + 1, !.pc = "pull"])
  BY <1>1, <1>3, <1>6, PushCommitInv
<1>7. CASE Go(c, "reread") /\ UNCHANGED <<commits, heads>>
  BY <1>1, <1>7, PushGoInv
<1>8. QED
  BY <1>3, <1>4, <1>5, <1>6, <1>7 DEF GitLabCommit

LEMMA BitbucketCommitInv == ASSUME PushInv, NEW c \in PushCall, BitbucketCommit(c) PROVE PushInv' /\ PushGrows
<1>1. /\ pushCall[c].pc = "commit" /\ {"commit", "reread"} \subseteq PushPlace /\ PushTypes
      /\ UNCHANGED <<provider, pushRow, merged>> /\ provider = "bitbucket"
  BY DEF BitbucketCommit, At, PushPlace, PushInv
<1>2. /\ In(c).branch \in Branch /\ "main" \in Branch /\ pushCall[c].head \in 0..Len(commits)
  BY <1>1, WorkAt DEF WorkHolds, BuildsOn, Branch
<1>3. PICK parent \in 0..Len(commits) :
        parent = IF pushCall[c].head # 0 THEN pushCall[c].head ELSE heads["main"]
  BY <1>1, <1>2 DEF PushTypes
<1>4. PICK tree \in FileTree : tree = Overlay(TreeOf(pushCall[c].head), Snapshot, TreeOf(parent))
  BY <1>1, TreeOfIsTree, SnapshotIsTree, OverlayIsTree
<1>5. CASE /\ Changed(TreeOf(pushCall[c].head), Snapshot) = {}
           /\ Set(c, [pushCall[c] EXCEPT !.commit = pushCall[c].head, !.pc = "pull"])
           /\ UNCHANGED <<commits, heads>>
  BY <1>1, <1>5, PushUnchangedInv
<1>6. CASE /\ heads[In(c).branch] \in {0, parent}
           /\ AddCommit(In(c).branch, {parent}, tree)
           /\ Set(c, [pushCall[c] EXCEPT !.commit = Len(commits) + 1, !.pc = "pull"])
  BY <1>1, <1>6, PushCommitInv
<1>7. CASE Go(c, "reread") /\ UNCHANGED <<commits, heads>>
  BY <1>1, <1>7, PushGoInv
<1>8. QED
  BY <1>3, <1>4, <1>5, <1>6, <1>7 DEF BitbucketCommit

LEMMA GitLabTargetInv == ASSUME PushInv, NEW c \in PushCall, GitLabTarget(c) PROVE PushInv' /\ PushGrows
<1>1. /\ pushCall[c].pc \in PushPlace /\ {"base", "fail"} \subseteq PushPlace /\ PushTypes
      /\ UNCHANGED <<provider, commits, pushRow, merged>> /\ provider = "gitlab"
  BY DEF GitLabTarget, At, PushPlace, PushInv
<1>2. In(c).branch \in Branch /\ In(c).from \in {"main", "none"}
  BY <1>1, WorkAt DEF PushInput
<1>3. CASE Target(c, heads[In(c).branch]) /\ UNCHANGED heads
  BY <1>1, <1>2, <1>3, PushReadsTarget
<1>4. CASE /\ heads[In(c).branch] = 0 /\ heads[In(c).from] # 0 /\ At(c, "base")
           /\ heads' = [heads EXCEPT ![In(c).branch] = heads[In(c).from]]
           /\ Target(c, heads[In(c).from])
  <2>1. In(c).from = "main" /\ "main" \in Branch
    BY <1>1, <1>4, WorkAt DEF WorkHolds, At, Branch
  <2>2. PICK h \in 1..Len(commits) : h = heads[In(c).from]
    BY <1>1, <1>4, <2>1 DEF PushTypes
  <2>3. PICK b \in Branch : b = In(c).branch
    BY <1>2
  <2>4. /\ heads' = [heads EXCEPT ![b] = h] /\ heads[b] = 0 /\ h # 0 /\ h \in Nat
        /\ h \in 0..Len(commits)
    BY <1>1, <1>4, <2>2, <2>3 DEF PushTypes
  <2>5. /\ heads' \in [Branch -> 0..Len(commits)] /\ heads'[b] = h
        /\ \A d \in Branch : d # b => heads'[d] = heads[d]
    BY <1>1, <2>4 DEF PushTypes
  <2>6. ASSUME NEW g \in 1..Len(commits) PROVE g \in History(g)'
    <3>1. g \in History(g)
      BY <1>1, HistoryHasHead
    <3>2. QED
      BY <1>1, <3>1 DEF History, WithParents
  <2>7. h \in History(heads[b])'
    BY <2>5, <2>6
  <2>8. PushGrows
    <3>1. ASSUME NEW d \in Branch, heads[d] # 0 PROVE heads[d] \in History(heads[d])'
      <4>1. heads[d] \in 1..Len(commits) /\ heads'[d] = heads[d]
        BY <1>1, <2>4, <2>5, <3>1 DEF PushTypes
      <4>2. QED
        BY <2>6, <4>1
    <3>2. QED
      BY <1>1, <3>1 DEF PushGrows, PushTypes
  <2>9. Target(c, h)
    BY <1>4, <2>2
  <2>10. QED
    BY <1>1, <2>3, <2>4, <2>5, <2>7, <2>8, <2>9, PushTargetInv DEF PushTypes
<1>5. CASE /\ UNCHANGED heads
           /\ \E x \in {"base", "fail"} : Go(c, x) /\ (x = "base" => In(c).from = "main")
  BY <1>1, <1>5, PushGoInv
<1>6. QED
  BY <1>2, <1>3, <1>4, <1>5 DEF GitLabTarget

\* The first commit of an empty repository goes to "main", whatever the branch of the push.
LEMMA InitializeInv == ASSUME PushInv, NEW c \in PushCall, InitializeEmptyRepository(c) PROVE PushInv' /\ PushGrows
<1>1. /\ pushCall[c].pc \in PushPlace /\ "fail" \in PushPlace /\ PushTypes
      /\ UNCHANGED <<provider, pushRow, merged>> /\ provider = "github" /\ "main" \in Branch
  BY DEF InitializeEmptyRepository, At, PushPlace, PushInv, Branch
<1>2. CASE Go(c, "fail") /\ UNCHANGED <<commits, heads>>
  BY <1>1, <1>2, PushGoInv
<1>3. CASE ~(Go(c, "fail") /\ UNCHANGED <<commits, heads>>)
  <2>1. PICK file \in {"page", ".gitkeep"} :
          /\ AddCommit("main", {heads["main"]},
                       [TreeOf(heads["main"]) EXCEPT ![file] = Snapshot["page"]])
          /\ Target(c, Len(commits) + 1)
    BY <1>3 DEF InitializeEmptyRepository
  <2>2. PICK h \in 0..Len(commits) : h = heads["main"]
    BY <1>1 DEF PushTypes
  <2>3. PICK tree \in FileTree : tree = [TreeOf(h) EXCEPT ![file] = Snapshot["page"]]
    <3>1. TreeOf(h) \in FileTree /\ Snapshot["page"] \in {"one"}
      BY <1>1, TreeOfIsTree, SnapshotIsTree DEF Snapshot, EmptyTree, Path
    <3>2. QED
      BY <3>1 DEF FileTree
  <2>4. AddCommit("main", {h}, tree) /\ {h} \in SUBSET (0..Len(commits))
    BY <2>1, <2>2, <2>3
  <2>5. /\ PushGrows /\ commits' \in Seq(CommitRow) /\ heads' \in [Branch -> 0..Len(commits')]
        /\ \A n \in 1..Len(commits') : commits'[n].parents \subseteq 1..Len(commits')
        /\ Len(commits) + 1 \in 1..Len(commits')
        /\ Len(commits) + 1 \in History(heads["main"])'
    BY <1>1, <2>2, <2>4, CommitGrows
  <2>6. Len(commits) \in Nat /\ Len(commits') \in Nat
    BY <1>1, <2>5 DEF PushTypes
  <2>7. Len(commits) + 1 \in Nat /\ Len(commits) + 1 \in 0..Len(commits')
    BY <2>5, <2>6
  <2>8. Len(commits) + 1 # 0
    BY <2>6
  <2>9. QED
    BY <1>1, <2>1, <2>5, <2>7, <2>8, PushTargetInv
<1>4. QED
  BY <1>2, <1>3

LEMMA RereadInv == ASSUME PushInv, NEW c \in PushCall, Reread(c) PROVE PushInv' /\ PushGrows
<1>1. /\ pushCall[c].pc = "reread" /\ PushTypes
      /\ UNCHANGED <<provider, commits, heads, pushRow, merged>>
  BY DEF Reread, At, PushInv, atHost
<1>2. /\ pushCall[c] \in WorkRow /\ WorkHolds(pushCall[c]) /\ In(c) = pushCall[c].input
      /\ BuildsOn(pushCall[c]) /\ In(c).branch \in Branch
  BY <1>1, WorkAt DEF PushPlace, WorkHolds
<1>3. PICK actual \in 0..Len(commits) : actual = heads[In(c).branch]
  BY <1>1, <1>2 DEF PushTypes
<1>4. actual \in Nat
  BY <1>1 DEF PushTypes
<1>5. PICK x \in {"fail", "conflict"} :
        x = IF actual \in {0, pushCall[c].head} THEN "fail" ELSE "conflict"
  OBVIOUS
<1>6. PICK r : r = [pushCall[c] EXCEPT !.commit = actual, !.pc = x]
  OBVIOUS
<1>7. /\ r \in WorkRow /\ r.pc = x /\ r.input = pushCall[c].input /\ r.commit = actual
      /\ r.head = pushCall[c].head
  BY <1>2, <1>4, <1>6 DEF WorkRow, PushPlace
<1>8. Set(c, r) /\ r \in CallRow
  BY <1>3, <1>5, <1>6, <1>7 DEF CallRow, Reread
<1>9. x = "conflict" => Conflicts(r)
  <2>1. ASSUME x = "conflict" PROVE Conflicts(r)
    <3>1. actual # 0 /\ actual # r.head
      BY <1>5, <1>7, <2>1
    <3>2. actual \in 1..Len(commits)
      BY <1>1, <3>1 DEF PushTypes
    <3>3. actual \in History(heads[In(c).branch])
      BY <1>1, <1>3, <3>2, HistoryHasHead
    <3>4. QED
      BY <1>2, <1>7, <3>1, <3>2, <3>3 DEF Conflicts, BuildsOn
  <2>2. QED
    BY <2>1
<1>10. PushHolds(r)
  BY <1>2, <1>7, <1>9 DEF PushHolds, WorkHolds
<1>11. QED
  BY <1>1, <1>8, <1>10, PushCallInv

LEMMA CreatePullInv == ASSUME PushInv, NEW c \in PushCall, CreatePullRequest(c) PROVE PushInv' /\ PushGrows
<1>1. /\ pushCall[c].pc = "pull" /\ {"pull", "pushed", "fail"} \subseteq PushPlace
      /\ UNCHANGED <<provider, commits, heads, pushRow, merged>>
      /\ \E x \in {"pushed", "fail"} : Go(c, x)
  BY DEF CreatePullRequest, At, PushPlace
<1>2. QED
  BY <1>1, PushGoInv

\* A call ends and settles its row, with what it knows.
LEMMA CompleteInv == ASSUME PushInv, NEW c \in PushCall, Complete(c) PROVE PushInv' /\ PushGrows
<1>1. /\ pushCall[c].pc \in {"conflict", "pushed", "pull"} /\ PushTypes
      /\ UNCHANGED <<provider, commits, heads, merged>> /\ Set(c, Done)
  BY DEF Complete, At, PushInv, atHost
<1>2. /\ pushCall[c] \in WorkRow /\ WorkHolds(pushCall[c]) /\ In(c) = pushCall[c].input
      /\ In(c).key \in PushKey
  BY <1>1, WorkAt DEF PushPlace
<1>3. PICK row \in KeptRow : row = pushRow[In(c).key]
  BY <1>1, <1>2 DEF WorkHolds, PushTypes
<1>4. PICK st \in {"conflict", "pushed"} : st = IF At(c, "conflict") THEN "conflict" ELSE "pushed"
  OBVIOUS
<1>5. PICK n \in Nat : n = pushCall[c].commit
  BY <1>2 DEF WorkRow
<1>6. PICK new : new = [row EXCEPT !.status = st, !.commit = n]
  OBVIOUS
<1>7. /\ new \in KeptRow /\ new.branch = row.branch /\ new.status = st /\ new.commit = n
      /\ new # NoRow
  BY <1>6 DEF KeptRow, NoRow
<1>8. pushRow' = [pushRow EXCEPT ![In(c).key] = new]
  BY <1>1, <1>2, <1>3, <1>4, <1>5, <1>6 DEF Complete, CompleteRow, PushTypes
<1>9. RowIsTrue(new)
  <2>1. CASE pushCall[c].pc = "conflict"
    <3>1. Conflicts(pushCall[c]) /\ st = "conflict"
      BY <1>2, <1>4, <2>1 DEF WorkHolds, At
    <3>2. QED
      BY <1>5, <1>7, <3>1 DEF RowIsTrue, Conflicts
  <2>2. CASE pushCall[c].pc # "conflict"
    <3>1. Reports(pushCall[c]) /\ st = "pushed"
      BY <1>1, <1>2, <1>4, <2>2 DEF WorkHolds, At
    <3>2. new.branch = In(c).branch
      BY <1>2, <1>3, <1>7 DEF WorkHolds
    <3>3. QED
      BY <1>2, <1>5, <1>7, <3>1, <3>2 DEF RowIsTrue, Reports
  <2>3. QED
    BY <2>1, <2>2
<1>10. PushGrows /\ pushRow' \in [PushKey -> {NoRow} \cup KeptRow]
  BY <1>1, <1>7, <1>8, SameGrows DEF PushTypes
<1>11. PushTypes'
  BY <1>1, <1>10, PushSets, DoneHolds DEF PushTypes
<1>12. RowIsTrue(new)'
  BY <1>1, <1>7, <1>9, <1>10, <1>11, RowStaysTrue
<1>13. \A k \in PushKey : k # In(c).key => pushRow'[k] = pushRow[k]
  BY <1>1, <1>8 DEF PushTypes
<1>14. pushRow'[In(c).key] = new
  BY <1>1, <1>2, <1>8 DEF PushTypes
<1>15. ASSUME NEW k \in PushKey, pushRow[k] # NoRow
       PROVE  pushRow'[k] # NoRow /\ pushRow'[k].branch = pushRow[k].branch
  BY <1>3, <1>7, <1>13, <1>14, <1>15
<1>16. ASSUME NEW k \in PushKey
       PROVE  pushRow'[k] \in {pushRow[k], NoRow} \/ RowIsTrue(pushRow[k])'
  BY <1>12, <1>13, <1>14, <1>16
<1>17. ASSUME NEW d \in PushCall
       PROVE  pushCall'[d] = pushCall[d] \/ PushHolds(pushCall[d])'
  BY <1>1, <1>17, PushSets, DoneHolds
<1>18. QED
  BY <1>1, <1>10, <1>11, <1>15, <1>16, <1>17, PushStepInv

LEMMA FailInv == ASSUME PushInv, NEW c \in PushCall, Fail(c) PROVE PushInv' /\ PushGrows
<1>1. /\ pushCall[c].pc = "fail" /\ PushTypes
      /\ UNCHANGED <<provider, commits, heads, merged>> /\ Set(c, Done)
  BY DEF Fail, At, PushInv, atHost
<1>2. In(c).key \in PushKey /\ pushRow[In(c).key] \in KeptRow
  BY <1>1, WorkAt DEF PushPlace, WorkHolds, PushTypes
<1>3. PICK new : new = [pushRow[In(c).key] EXCEPT !.status = "failed"]
  OBVIOUS
<1>4. /\ new \in KeptRow /\ new.branch = pushRow[In(c).key].branch /\ new.status = "failed"
      /\ new # NoRow
  BY <1>2, <1>3 DEF KeptRow, NoRow
<1>5. pushRow' = pushRow \/ pushRow' = [pushRow EXCEPT ![In(c).key] = new]
  BY <1>3 DEF Fail, FailRow
<1>6. PushGrows /\ pushRow' \in [PushKey -> {NoRow} \cup KeptRow]
  BY <1>1, <1>4, <1>5, SameGrows DEF PushTypes
<1>7. PushTypes'
  BY <1>1, <1>6, PushSets, DoneHolds DEF PushTypes
<1>8. RowIsTrue(new)'
  BY <1>4 DEF RowIsTrue
<1>9. \A k \in PushKey : pushRow'[k] = pushRow[k] \/ (k = In(c).key /\ pushRow'[k] = new)
  BY <1>1, <1>5 DEF PushTypes
<1>10. ASSUME NEW k \in PushKey, pushRow[k] # NoRow
       PROVE  pushRow'[k] # NoRow /\ pushRow'[k].branch = pushRow[k].branch
  BY <1>4, <1>9, <1>10
<1>11. ASSUME NEW k \in PushKey
       PROVE  pushRow'[k] \in {pushRow[k], NoRow} \/ RowIsTrue(pushRow[k])'
  BY <1>8, <1>9, <1>11
<1>12. ASSUME NEW d \in PushCall
       PROVE  pushCall'[d] = pushCall[d] \/ PushHolds(pushCall[d])'
  BY <1>1, <1>12, PushSets, DoneHolds
<1>13. QED
  BY <1>1, <1>6, <1>7, <1>10, <1>11, <1>12, PushStepInv

\* A call begins, on a row of its own or on the one another call began.
LEMMA BeginInv == ASSUME PushInv, NEW c \in PushCall, NEW i \in PushInput, Begin(c, i) PROVE PushInv' /\ PushGrows
<1>1. /\ PushTypes /\ UNCHANGED <<provider, commits, heads, merged>> /\ i.key \in PushKey
      /\ i.branch \in Branch /\ i.pull \in BOOLEAN
      /\ pushRow[i.key] # NoRow => i.branch = pushRow[i.key].branch
  BY DEF Begin, PushInv, PushInput, atHost
<1>2. PICK new : new = [status |-> "pending", branch |-> i.branch, pull |-> i.pull, commit |-> 0]
  OBVIOUS
<1>3. new \in KeptRow /\ new.branch = i.branch /\ new.status = "pending" /\ new # NoRow
  BY <1>1, <1>2 DEF KeptRow, NoRow
<1>4. \/ pushRow[i.key] = NoRow /\ pushRow' = [pushRow EXCEPT ![i.key] = new]
      \/ pushRow[i.key] # NoRow /\ pushRow' = pushRow
  BY <1>2 DEF Begin, BeginRow
<1>5. \A k \in PushKey : \/ pushRow'[k] = pushRow[k] /\ (k = i.key => pushRow[k] # NoRow)
                         \/ k = i.key /\ pushRow[k] = NoRow /\ pushRow'[k] = new
  BY <1>1, <1>4 DEF PushTypes
<1>6. PICK r : r = [pc |-> "ensure", input |-> i, head |-> 0, commit |-> 0, creates |-> FALSE]
  OBVIOUS
<1>7. r \in WorkRow /\ r.pc = "ensure" /\ r.input = i
  BY <1>6 DEF WorkRow, PushPlace
<1>8. PushGrows /\ pushRow' \in [PushKey -> {NoRow} \cup KeptRow]
  BY <1>1, <1>3, <1>4, SameGrows DEF PushTypes
<1>9. PICK x \in {r, Done} : Set(c, x)
  BY <1>6 DEF Begin
<1>10. x \in CallRow
  BY <1>7, DoneHolds DEF CallRow
<1>11. PushTypes'
  BY <1>1, <1>8, <1>9, <1>10, PushSets DEF PushTypes
<1>12. pushRow'[i.key] # NoRow /\ pushRow'[i.key].branch = i.branch
  BY <1>1, <1>3, <1>5
<1>13. PushHolds(r)'
  BY <1>7, <1>12 DEF PushHolds, WorkHolds
<1>14. RowIsTrue(new)'
  BY <1>3 DEF RowIsTrue
<1>15. ASSUME NEW k \in PushKey, pushRow[k] # NoRow
       PROVE  pushRow'[k] # NoRow /\ pushRow'[k].branch = pushRow[k].branch
  BY <1>5, <1>15
<1>16. ASSUME NEW k \in PushKey
       PROVE  pushRow'[k] \in {pushRow[k], NoRow} \/ RowIsTrue(pushRow[k])'
  BY <1>5, <1>14, <1>16
<1>17. ASSUME NEW d \in PushCall
       PROVE  pushCall'[d] = pushCall[d] \/ PushHolds(pushCall[d])'
  BY <1>1, <1>9, <1>10, <1>13, <1>17, PushSets, DoneHolds
<1>18. QED
  BY <1>1, <1>8, <1>11, <1>15, <1>16, <1>17, PushStepInv

LEMMA InterruptedInv == ASSUME PushInv, NEW c \in PushCall, Interrupted(c) PROVE PushInv' /\ PushGrows
<1>1. UNCHANGED <<provider, commits, heads, pushRow, merged>>
  BY DEF Interrupted, atHost
<1>2. CASE Set(c, Done)
  BY <1>1, <1>2, PushDoneInv
<1>3. CASE Go(c, "fail")
  <2>1. pushCall[c] \in CallRow
    BY DEF PushInv, PushTypes
  <2>2. pushCall[c].pc \in PushPlace
    BY <2>1 DEF Interrupted, CallRow, Idle, Done, WorkRow, MergeRow, ImportRow, FilesRow
  <2>3. QED
    BY <1>1, <1>3, <2>2, PushGoInv DEF PushPlace
<1>4. QED
  BY <1>2, <1>3 DEF Interrupted

LEMMA BeginMergeInv ==
    ASSUME PushInv, NEW c \in PushCall, NEW e \in {0, 1}, BeginMerge(c, e) PROVE PushInv' /\ PushGrows
<1>1. PushTypes /\ UNCHANGED <<provider, commits, heads, pushRow, merged>>
  BY DEF BeginMerge, PushInv, atHost
<1>2. CASE Set(c, Done)
  BY <1>1, <1>2, PushDoneInv
<1>3. CASE /\ e \in {0, heads["work"]}
           /\ Set(c, [pc |-> "merging", expected |-> e, head |-> heads["work"]])
  <2>1. PICK r : r = [pc |-> "merging", expected |-> e, head |-> heads["work"]]
    OBVIOUS
  <2>2. heads["work"] \in Nat
    BY <1>1 DEF PushTypes, Branch
  <2>3. r \in MergeRow /\ r.pc = "merging" /\ r.expected \in {0, r.head}
    BY <1>3, <2>1, <2>2 DEF MergeRow
  <2>4. r \in CallRow /\ PushHolds(r)
    BY <2>3 DEF CallRow, PushHolds, PushPlace
  <2>5. QED
    BY <1>1, <1>3, <2>1, <2>4, PushCallInv
<1>4. QED
  BY <1>2, <1>3 DEF BeginMerge

\* A merge is a commit on "main" with its head among the parents, of the head the provider was told.
LEMMA MergeInv == ASSUME PushInv, NEW c \in PushCall, Merge(c) PROVE PushInv' /\ PushGrows
<1>1. /\ PushTypes /\ UNCHANGED <<provider, pushRow>> /\ Set(c, Done) /\ pushCall[c].pc = "merging"
      /\ {"main", "work"} \subseteq Branch
  BY DEF Merge, At, PushInv, Branch
<1>2. CASE UNCHANGED <<commits, heads, merged>>
  BY <1>1, <1>2, PushDoneInv
<1>3. CASE /\ Binds(c) \in {0, heads["work"]}
           /\ AddCommit("main", {heads["main"], heads["work"]}, TreeOf(heads["work"]))
           /\ merged' = merged \cup {[expected |-> pushCall[c].expected, head |-> heads["work"]]}
  <2>1. PICK main \in 0..Len(commits), h \in 0..Len(commits) : main = heads["main"] /\ h = heads["work"]
    BY <1>1 DEF PushTypes
  <2>2. PICK tree \in FileTree : tree = TreeOf(h)
    BY <1>1, TreeOfIsTree
  <2>3. AddCommit("main", {main, h}, tree) /\ {main, h} \in SUBSET (0..Len(commits))
    BY <1>3, <2>1, <2>2
  <2>4. /\ PushGrows /\ commits' \in Seq(CommitRow) /\ heads' \in [Branch -> 0..Len(commits')]
        /\ \A n \in 1..Len(commits') : commits'[n].parents \subseteq 1..Len(commits')
    BY <1>1, <2>1, <2>3, CommitGrows
  <2>5. pushCall[c] \in MergeRow /\ pushCall[c].expected \in {0, pushCall[c].head}
    <3>1. pushCall[c] \in CallRow /\ PushHolds(pushCall[c])
      BY DEF PushInv, PushTypes
    <3>2. QED
      BY <1>1, <3>1 DEF PushHolds, CallRow, Idle, Done, WorkRow, MergeRow, ImportRow, FilesRow, PushPlace
  <2>6. PICK m : m = [expected |-> pushCall[c].expected, head |-> h]
    OBVIOUS
  <2>7. /\ m \in [expected: {0, 1}, head: Nat] /\ m.expected = pushCall[c].expected /\ m.head = h
        /\ merged' = merged \cup {m}
    BY <1>1, <1>3, <2>1, <2>5, <2>6 DEF MergeRow, PushTypes
  <2>8. provider # "bitbucket" => m.expected \in {0, m.head}
    <3>1. provider = "github" => m.expected \in {0, h}
      BY <1>3, <2>1, <2>7 DEF Binds, GitHubBinds
    <3>2. provider = "gitlab" => pushCall[c].head \in {0, h}
      BY <1>3, <2>1 DEF Binds, GitLabBinds
    <3>3. provider \in {"github", "gitlab", "bitbucket"}
      BY <1>1 DEF PushTypes, Provider
    <3>4. QED
      BY <2>5, <2>7, <3>1, <3>2, <3>3
  <2>9. merged' \subseteq [expected: {0, 1}, head: Nat]
    BY <1>1, <2>7 DEF PushTypes
  <2>10. PushTypes'
    BY <1>1, <2>4, <2>9, PushSets, DoneHolds DEF PushTypes
  <2>11. ASSUME NEW d \in PushCall PROVE pushCall'[d] = pushCall[d] \/ PushHolds(pushCall[d])'
    BY <1>1, <2>11, PushSets, DoneHolds
  <2>12. ASSUME provider # "bitbucket", NEW n \in merged'
         PROVE  n \in merged \/ n.expected \in {0, n.head}
    BY <2>7, <2>8, <2>12
  <2>13. QED
    BY <1>1, <2>4, <2>10, <2>11, <2>12, PushStepInv
<1>4. QED
  BY <1>2, <1>3 DEF Merge

LEMMA BeginImportInv ==
    ASSUME PushInv, NEW c \in PushCall, NEW b \in Branch, BeginImport(c, b) PROVE PushInv' /\ PushGrows
<1>1. /\ PushTypes /\ UNCHANGED <<provider, commits, heads, pushRow, merged>> /\ heads[b] # 0
      /\ Set(c, [pc |-> "importing", branch |-> b, commit |-> heads[b]])
  BY DEF BeginImport, PushInv, atHost
<1>2. PICK h \in 1..Len(commits) : h = heads[b]
  BY <1>1 DEF PushTypes
<1>3. PICK r : r = [pc |-> "importing", branch |-> b, commit |-> h]
  OBVIOUS
<1>4. r \in ImportRow /\ r.pc = "importing" /\ r.commit = h
  BY <1>2, <1>3 DEF ImportRow
<1>5. r \in CallRow /\ PushHolds(r)
  BY <1>2, <1>4 DEF CallRow, PushHolds, PushPlace
<1>6. QED
  BY <1>1, <1>2, <1>3, <1>5, PushCallInv

LEMMA DownloadInv == ASSUME PushInv, NEW c \in PushCall, Download(c) PROVE PushInv' /\ PushGrows
<1>1. /\ PushTypes /\ UNCHANGED <<provider, commits, heads, pushRow, merged>>
      /\ pushCall[c].pc = "importing" /\ PushHolds(pushCall[c])
  BY DEF Download, At, PushInv, atHost
<1>2. PICK h \in 1..Len(commits) : h = pushCall[c].commit
  BY <1>1 DEF PushHolds
<1>3. h \in Nat /\ h # 0 /\ h \in 0..Len(commits)
  BY <1>1 DEF PushTypes
<1>4. PICK tree \in FileTree : tree = TreeOf(h)
  BY <1>1, <1>3, TreeOfIsTree
<1>5. tree = commits[h].tree
  BY <1>3, <1>4 DEF TreeOf
<1>6. PICK r : r = [pc |-> "imported", commit |-> h, files |-> tree]
  OBVIOUS
<1>7. r \in FilesRow /\ r.pc = "imported" /\ r.commit = h /\ r.files = tree
  BY <1>3, <1>6 DEF FilesRow
<1>8. Set(c, r)
  BY <1>2, <1>4, <1>6 DEF Download, FilesOf
<1>9. r \in CallRow /\ PushHolds(r)
  BY <1>2, <1>5, <1>7 DEF CallRow, PushHolds, PushPlace
<1>10. QED
  BY <1>1, <1>8, <1>9, PushCallInv

LEMMA ForeignCommitInv == ASSUME PushInv, NEW b \in Branch, ForeignCommit(b) PROVE PushInv' /\ PushGrows
<1>1. PushTypes /\ UNCHANGED <<provider, pushRow, pushCall, merged>>
  BY DEF ForeignCommit, PushInv
<1>2. PICK h \in 0..Len(commits) : h = heads[b]
  BY <1>1 DEF PushTypes
<1>3. PICK tree \in FileTree : AddCommit(b, {h}, tree)
  <2>1. PICK p \in {"page", "notes"} : AddCommit(b, {h}, [TreeOf(h) EXCEPT ![p] = "other"])
    BY <1>2 DEF ForeignCommit
  <2>2. [TreeOf(h) EXCEPT ![p] = "other"] \in FileTree
    BY <1>1, TreeOfIsTree DEF FileTree
  <2>3. QED
    BY <2>1, <2>2
<1>4. {h} \in SUBSET (0..Len(commits))
  OBVIOUS
<1>5. /\ PushGrows /\ commits' \in Seq(CommitRow) /\ heads' \in [Branch -> 0..Len(commits')]
      /\ \A n \in 1..Len(commits') : commits'[n].parents \subseteq 1..Len(commits')
  BY <1>1, <1>2, <1>3, <1>4, CommitGrows
<1>6. PushTypes'
  BY <1>1, <1>5 DEF PushTypes
<1>7. QED
  BY <1>1, <1>5, <1>6, PushStepInv

LEMMA PushInitInv == PushInit => PushInv
<1> SUFFICES ASSUME PushInit PROVE PushInv
  OBVIOUS
<1>1. PICK n \in {0, 1}, work \in BOOLEAN :
        /\ commits = IF n = 0 THEN <<>>
                     ELSE <<[parents |-> {}, tree |-> [EmptyTree EXCEPT !["page"] = "old"]]>>
        /\ heads = [b \in Branch |-> IF b = "main" \/ work THEN n ELSE 0]
  BY DEF PushInit
<1>2. PICK r : r = [parents |-> {}, tree |-> [EmptyTree EXCEPT !["page"] = "old"]]
  OBVIOUS
<1>3. r \in CommitRow /\ r.parents = {}
  BY <1>2, SnapshotIsTree DEF CommitRow, FileTree
<1>4. /\ commits \in Seq(CommitRow) /\ Len(commits) = n
      /\ \A m \in 1..Len(commits) : commits[m].parents \subseteq 1..Len(commits)
  <2>1. CASE n = 0
    BY <1>1, <2>1
  <2>2. CASE n = 1
    BY <1>1, <1>2, <1>3, <2>2
  <2>3. QED
    BY <2>1, <2>2
<1>5. heads \in [Branch -> 0..Len(commits)]
  BY <1>1, <1>4
<1>6. Idle \in CallRow /\ PushHolds(Idle)
  BY DEF CallRow, PushHolds, Idle, PushPlace
<1>7. /\ provider \in Provider /\ pushRow \in [PushKey -> {NoRow} \cup KeptRow] /\ merged = {}
      /\ pushCall \in [PushCall -> CallRow]
      /\ \A c \in PushCall : pushCall[c] = Idle
      /\ \A k \in PushKey : pushRow[k] = NoRow
  BY <1>6 DEF PushInit
<1>8. PushTypes
  BY <1>4, <1>5, <1>7 DEF PushTypes
<1>9. QED
  BY <1>6, <1>7, <1>8 DEF PushInv

LEMMA PushNextInv == ASSUME PushInv, [PushNext]_pushVars PROVE PushInv' /\ PushGrows
<1>1. CASE UNCHANGED pushVars
  <2>1. PushTypes /\ UNCHANGED <<provider, commits, heads, pushRow, pushCall, merged>>
    BY <1>1 DEF pushVars, atHost, PushInv
  <2>2. PushGrows /\ PushTypes'
    BY <2>1, SameGrows DEF PushTypes
  <2>3. QED
    BY <2>1, <2>2, PushStepInv
<1>2. CASE \E b \in Branch : ForeignCommit(b)
  BY <1>2, ForeignCommitInv
<1>3. CASE \E c \in PushCall :
             \/ \E i \in PushInput : Begin(c, i)
             \/ Ensure(c) \/ CreateRepository(c)
             \/ GitHubTarget(c) \/ InitializeEmptyRepository(c) \/ GitHubCommit(c)
             \/ GitLabTarget(c) \/ GitLabCommit(c) \/ BitbucketTarget(c) \/ BitbucketCommit(c)
  BY <1>3, BeginInv, EnsureInv, CreateRepositoryInv, GitHubTargetInv, InitializeInv, GitHubCommitInv,
     GitLabTargetInv, GitLabCommitInv, BitbucketTargetInv, BitbucketCommitInv
<1>4. CASE \E c \in PushCall :
             \/ Reread(c) \/ CreatePullRequest(c) \/ Complete(c) \/ Fail(c) \/ Interrupted(c)
             \/ \E e \in {0, 1} : BeginMerge(c, e)
             \/ Merge(c)
             \/ \E b \in Branch : BeginImport(c, b)
             \/ GitHubReadSource(c) \/ GitLabReadSource(c) \/ BitbucketReadSource(c)
  BY <1>4, RereadInv, CreatePullInv, CompleteInv, FailInv, InterruptedInv, BeginMergeInv, MergeInv,
     BeginImportInv, DownloadInv DEF GitHubReadSource, GitLabReadSource, BitbucketReadSource
<1>5. QED
  BY <1>1, <1>2, <1>3, <1>4 DEF PushNext

LEMMA PushInvAlways == PushSpec => []PushInv
<1>1. PushInv /\ [PushNext]_pushVars => PushInv'
  BY PushNextInv
<1>2. QED
  BY <1>1, PushInitInv, PTL DEF PushSpec

\* What Viby says of a repository's history is true of the repository: pushed and conflicting
\* commits of the history rows, merges with an expected head, imported files (Version.push,
\* runRepositoryPush, the merge and import operations of the three adapters).
THEOREM RepositoryHistoryIsTrue == PushSpec => []HistoryIsTrue
<1>1. ASSUME PushInv PROVE HistoryIsTrue
  <2>1. ASSUME NEW c \in PushCall, At(c, "conflict")
        PROVE  pushCall[c].commit # (IF In(c).expected # 0 THEN In(c).expected ELSE pushCall[c].head)
    <3>1. pushCall[c].pc = "conflict" /\ WorkHolds(pushCall[c]) /\ In(c) = pushCall[c].input
      BY <1>1, <2>1, WorkAt DEF At, PushPlace
    <3>2. QED
      BY <3>1 DEF WorkHolds, Conflicts
  <2>2. ASSUME NEW c \in PushCall, At(c, "imported")
        PROVE  pushCall[c].files = TreeOf(pushCall[c].commit)
    <3>1. /\ pushCall[c].commit \in 1..Len(commits)
          /\ pushCall[c].files = commits[pushCall[c].commit].tree
      BY <1>1, <2>2 DEF PushInv, PushHolds, At
    <3>2. pushCall[c].commit # 0
      BY <1>1, <3>1 DEF PushInv, PushTypes
    <3>3. QED
      BY <3>1, <3>2 DEF TreeOf
  <2>3. QED
    BY <1>1, <2>1, <2>2 DEF PushInv, HistoryIsTrue, BoundToOneCommit
<1>2. QED
  BY <1>1, PushInvAlways, PTL

\* A branch only moves to a commit that has its old head in its history: the commits of the three
\* adapters, the merges and other people's commits never take one away (GitHubCommit, GitLabCommit,
\* BitbucketCommit, InitializeEmptyRepository, Merge).
THEOREM RepositoryHistoryOnlyGrows == PushSpec => BranchesOnlyGrow
<1>1. (PushInv /\ [PushNext]_pushVars) =>
        [\A b \in Branch : heads[b] # heads'[b] => heads[b] = 0 \/ heads[b] \in History(heads[b])'
          ]_pushVars
  BY PushNextInv DEF PushGrows
<1>2. QED
  BY <1>1, PushInvAlways, PTL DEF PushSpec, BranchesOnlyGrow

----------------------------------------------------------------------------
(* Deployments: records, archives and the provider *)

DeployStatus == {"building"} \cup Finished
RestingCall  == [pc: {"idle", "done"}]
DeployPlace  == {"prepare", "archive", "link", "project", "create", "find", "upload", "diff",
                 "send", "deployed", "fail"}
DeployingCall ==
    [pc: DeployPlace, key: DeployKey, known: Nat, since: Nat, files: Nat,
     dep: Nat, status: {"pending"} \cup DeployStatus]
LookingCall  == [pc: {"observed", "cancel"}, dep: Nat, status: DeployStatus]

DeployTypes ==
    /\ host \in Host /\ project \in BOOLEAN
    /\ deploys \in Seq([key: DeployKey, files: Nat, missing: BOOLEAN, status: DeployStatus])
    /\ builds \in Nat /\ stored \subseteq 1..builds
    /\ deployRow \in [DeployKey -> [status: {"absent", "pending"} \cup DeployStatus, dep: Nat]]
    /\ artifact \in [DeployKey -> 0..builds]
    /\ deployCall \in [DeployCall -> RestingCall \cup DeployingCall \cup LookingCall]
    /\ deployFaults \in Nat

\* A deployment exists and, if it is said to be over, it is over in that way.
Truly(d, status) ==
    /\ d \in 1..Len(deploys)
    /\ status \in Finished => deploys[d].status = status

RowsAreTrue ==
    \A k \in DeployKey : deployRow[k].dep # 0 =>
        /\ Truly(deployRow[k].dep, deployRow[k].status) /\ deployRow[k].status # "pending"
        /\ deploys[deployRow[k].dep].key = k

\* A build that no row names yet belongs to the call that made it.
Unarchived(c) == deployCall[c].pc \in {"archive", "link"}

ArchivesAreKept ==
    /\ \A k \in DeployKey : artifact[k] # 0 => artifact[k] \in stored
    /\ \A k, l \in DeployKey : k # l /\ artifact[k] # 0 => artifact[k] # artifact[l]
    /\ ~Prebuilt(host) => \A k \in DeployKey : artifact[k] = 0

\* What a call is about to record is true as well.
AnswerHolds(c) ==
    /\ deployCall[c].pc \in {"diff", "send", "deployed"} =>
         /\ Truly(deployCall[c].dep, deployCall[c].status) /\ deployCall[c].status # "pending"
         /\ deploys[deployCall[c].dep].key = DKey(c)
    /\ deployCall[c].pc \in {"observed", "cancel"} => Truly(deployCall[c].dep, deployCall[c].status)

BuildHolds(c) ==
    Unarchived(c) =>
        /\ Prebuilt(host) /\ deployCall[c].known = 0
        /\ deployCall[c].files \in 1..builds
        /\ DAt(c, "link") => deployCall[c].files \in stored
        /\ \A k \in DeployKey : artifact[k] # deployCall[c].files
        /\ \A e \in DeployCall : Unarchived(e) /\ e # c => deployCall[e].files # deployCall[c].files

\* The archive that was recorded when the call began is what it sends, and the provider had no
\* deployment with the key when the call looked.
PlaceHolds(c) ==
    deployCall[c].pc \in DeployPlace =>
        /\ DAt(c, "prepare") => Prebuilt(host)
        /\ ~Prebuilt(host) => deployCall[c].known = 0
        /\ deployCall[c].pc \in {"project", "create", "find", "upload"} /\ deployCall[c].known # 0
             => deployCall[c].files = deployCall[c].known
        /\ deployCall[c].since <= Len(deploys)
        /\ DAt(c, "upload") => \A d \in 1..deployCall[c].since : deploys[d].key # DKey(c)

CallHolds(c) == AnswerHolds(c) /\ BuildHolds(c) /\ PlaceHolds(c)

DeployInv == DeployTypes /\ RowsAreTrue /\ ArchivesAreKept /\ \A c \in DeployCall : CallHolds(c)

LEMMA DeployInitInv == DeployInit => DeployInv
<1> SUFFICES ASSUME DeployInit PROVE DeployInv
  OBVIOUS
<1>1. deploys \in Seq([key: DeployKey, files: Nat, missing: BOOLEAN, status: DeployStatus])
  BY DEF DeployInit
<1>2. \A c \in DeployCall : deployCall[c] = IdleDeploy
  BY DEF DeployInit
<1>3. DeployTypes
  BY <1>1 DEF DeployInit, DeployTypes, IdleDeploy, NoRecord, RestingCall
<1>4. RowsAreTrue /\ ArchivesAreKept
  BY DEF DeployInit, RowsAreTrue, ArchivesAreKept, NoRecord
<1>5. \A c \in DeployCall : CallHolds(c)
  <2> SUFFICES ASSUME NEW c \in DeployCall PROVE CallHolds(c)
    OBVIOUS
  <2>1. deployCall[c].pc = "idle"
    BY <1>2 DEF IdleDeploy
  <2>2. QED
    BY <2>1 DEF CallHolds, AnswerHolds, BuildHolds, PlaceHolds, Unarchived, DeployPlace
<1>6. QED
  BY <1>3, <1>4, <1>5 DEF DeployInv

\* The provider's deployments go on: none is forgotten, and what is over stays as it ended.
DeploysGoOn ==
    /\ Len(deploys) <= Len(deploys')
    /\ \A d \in 1..Len(deploys) :
         /\ deploys'[d].key = deploys[d].key
         /\ deploys[d].status \in Finished => deploys'[d].status = deploys[d].status

\* Nobody's bytes are removed but those of a call that moves on without them.
BytesStay ==
    /\ builds <= builds'
    /\ \A n \in stored : n \notin stored' =>
         /\ \A k \in DeployKey : artifact[k] # n
         /\ \A e \in DeployCall :
              deployCall'[e] = deployCall[e] /\ Unarchived(e) => deployCall[e].files # n

LEMMA DeploysKept ==
    ASSUME DeployTypes, UNCHANGED deploys
    PROVE  DeploysGoOn
<1>1. Len(deploys) \in Nat
  BY DEF DeployTypes
<1>2. QED
  BY <1>1 DEF DeploysGoOn

LEMMA TrulyStays ==
    ASSUME DeployTypes, DeployTypes', DeploysGoOn, NEW d, NEW s, Truly(d, s)
    PROVE  Truly(d, s)' /\ deploys'[d].key = deploys[d].key
<1>1. Len(deploys) \in Nat /\ Len(deploys') \in Nat
  BY DEF DeployTypes
<1>2. QED
  BY <1>1 DEF DeploysGoOn, Truly

\* What holds of a call that does not move still holds.
LEMMA RestingCallHolds ==
    ASSUME DeployInv, DeployTypes', DeploysGoOn, BytesStay, UNCHANGED <<host, artifact>>,
           NEW c \in DeployCall, deployCall'[c] = deployCall[c],
           \A e \in DeployCall : deployCall'[e] = deployCall[e] \/ CallHolds(e)'
    PROVE  CallHolds(c)'
<1>1. CallHolds(c) /\ DeployTypes
  BY DEF DeployInv
<1>2. Len(deploys) \in Nat /\ Len(deploys') \in Nat /\ builds \in Nat /\ builds' \in Nat
  BY DEF DeployTypes, DeployInv
<1>3. AnswerHolds(c)'
  BY <1>1, TrulyStays DEF CallHolds, AnswerHolds, DKey
<1>4. BuildHolds(c)'
  <2> SUFFICES ASSUME Unarchived(c) PROVE BuildHolds(c)'
    BY DEF BuildHolds, Unarchived
  <2>1. /\ Prebuilt(host) /\ deployCall[c].known = 0
        /\ deployCall[c].files \in 1..builds
        /\ DAt(c, "link") => deployCall[c].files \in stored
        /\ \A k \in DeployKey : artifact[k] # deployCall[c].files
    BY <1>1 DEF CallHolds, BuildHolds
  <2>2. DAt(c, "link") => deployCall[c].files \in stored'
    BY <2>1 DEF BytesStay
  <2>3. ASSUME NEW e \in DeployCall, Unarchived(e)', e # c
        PROVE  deployCall'[e].files # deployCall[c].files
    <3>1. CASE deployCall'[e] = deployCall[e]
      BY <2>3, <3>1, <1>1 DEF CallHolds, BuildHolds, Unarchived
    <3>2. CASE CallHolds(e)'
      BY <2>3, <3>2 DEF CallHolds, BuildHolds, Unarchived
    <3>3. QED
      BY <3>1, <3>2
  <2>4. deployCall[c].files \in 1..builds'
    BY <1>2, <2>1 DEF BytesStay
  <2>5. QED
    BY <2>1, <2>2, <2>3, <2>4 DEF BuildHolds, DAt, Prebuilt
<1>5. PlaceHolds(c)'
  <2> SUFFICES ASSUME deployCall[c].pc \in DeployPlace PROVE PlaceHolds(c)'
    BY DEF PlaceHolds
  <2>1. deployCall[c].since \in Nat
    BY <1>1 DEF DeployTypes, DeployingCall, LookingCall, RestingCall, DeployPlace
  <2>2. deployCall[c].since <= Len(deploys)
    BY <1>1 DEF CallHolds, PlaceHolds
  <2>3. DAt(c, "upload") => \A d \in 1..deployCall[c].since : deploys'[d].key # DKey(c)
    BY <1>1, <1>2, <2>1, <2>2 DEF CallHolds, PlaceHolds, DeploysGoOn
  <2>4. deployCall[c].since <= Len(deploys')
    BY <1>2, <2>1, <2>2 DEF DeploysGoOn
  <2>5. QED
    BY <1>1, <2>3, <2>4 DEF CallHolds, PlaceHolds, DAt, DKey, Prebuilt
<1>6. QED
  BY <1>3, <1>4, <1>5 DEF CallHolds

\* A step preserves the invariant if it does so for the calls that it moves and for the rows.
LEMMA DeployMoveInv ==
    ASSUME DeployInv, DeployTypes', DeploysGoOn, BytesStay, UNCHANGED <<host, artifact>>,
           RowsAreTrue' \/ UNCHANGED deployRow,
           \A e \in DeployCall : deployCall'[e] = deployCall[e] \/ CallHolds(e)'
    PROVE  DeployInv'
<1>1. RowsAreTrue'
  <2> SUFFICES ASSUME UNCHANGED deployRow, NEW k \in DeployKey, deployRow[k].dep # 0
               PROVE  /\ Truly(deployRow[k].dep, deployRow[k].status)' /\ deployRow[k].status # "pending"
                      /\ deploys'[deployRow[k].dep].key = k
    BY DEF RowsAreTrue
  <2>1. /\ Truly(deployRow[k].dep, deployRow[k].status) /\ deployRow[k].status # "pending"
        /\ deploys[deployRow[k].dep].key = k
    BY DEF DeployInv, RowsAreTrue
  <2>2. PICK r : r = deployRow[k]
    OBVIOUS
  <2>3. Truly(r.dep, r.status)' /\ deploys'[r.dep].key = deploys[r.dep].key
    BY <2>1, <2>2, TrulyStays DEF DeployInv
  <2>4. QED
    BY <2>1, <2>2, <2>3
<1>2. ArchivesAreKept'
  BY DEF DeployInv, ArchivesAreKept, BytesStay, Prebuilt
<1>3. \A c \in DeployCall : CallHolds(c)'
  BY RestingCallHolds
<1>4. QED
  BY <1>1, <1>2, <1>3 DEF DeployInv

DeployRows == Seq([key: DeployKey, files: Nat, missing: BOOLEAN, status: DeployStatus])

LEMMA PlacedCall ==
    ASSUME DeployTypes, NEW c \in DeployCall, deployCall[c].pc \in DeployPlace
    PROVE  deployCall[c] \in DeployingCall
BY DEF DeployTypes, DeployPlace, RestingCall, LookingCall

\* Types, for a step that moves one call.
LEMMA DeployCallTypes ==
    ASSUME DeployInv, NEW c \in DeployCall, DeploysGoOn, BytesStay, UNCHANGED host, project' \in BOOLEAN,
           deploys' \in DeployRows, builds' \in Nat, stored' \subseteq 1..builds', deployFaults' \in Nat,
           deployRow' \in [DeployKey -> [status: {"absent", "pending"} \cup DeployStatus, dep: Nat]],
           artifact' \in [DeployKey -> 0..builds'],
           NEW r \in RestingCall \cup DeployingCall \cup LookingCall, DSet(c, r)
    PROVE  DeployTypes'
BY DEF DeployInv, DeployTypes, DSet, DeployRows

\* A call that goes on to another place with what it has.
LEMMA DeployGoesInv ==
    ASSUME DeployInv, NEW c \in DeployCall, NEW x, deployCall[c].pc \in DeployPlace,
           \/ x = "fail"
           \/ x \in {"project", "create", "find"} /\ deployCall[c].pc \in {"archive", "link", "project", "create"}
           \/ x \in {"send", "deployed"} /\ deployCall[c].pc \in {"diff", "send"}
           \/ x = "upload" /\ deployCall[c].pc = "find" /\ WithKey(DKey(c)) = {},
           DGo(c, x), DeploysGoOn, BytesStay,
           UNCHANGED <<host, deployRow>>, UNCHANGED artifact, project' \in BOOLEAN, builds' \in Nat,
           deploys' \in DeployRows, stored' \subseteq 1..builds', deployFaults' \in Nat
    PROVE  DeployInv'
<1>0. PICK r : r = [deployCall[c] EXCEPT !.pc = x]
  OBVIOUS
<1>1. deployCall[c] \in DeployingCall
  BY PlacedCall DEF DeployInv
<1>2. x \in DeployPlace
  BY DEF DeployPlace
<1>3. r \in DeployingCall /\ r.pc = x /\ r.dep = deployCall[c].dep /\ r.status = deployCall[c].status
      /\ r.key = deployCall[c].key /\ r.known = deployCall[c].known /\ r.files = deployCall[c].files
      /\ r.since = deployCall[c].since
  BY <1>0, <1>1, <1>2 DEF DeployingCall
<1>4. deployCall' = [deployCall EXCEPT ![c] = r]
  BY <1>0 DEF DGo, DSet
<1>5. DeployTypes'
  <2>1. artifact' \in [DeployKey -> 0..builds']
    BY DEF DeployInv, DeployTypes, BytesStay
  <2>2. QED
    BY <1>3, <1>4, <2>1, DeployCallTypes DEF DSet, DeployInv, DeployTypes
<1>6. deployCall'[c] = r /\ \A e \in DeployCall : e # c => deployCall'[e] = deployCall[e]
  BY <1>4 DEF DeployInv, DeployTypes
<1>7. CallHolds(c)
  BY DEF DeployInv
<1>8. AnswerHolds(c)'
  <2>1. CASE x \in {"send", "deployed"}
    <3>1. /\ Truly(r.dep, r.status) /\ deployCall[c].status # "pending"
          /\ deploys[r.dep].key = DKey(c)
      BY <1>3, <1>7, <2>1 DEF CallHolds, AnswerHolds
    <3>2. Truly(r.dep, r.status)' /\ deploys'[r.dep].key = DKey(c)
      BY <3>1, <1>5, TrulyStays DEF DeployInv
    <3>3. deployCall'[c].dep = r.dep /\ deployCall'[c].status = r.status
      BY <1>6
    <3>4. QED
      BY <1>3, <1>6, <2>1, <3>1, <3>2, <3>3 DEF AnswerHolds, DKey
  <2>2. CASE x \notin {"send", "deployed"}
    BY <1>3, <1>6, <2>2 DEF AnswerHolds
  <2>3. QED
    BY <2>1, <2>2
<1>9. BuildHolds(c)'
  BY <1>3, <1>6 DEF BuildHolds, Unarchived
<1>10. PlaceHolds(c)'
  <2>1. /\ ~Prebuilt(host) => deployCall[c].known = 0
        /\ deployCall[c].since <= Len(deploys) /\ deployCall[c].since \in Nat
    BY <1>1, <1>7 DEF CallHolds, PlaceHolds, DeployingCall
  <2>2. x \in {"project", "create", "find", "upload"} /\ r.known # 0 => r.files = r.known
    BY <1>3, <1>7 DEF CallHolds, PlaceHolds, BuildHolds, Unarchived
  <2>3. Len(deploys) \in Nat /\ Len(deploys') \in Nat
    BY DEF DeployInv, DeployTypes, DeployRows
  <2>4. x = "upload" => \A d \in 1..r.since : deploys'[d].key # DKey(c)
    BY <1>3, <2>1, <2>3 DEF DeploysGoOn, WithKey
  <2>5. r.since <= Len(deploys')
    BY <1>3, <2>1, <2>3 DEF DeploysGoOn
  <2>6. QED
    BY <1>3, <1>6, <2>1, <2>2, <2>4, <2>5 DEF PlaceHolds, DAt, DKey, Prebuilt
<1>11. QED
  BY <1>5, <1>6, <1>8, <1>9, <1>10, DeployMoveInv DEF CallHolds

\* A call that ends.
LEMMA DeployEndsInv ==
    ASSUME DeployInv, NEW c \in DeployCall, DSet(c, DoneDeploy), RowsAreTrue' \/ UNCHANGED deployRow,
           deployRow' \in [DeployKey -> [status: {"absent", "pending"} \cup DeployStatus, dep: Nat]],
           UNCHANGED <<atProvider, builds, stored, artifact>>, deployFaults' \in Nat
    PROVE  DeployInv'
<1>1. DeploysGoOn /\ BytesStay
  BY DeploysKept DEF DeployInv, DeployTypes, atProvider, BytesStay
<1>2. DoneDeploy \in RestingCall /\ DoneDeploy.pc = "done"
  BY DEF DoneDeploy, RestingCall
<1>3. DeployTypes'
  BY <1>1, <1>2, DeployCallTypes DEF DeployInv, DeployTypes, atProvider, DeployRows
<1>4. deployCall'[c] = DoneDeploy /\ \A e \in DeployCall : e # c => deployCall'[e] = deployCall[e]
  BY DEF DeployInv, DeployTypes, DSet
<1>5. CallHolds(c)'
  BY <1>2, <1>4 DEF CallHolds, AnswerHolds, BuildHolds, PlaceHolds, Unarchived, DeployPlace
<1>6. QED
  BY <1>1, <1>3, <1>4, <1>5, DeployMoveInv DEF atProvider

LEMMA ProviderBuildsInv ==
    ASSUME DeployInv, NEW d \in 1..Len(deploys), ProviderBuilds(d)
    PROVE  DeployInv'
<1>1. PICK s \in {"ready", "failed"} : deploys' = [deploys EXCEPT ![d].status = s]
  BY DEF ProviderBuilds
<1>2. deploys \in DeployRows /\ deploys[d].status = "building"
  BY DEF ProviderBuilds, DeployInv, DeployTypes, DeployRows
<1>3. deploys' \in DeployRows /\ Len(deploys') = Len(deploys)
  <2>1. PICK R : R = [key: DeployKey, files: Nat, missing: BOOLEAN, status: DeployStatus]
    OBVIOUS
  <2>2. deploys \in Seq(R)
    BY <1>2, <2>1 DEF DeployRows
  <2>3. deploys[d] \in R
    BY <2>2
  <2>4. PICK e : e = [deploys[d] EXCEPT !.status = s]
    OBVIOUS
  <2>5. e \in R
    BY <2>1, <2>3, <2>4 DEF DeployStatus, Finished
  <2>6. deploys' \in Seq(R) /\ Len(deploys') = Len(deploys)
    BY <1>1, <2>2, <2>4, <2>5
  <2>7. QED
    BY <2>1, <2>6 DEF DeployRows
<1>4. DeploysGoOn
  BY <1>1, <1>2, <1>3 DEF DeploysGoOn, DeployRows, Finished
<1>5. DeployTypes' /\ BytesStay
  BY <1>3 DEF ProviderBuilds, DeployInv, DeployTypes, DeployRows, BytesStay, history
<1>6. QED
  BY <1>4, <1>5, DeployMoveInv DEF ProviderBuilds, history

LEMMA BeginDeployInv ==
    ASSUME DeployInv, NEW c \in DeployCall, NEW k \in DeployKey, BeginDeploy(c, k)
    PROVE  DeployInv'
<1>1. /\ UNCHANGED <<atProvider, builds, stored, artifact, deployFaults>>
      /\ deployFaults \in Nat
  BY DEF BeginDeploy, DeployInv, DeployTypes
<1>2. /\ deployRow' \in [DeployKey -> [status: {"absent", "pending"} \cup DeployStatus, dep: Nat]]
      /\ \A l \in DeployKey : deployRow'[l] = deployRow[l] \/ deployRow'[l].dep = 0
  BY DEF BeginDeploy, BeginRecord, NoRecord, DeployInv, DeployTypes
<1>3. RowsAreTrue'
  BY <1>1, <1>2 DEF DeployInv, RowsAreTrue, Truly, atProvider
<1>4. CASE ReplaysRecord(k)
  BY <1>1, <1>2, <1>3, <1>4, DeployEndsInv DEF BeginDeploy
<1>5. CASE ~ReplaysRecord(k)
  <2>1. PICK r : r = [pc |-> IF Prebuilt(host) THEN "prepare" ELSE "project", key |-> k,
                      known |-> artifact[k], since |-> Len(deploys), files |-> Source, dep |-> 0,
                      status |-> "pending"]
    OBVIOUS
  <2>2. DSet(c, r)
    BY <1>5, <2>1 DEF BeginDeploy
  <2>3. /\ r \in DeployingCall /\ r.pc \in {"prepare", "project"}
        /\ r.pc = "prepare" => Prebuilt(host)
        /\ r.pc = "project" => r.known = 0
        /\ ~Prebuilt(host) => r.known = 0
        /\ r.since = Len(deploys) /\ Len(deploys) \in Nat
    BY <2>1 DEF DeployInv, DeployTypes, ArchivesAreKept, DeployingCall, DeployPlace, Source
  <2>4. DeploysGoOn /\ BytesStay
    BY <1>1, DeploysKept DEF DeployInv, DeployTypes, atProvider, BytesStay
  <2>5. DeployTypes'
    BY <1>1, <1>2, <2>2, <2>3, <2>4, DeployCallTypes DEF DeployInv, DeployTypes, atProvider, DeployRows
  <2>6. deployCall'[c] = r /\ \A e \in DeployCall : e # c => deployCall'[e] = deployCall[e]
    BY <2>2 DEF DeployInv, DeployTypes, DSet
  <2>7. CallHolds(c)'
    BY <1>1, <2>3, <2>6 DEF CallHolds, AnswerHolds, BuildHolds, PlaceHolds, Unarchived, DAt, Prebuilt,
       atProvider
  <2>8. QED
    BY <1>1, <1>3, <2>4, <2>5, <2>6, <2>7, DeployMoveInv DEF atProvider
<1>6. QED
  BY <1>4, <1>5

LEMMA PrepareInv ==
    ASSUME DeployInv, NEW c \in DeployCall, Prepare(c)
    PROVE  DeployInv'
<1>1. /\ UNCHANGED <<host, project, deploys, stored, deployRow, artifact, deployFaults>>
      /\ deployCall[c].pc = "prepare" /\ deployCall[c] \in DeployingCall
      /\ builds \in Nat /\ builds' \in {builds, builds + 1}
  BY PlacedCall DEF Prepare, DAt, DeployPlace, atProvider, history, DeployInv, DeployTypes
<1>2. DeploysGoOn /\ BytesStay /\ builds' \in Nat /\ builds <= builds' /\ stored' \subseteq 1..builds'
  BY <1>1, DeploysKept DEF DeployInv, DeployTypes, BytesStay
<1>3. CASE DGo(c, "fail")
  BY <1>1, <1>2, <1>3, DeployGoesInv DEF DeployPlace, DeployInv, DeployTypes, DeployRows
<1>4. CASE ~DGo(c, "fail")
  <2>0. PICK n : n = builds + 1 /\ n \in Nat
    BY <1>1
  <2>1. PICK r : /\ DSet(c, r)
                 /\ \/ /\ deployCall[c].known # 0
                       /\ r = [deployCall[c] EXCEPT !.files = deployCall[c].known, !.pc = "project"]
                    \/ /\ deployCall[c].known = 0 /\ builds' = n
                       /\ r = [deployCall[c] EXCEPT !.files = n, !.pc = "archive"]
    BY <1>4, <2>0 DEF Prepare
  <2>2. /\ r \in DeployingCall /\ r.known = deployCall[c].known /\ r.since = deployCall[c].since
        /\ \/ r.pc = "project" /\ r.files = r.known
           \/ /\ r.pc = "archive" /\ r.known = 0 /\ r.files = builds + 1 /\ builds' = builds + 1
    BY <1>1, <2>0, <2>1 DEF DeployingCall, DeployPlace
  <2>3. deployCall'[c] = r /\ \A e \in DeployCall : e # c => deployCall'[e] = deployCall[e]
    BY <2>1 DEF DeployInv, DeployTypes, DSet
  <2>4. DeployTypes'
    <3>1. artifact' \in [DeployKey -> 0..builds']
      BY <1>1, <1>2 DEF DeployInv, DeployTypes
    <3>2. QED
      BY <1>1, <1>2, <2>1, <2>2, <3>1, DeployCallTypes DEF DeployInv, DeployTypes, DeployRows
  <2>5. /\ Prebuilt(host) /\ deployCall[c].since <= Len(deploys)
    BY <1>1 DEF DeployInv, CallHolds, PlaceHolds, DAt, DeployPlace
  <2>6. PlaceHolds(c)' /\ AnswerHolds(c)'
    BY <1>1, <2>2, <2>3, <2>5 DEF PlaceHolds, AnswerHolds, DAt, Prebuilt
  <2>7. BuildHolds(c)'
    <3> SUFFICES ASSUME r.pc = "archive" PROVE BuildHolds(c)'
      BY <2>2, <2>3 DEF BuildHolds, Unarchived
    <3>1. \A k \in DeployKey : artifact[k] # builds + 1
      BY <1>1 DEF DeployInv, DeployTypes
    <3>2. ASSUME NEW e \in DeployCall, Unarchived(e)', e # c PROVE deployCall'[e].files # builds + 1
      BY <1>1, <2>3, <3>2 DEF DeployInv, CallHolds, BuildHolds, Unarchived
    <3>3. QED
      BY <1>1, <2>2, <2>3, <2>5, <3>1, <3>2 DEF BuildHolds, Unarchived, DAt, Prebuilt
  <2>8. QED
    BY <1>1, <1>2, <2>3, <2>4, <2>6, <2>7, DeployMoveInv DEF CallHolds
<1>5. QED
  BY <1>3, <1>4

\* Steps that leave the provider and the bytes alone and move one call from place to place.
LEMMA DeployPlainInv ==
    ASSUME DeployInv, NEW c \in DeployCall, NEW x, deployCall[c].pc \in DeployPlace,
           \/ x = "fail"
           \/ x \in {"project", "create", "find"} /\ deployCall[c].pc \in {"archive", "link", "project", "create"}
           \/ x \in {"send", "deployed"} /\ deployCall[c].pc \in {"diff", "send"}
           \/ x = "upload" /\ deployCall[c].pc = "find" /\ WithKey(DKey(c)) = {},
           DGo(c, x), UNCHANGED <<host, deploys, deployRow, builds, stored>>, UNCHANGED artifact,
           project' \in BOOLEAN, deployFaults' \in Nat
    PROVE  DeployInv'
<1>1. DeploysGoOn /\ BytesStay
  BY DeploysKept DEF DeployInv, DeployTypes, BytesStay
<1>2. QED
  BY <1>1, DeployGoesInv DEF DeployInv, DeployTypes, DeployRows

LEMMA ArchiveInv ==
    ASSUME DeployInv, NEW c \in DeployCall, Archive(c)
    PROVE  DeployInv'
<1>1. /\ UNCHANGED <<host, project, deploys, builds, deployRow, artifact, deployFaults>>
      /\ deployCall[c].pc = "archive" /\ deployCall[c] \in DeployingCall
      /\ CallHolds(c) /\ builds \in Nat
  BY PlacedCall DEF Archive, DAt, DeployPlace, atProvider, history, DeployInv, DeployTypes
<1>2. CASE artifact[DKey(c)] # 0
  BY <1>1, <1>2, DeployPlainInv DEF Archive, DeployPlace, DeployInv, DeployTypes
<1>3. CASE artifact[DKey(c)] = 0
  <2>1. DGo(c, "link") /\ stored' = stored \cup {deployCall[c].files}
    BY <1>3 DEF Archive
  <2>2. PICK r : r = [deployCall[c] EXCEPT !.pc = "link"]
    OBVIOUS
  <2>3. /\ r \in DeployingCall /\ r.pc = "link" /\ r.files = deployCall[c].files
        /\ r.known = deployCall[c].known /\ r.since = deployCall[c].since /\ DSet(c, r)
    BY <1>1, <2>1, <2>2 DEF DeployingCall, DeployPlace, DGo
  <2>4. deployCall'[c] = r /\ \A e \in DeployCall : e # c => deployCall'[e] = deployCall[e]
    BY <2>3 DEF DeployInv, DeployTypes, DSet
  <2>5. /\ Prebuilt(host) /\ deployCall[c].known = 0 /\ deployCall[c].files \in 1..builds
        /\ \A k \in DeployKey : artifact[k] # deployCall[c].files
        /\ \A e \in DeployCall : Unarchived(e) /\ e # c => deployCall[e].files # deployCall[c].files
        /\ deployCall[c].since <= Len(deploys)
    BY <1>1 DEF CallHolds, BuildHolds, PlaceHolds, Unarchived, DeployPlace
  <2>6. DeploysGoOn /\ BytesStay /\ stored' \subseteq 1..builds'
    <3>1. DeploysGoOn
      BY <1>1, DeploysKept DEF DeployInv
    <3>2. stored \subseteq 1..builds
      BY DEF DeployInv, DeployTypes
    <3>3. stored' \subseteq 1..builds'
      BY <1>1, <2>1, <2>5, <3>2
    <3>4. stored \subseteq stored' /\ builds <= builds'
      BY <1>1, <2>1
    <3>5. QED
      BY <3>1, <3>3, <3>4 DEF BytesStay
  <2>7. DeployTypes'
    BY <1>1, <2>3, <2>6, DeployCallTypes DEF DeployInv, DeployTypes, DeployRows
  <2>8. CallHolds(c)'
    BY <1>1, <2>1, <2>3, <2>4, <2>5 DEF CallHolds, AnswerHolds, BuildHolds, PlaceHolds, Unarchived, DAt,
       Prebuilt
  <2>9. QED
    BY <1>1, <2>4, <2>6, <2>7, <2>8, DeployMoveInv
<1>4. QED
  BY <1>2, <1>3

\* The bytes that lost are of no row and of no other call.
LEMMA LinkInv ==
    ASSUME DeployInv, NEW c \in DeployCall, Link(c)
    PROVE  DeployInv'
<1>1. /\ UNCHANGED <<host, project, deploys, builds, deployRow>>
      /\ deployCall[c].pc = "link" /\ deployCall[c] \in DeployingCall
      /\ CallHolds(c) /\ builds \in Nat /\ deployFaults' \in Nat
  BY PlacedCall DEF Link, DAt, DeployPlace, atProvider, DeployInv, DeployTypes
<1>2. /\ Prebuilt(host) /\ deployCall[c].known = 0 /\ deployCall[c].files \in 1..builds
      /\ deployCall[c].files \in stored
      /\ \A k \in DeployKey : artifact[k] # deployCall[c].files
      /\ \A e \in DeployCall : Unarchived(e) /\ e # c => deployCall[e].files # deployCall[c].files
      /\ deployCall[c].since <= Len(deploys)
  BY <1>1 DEF CallHolds, BuildHolds, PlaceHolds, Unarchived, DeployPlace, DAt
<1>3. PICK x \in {"project", "fail"} : DGo(c, x)
  BY DEF Link
<1>4. /\ deployCall'[c].pc = x
      /\ \A e \in DeployCall : e # c => deployCall'[e] = deployCall[e]
  BY <1>1, <1>3 DEF DGo, DSet, DeployInv, DeployTypes, DeployingCall
<1>5. CASE UNCHANGED artifact
  <2>1. stored' \in {stored \ {deployCall[c].files}, stored}
    BY <1>5, <1>2, <1>1 DEF Link
  <2>2. DeploysGoOn
    BY <1>1, DeploysKept DEF DeployInv
  <2>3. BytesStay
    BY <1>1, <1>2, <1>4, <2>1 DEF BytesStay, Unarchived
  <2>4. QED
    BY <1>1, <1>3, <1>5, <2>1, <2>2, <2>3, DeployGoesInv
       DEF DeployInv, DeployTypes, DeployRows, DeployPlace
<1>6. CASE artifact' # artifact
  <2>1. /\ artifact[DKey(c)] = 0 /\ artifact' = [artifact EXCEPT ![DKey(c)] = deployCall[c].files]
        /\ stored' = stored /\ DGo(c, "project") /\ DKey(c) \in DeployKey
    BY <1>1, <1>6 DEF Link, DKey, DeployingCall
  <2>2. PICK r : r = [deployCall[c] EXCEPT !.pc = "project"]
    OBVIOUS
  <2>3. /\ r \in DeployingCall /\ r.pc = "project" /\ r.known = 0 /\ r.since = deployCall[c].since
        /\ DSet(c, r)
    BY <1>1, <1>2, <2>1, <2>2 DEF DeployingCall, DeployPlace, DGo
  <2>4. deployCall'[c] = r
    BY <2>3 DEF DeployInv, DeployTypes, DSet
  <2>5. DeploysGoOn /\ BytesStay
    BY <1>1, <2>1, DeploysKept DEF DeployInv, DeployTypes, BytesStay
  <2>6. DeployTypes'
    <3>1. artifact' \in [DeployKey -> 0..builds']
      BY <1>1, <1>2, <2>1 DEF DeployInv, DeployTypes
    <3>2. QED
      BY <1>1, <2>1, <2>3, <2>5, <3>1, DeployCallTypes DEF DeployInv, DeployTypes, DeployRows
  <2>7. artifact'[DKey(c)] = deployCall[c].files
        /\ \A k \in DeployKey : k # DKey(c) => artifact'[k] = artifact[k]
    BY <2>1 DEF DeployInv, DeployTypes
  <2>8. ArchivesAreKept'
    BY <1>1, <1>2, <2>1, <2>7 DEF DeployInv, ArchivesAreKept, Prebuilt
  <2>9. CallHolds(c)'
    BY <1>1, <1>2, <2>3, <2>4 DEF CallHolds, AnswerHolds, BuildHolds, PlaceHolds, Unarchived, DAt, Prebuilt
  <2>10. ASSUME NEW e \in DeployCall, e # c PROVE CallHolds(e)'
    <3>1. CallHolds(e) /\ deployCall'[e] = deployCall[e]
      BY <1>4, <2>10 DEF DeployInv
    <3>2. AnswerHolds(e)' /\ PlaceHolds(e)'
      BY <1>1, <3>1 DEF CallHolds, AnswerHolds, PlaceHolds, DAt, DKey, Prebuilt, Truly
    <3>3. BuildHolds(e)'
      <4> SUFFICES ASSUME Unarchived(e) PROVE BuildHolds(e)'
        BY <3>1 DEF BuildHolds, Unarchived
      <4>1. /\ Prebuilt(host) /\ deployCall[e].known = 0 /\ deployCall[e].files \in 1..builds
            /\ DAt(e, "link") => deployCall[e].files \in stored
            /\ \A k \in DeployKey : artifact[k] # deployCall[e].files
            /\ \A f \in DeployCall : Unarchived(f) /\ f # e => deployCall[f].files # deployCall[e].files
        BY <3>1 DEF CallHolds, BuildHolds
      <4>2. deployCall[e].files # deployCall[c].files
        BY <1>2, <2>10
      <4>3. \A k \in DeployKey : artifact'[k] # deployCall[e].files
        BY <2>7, <4>1, <4>2
      <4>4. \A f \in DeployCall : Unarchived(f)' /\ f # e => deployCall'[f].files # deployCall[e].files
        BY <1>4, <2>3, <2>4, <4>1 DEF Unarchived
      <4>5. QED
        BY <1>1, <2>1, <3>1, <4>1, <4>3, <4>4 DEF BuildHolds, DAt, Prebuilt
    <3>4. QED
      BY <3>2, <3>3 DEF CallHolds
  <2>11. RowsAreTrue'
    BY <1>1 DEF DeployInv, RowsAreTrue, Truly
  <2>12. QED
    BY <2>6, <2>8, <2>9, <2>10, <2>11 DEF DeployInv
<1>7. QED
  BY <1>5, <1>6

LEMMA ProjectInv ==
    ASSUME DeployInv, NEW c \in DeployCall, ResolveProject(c) \/ CreateProject(c)
    PROVE  DeployInv'
<1>1. /\ UNCHANGED <<host, deploys, builds, stored, deployRow, artifact, deployFaults>>
      /\ project' \in BOOLEAN
      /\ deployCall[c].pc \in {"project", "create"}
  BY DEF ResolveProject, CreateProject, DAt, atProvider, history, DeployInv, DeployTypes
<1>2. PICK x \in {"find", "create", "fail"} : DGo(c, x)
  BY DEF ResolveProject, CreateProject
<1>3. QED
  BY <1>1, <1>2, DeployPlainInv DEF DeployPlace, DeployInv, DeployTypes

LEMMA RejectsInv ==
    ASSUME DeployInv, NEW c \in DeployCall, Rejects(c, "find") \/ Rejects(c, "upload") \/ WaitForDiff(c)
    PROVE  DeployInv'
<1>1. /\ UNCHANGED <<host, project, deploys, builds, stored, deployRow, artifact, deployFaults>>
      /\ deployCall[c].pc \in {"find", "upload", "diff"}
      /\ \/ DGo(c, "fail")
         \/ DGo(c, "send") /\ deployCall[c].pc = "diff"
  BY DEF Rejects, WaitForDiff, DAt, atProvider, history
<1>2. QED
  BY <1>1, DeployPlainInv DEF DeployPlace, DeployInv, DeployTypes

\* A call that heard of a deployment of its key.
LEMMA AnswerInv ==
    ASSUME DeployInv, NEW c \in DeployCall, NEW d, NEW s \in DeployStatus, NEW pc \in {"deployed", "diff"},
           deployCall[c].pc \in {"find", "upload"}, Answer(c, d, s, pc),
           DeploysGoOn, deploys' \in DeployRows, Truly(d, s)', deploys'[d].key = DKey(c),
           UNCHANGED <<host, project, builds, stored, deployRow, artifact, deployFaults>>
    PROVE  DeployInv'
<1>1. deployCall[c] \in DeployingCall /\ CallHolds(c) /\ d \in Nat
  BY PlacedCall DEF DeployInv, DeployPlace, Truly
<1>2. PICK r : r = [deployCall[c] EXCEPT !.dep = d, !.status = s, !.pc = pc]
  OBVIOUS
<1>3. /\ r \in DeployingCall /\ r.pc = pc /\ r.dep = d /\ r.status = s /\ r.key = DKey(c)
      /\ r.known = deployCall[c].known /\ r.since = deployCall[c].since /\ DSet(c, r)
  BY <1>1, <1>2 DEF DeployingCall, DeployPlace, Answer, DKey
<1>4. deployCall'[c] = r /\ \A e \in DeployCall : e # c => deployCall'[e] = deployCall[e]
  BY <1>3 DEF DeployInv, DeployTypes, DSet
<1>5. BytesStay
  BY DEF DeployInv, DeployTypes, BytesStay
<1>6. DeployTypes'
  BY <1>3, <1>5, DeployCallTypes DEF DeployInv, DeployTypes
<1>7. AnswerHolds(c)'
  <2>1. deployCall'[c].dep = d /\ deployCall'[c].status = s /\ deployCall'[c].pc \in {"deployed", "diff"}
        /\ deployCall'[c].key = DKey(c) /\ s # "pending"
    BY <1>3, <1>4 DEF DeployStatus, Finished
  <2>2. Truly(deployCall[c].dep, deployCall[c].status)'
    BY <2>1 DEF Truly
  <2>3. QED
    BY <2>1, <2>2 DEF AnswerHolds, DKey
<1>8. BuildHolds(c)'
  BY <1>3, <1>4 DEF BuildHolds, Unarchived
<1>9. PlaceHolds(c)'
  <2>1. /\ ~Prebuilt(host) => deployCall[c].known = 0
        /\ deployCall[c].since <= Len(deploys) /\ deployCall[c].since \in Nat
    BY <1>1 DEF CallHolds, PlaceHolds, DeployPlace, DeployingCall
  <2>2. Len(deploys) \in Nat /\ Len(deploys') \in Nat
    BY DEF DeployInv, DeployTypes, DeployRows
  <2>3. r.since <= Len(deploys')
    BY <1>3, <2>1, <2>2 DEF DeploysGoOn
  <2>4. QED
    BY <1>3, <1>4, <2>1, <2>3 DEF PlaceHolds, DAt, Prebuilt
<1>10. QED
  BY <1>4, <1>5, <1>6, <1>7, <1>8, <1>9, DeployMoveInv DEF CallHolds

LEMMA FindInv ==
    ASSUME DeployInv, NEW c \in DeployCall, Find(c)
    PROVE  DeployInv'
<1>1. /\ UNCHANGED <<host, project, deploys, builds, stored, deployRow, artifact, deployFaults>>
      /\ deployCall[c].pc = "find" /\ DeploysGoOn
      /\ deploys \in DeployRows
  BY DeploysKept DEF Find, DAt, atProvider, history, DeployInv, DeployTypes, DeployRows
<1>2. CASE WithKey(DKey(c)) = {}
  BY <1>1, <1>2, DeployPlainInv DEF Find, DeployPlace, DeployInv, DeployTypes
<1>3. CASE WithKey(DKey(c)) # {}
  <2>1. PICK d \in WithKey(DKey(c)) : Answer(c, d, deploys[d].status, "deployed")
    BY <1>3 DEF Find
  <2>2. PICK s : s = deploys[d].status
    OBVIOUS
  <2>3. d \in 1..Len(deploys) /\ deploys[d].key = DKey(c) /\ s \in DeployStatus
    <3>1. d \in 1..Len(deploys) /\ deploys[d].key = DKey(c)
      BY <2>1 DEF WithKey
    <3>2. PICK R : R = [key: DeployKey, files: Nat, missing: BOOLEAN, status: DeployStatus]
      OBVIOUS
    <3>3. deploys \in Seq(R)
      BY <1>1, <3>2 DEF DeployRows
    <3>4. deploys[d] \in R
      BY <3>1, <3>3
    <3>5. QED
      BY <2>2, <3>1, <3>2, <3>4
  <2>4. Truly(d, s)' /\ deploys'[d].key = DKey(c)
    BY <1>1, <2>2, <2>3 DEF Truly
  <2>5. QED
    BY <1>1, <2>1, <2>2, <2>3, <2>4, AnswerInv
<1>4. QED
  BY <1>2, <1>3

LEMMA DeployedInv ==
    ASSUME DeployInv, NEW c \in DeployCall, NEW missing \in BOOLEAN, NEW pc \in {"deployed", "diff"},
           deployCall[c].pc = "upload", NewDeployment(c, missing),
           Answer(c, Len(deploys) + 1, "building", pc),
           UNCHANGED <<host, project, builds, stored, history, deployFaults>>
    PROVE  DeployInv'
<1>1. deployCall[c] \in DeployingCall /\ Len(deploys) \in Nat /\ deploys \in DeployRows
  BY PlacedCall DEF DeployInv, DeployTypes, DeployPlace, DeployRows
<1>2. PICK e : e = [key |-> DKey(c), files |-> deployCall[c].files, missing |-> missing, status |-> "building"]
  OBVIOUS
<1>3. e \in [key: DeployKey, files: Nat, missing: BOOLEAN, status: DeployStatus] /\ e.key = DKey(c)
  BY <1>1, <1>2 DEF DeployingCall, DKey, DeployStatus
<1>4. deploys' = Append(deploys, e)
  BY <1>2 DEF NewDeployment
<1>5. /\ deploys' \in DeployRows /\ Len(deploys') = Len(deploys) + 1
      /\ \A d \in 1..Len(deploys) : deploys'[d] = deploys[d]
      /\ deploys'[Len(deploys) + 1] = e
  BY <1>1, <1>3, <1>4 DEF DeployRows
<1>6. PICK d : d = Len(deploys) + 1
  OBVIOUS
<1>7. DeploysGoOn /\ Truly(d, "building")' /\ deploys'[d].key = DKey(c)
  BY <1>1, <1>3, <1>5, <1>6 DEF DeploysGoOn, Truly, Finished
<1>8. QED
  BY <1>5, <1>6, <1>7, AnswerInv DEF history, DeployStatus

LEMMA UploadMissingInv ==
    ASSUME DeployInv, NEW c \in DeployCall, UploadMissing(c)
    PROVE  DeployInv'
<1>1. /\ UNCHANGED <<host, project, builds, stored, deployRow, artifact, deployFaults>>
      /\ deployCall[c].pc = "send" /\ DGo(c, "deployed")
  BY DEF UploadMissing, DAt, history
<1>2. PICK d : d = deployCall[c].dep /\ d \in 1..Len(deploys)
  BY <1>1 DEF DeployInv, CallHolds, AnswerHolds, Truly
<1>3. PICK R : R = [key: DeployKey, files: Nat, missing: BOOLEAN, status: DeployStatus]
  OBVIOUS
<1>4. deploys \in Seq(R)
  BY <1>3 DEF DeployInv, DeployTypes
<1>5. deploys[d] \in R
  BY <1>2, <1>4
<1>6. PICK e : e = [deploys[d] EXCEPT !.missing = FALSE]
  OBVIOUS
<1>7. e \in R /\ e.key = deploys[d].key /\ e.status = deploys[d].status
  BY <1>3, <1>5, <1>6
<1>8. deploys' = [deploys EXCEPT ![d] = e]
  BY <1>2, <1>6 DEF UploadMissing
<1>9. deploys' \in Seq(R) /\ Len(deploys') = Len(deploys) /\ DeploysGoOn
  BY <1>2, <1>4, <1>7, <1>8 DEF DeploysGoOn
<1>10. deploys' \in DeployRows /\ BytesStay
  BY <1>1, <1>3, <1>9 DEF DeployRows, BytesStay, DeployInv, DeployTypes
<1>11. QED
  BY <1>1, <1>9, <1>10, DeployGoesInv DEF DeployPlace, DeployInv, DeployTypes

LEMMA CompleteDeployInv ==
    ASSUME DeployInv, NEW c \in DeployCall, CompleteDeploy(c)
    PROVE  DeployInv'
<1>1. /\ UNCHANGED <<atProvider, builds, stored, artifact, deployFaults>>
      /\ deployCall[c].pc = "deployed" /\ deployCall[c] \in DeployingCall /\ DSet(c, DoneDeploy)
  BY PlacedCall DEF CompleteDeploy, DAt, DeployPlace, DeployInv
<1>2. PICK k \in DeployKey, d \in Nat, s \in DeployStatus :
        /\ k = DKey(c) /\ d = deployCall[c].dep /\ s = deployCall[c].status
        /\ Truly(d, s) /\ deploys[d].key = k
  BY <1>1 DEF DeployInv, CallHolds, AnswerHolds, DeployingCall, DKey, DeployStatus
<1>3. deployRow' = [deployRow EXCEPT ![k] = [status |-> s, dep |-> d]]
  BY <1>2 DEF CompleteDeploy, CompleteRecord
<1>4. deployRow' \in [DeployKey -> [status: {"absent", "pending"} \cup DeployStatus, dep: Nat]]
  BY <1>3 DEF DeployInv, DeployTypes
<1>5. RowsAreTrue'
  <2>1. s # "pending" /\ (s \in Finished => deploys[d].status = s)
    BY <1>2 DEF DeployStatus, Finished, Truly
  <2>2. deployRow'[k].dep = d /\ deployRow'[k].status = s
        /\ \A l \in DeployKey : l # k => deployRow'[l] = deployRow[l]
    BY <1>3 DEF DeployInv, DeployTypes
  <2>3. QED
    BY <1>1, <1>2, <2>1, <2>2 DEF DeployInv, RowsAreTrue, Truly, atProvider
<1>6. QED
  BY <1>1, <1>4, <1>5, DeployEndsInv DEF DeployInv, DeployTypes

LEMMA FailDeployInv ==
    ASSUME DeployInv, NEW c \in DeployCall, FailDeploy(c)
    PROVE  DeployInv'
<1>1. /\ UNCHANGED <<atProvider, builds, stored, artifact, deployFaults>>
      /\ DSet(c, DoneDeploy)
  BY DEF FailDeploy
<1>2. deployRow' \in [DeployKey -> [status: {"absent", "pending"} \cup DeployStatus, dep: Nat]]
  BY DEF FailDeploy, FailRecord, DeployInv, DeployTypes, DeployStatus, Finished
<1>3. \A k \in DeployKey :
        \/ deployRow'[k] = deployRow[k]
        \/ deployRow'[k].dep = deployRow[k].dep /\ deployRow[k].status = "pending"
  <2>1. PICK l : l = DKey(c)
    OBVIOUS
  <2>2. deployRow' = IF deployRow[l].status = "pending"
                     THEN [deployRow EXCEPT ![l].status = "failed"] ELSE deployRow
    BY <2>1 DEF FailDeploy, FailRecord
  <2>3. QED
    BY <2>2 DEF DeployInv, DeployTypes
<1>4. RowsAreTrue'
  BY <1>1, <1>3 DEF DeployInv, RowsAreTrue, Truly, atProvider
<1>5. QED
  BY <1>1, <1>2, <1>4, DeployEndsInv DEF DeployInv, DeployTypes

LEMMA InterruptDeployInv ==
    ASSUME DeployInv, NEW c \in DeployCall, InterruptDeploy(c)
    PROVE  DeployInv'
<1>1. /\ UNCHANGED <<host, project, deploys, builds, stored, deployRow, artifact>> /\ deployFaults' \in Nat
      /\ deployCall[c].pc \notin {"idle", "done"}
      /\ \/ DSet(c, DoneDeploy)
         \/ deployCall[c].pc \notin {"observed", "cancel"} /\ DGo(c, "fail")
  BY DEF InterruptDeploy, atProvider, history, DeployInv, DeployTypes
<1>2. CASE DSet(c, DoneDeploy)
  BY <1>1, <1>2, DeployEndsInv DEF DeployInv, DeployTypes, atProvider
<1>3. CASE deployCall[c].pc \notin {"observed", "cancel"} /\ DGo(c, "fail")
  <2>1. deployCall[c].pc \in DeployPlace
    BY <1>1, <1>3 DEF DeployInv, DeployTypes, DeployingCall, LookingCall, RestingCall
  <2>2. QED
    BY <1>1, <1>3, <2>1, DeployPlainInv DEF DeployInv, DeployTypes
<1>4. QED
  BY <1>1, <1>2, <1>3

\* A call of deployments.get or deployments.cancel, before and after its request.
LEMMA LookingInv ==
    ASSUME DeployInv, NEW c \in DeployCall, NEW r \in LookingCall, DSet(c, r), Truly(r.dep, r.status)',
           DeploysGoOn, deploys' \in DeployRows,
           UNCHANGED <<host, project, builds, stored, deployRow, artifact, deployFaults>>
    PROVE  DeployInv'
<1>1. deployCall'[c] = r /\ \A e \in DeployCall : e # c => deployCall'[e] = deployCall[e]
  BY DEF DeployInv, DeployTypes, DSet
<1>2. BytesStay
  BY DEF DeployInv, DeployTypes, BytesStay
<1>3. DeployTypes'
  BY <1>2, DeployCallTypes DEF DeployInv, DeployTypes
<1>4. r.pc \in {"observed", "cancel"}
  BY DEF LookingCall
<1>5. Truly(deployCall[c].dep, deployCall[c].status)'
  BY <1>1 DEF Truly
<1>6. CallHolds(c)'
  BY <1>1, <1>4, <1>5 DEF CallHolds, AnswerHolds, BuildHolds, PlaceHolds, Unarchived, DeployPlace
<1>7. QED
  BY <1>1, <1>2, <1>3, <1>6, DeployMoveInv

LEMMA LookInv ==
    ASSUME DeployInv, NEW c \in DeployCall, NEW d \in 1..Len(deploys), Look(c, d)
    PROVE  DeployInv'
<1>1. UNCHANGED <<host, project, deploys, builds, stored, deployRow, artifact, deployFaults>>
  BY DEF Look, atProvider, history
<1>2. PICK pc \in {"observed", "cancel"} : DSet(c, [pc |-> pc, dep |-> d, status |-> deploys[d].status])
  BY DEF Look
<1>3. PICK s : s = deploys[d].status
  OBVIOUS
<1>4. PICK R : R = [key: DeployKey, files: Nat, missing: BOOLEAN, status: DeployStatus]
  OBVIOUS
<1>5. deploys \in Seq(R)
  BY <1>4 DEF DeployInv, DeployTypes
<1>6. deploys[d] \in R
  BY <1>5
<1>7. s \in DeployStatus
  BY <1>3, <1>4, <1>6
<1>8. PICK r : r = [pc |-> pc, dep |-> d, status |-> s]
  OBVIOUS
<1>9. r \in LookingCall /\ r.dep = d /\ r.status = s /\ DSet(c, r)
  BY <1>2, <1>3, <1>7, <1>8 DEF LookingCall
<1>10. Truly(r.dep, r.status)'
  BY <1>1, <1>3, <1>9 DEF Truly
<1>11. DeploysGoOn /\ deploys' \in DeployRows
  BY <1>1, DeploysKept DEF DeployInv, DeployTypes, DeployRows
<1>12. QED
  BY <1>1, <1>9, <1>10, <1>11, LookingInv

LEMMA CancelDeployInv ==
    ASSUME DeployInv, NEW c \in DeployCall, CancelDeploy(c)
    PROVE  DeployInv'
<1>1. /\ UNCHANGED <<host, project, builds, stored, deployRow, artifact, deployFaults>>
      /\ deployCall[c].pc = "cancel"
  BY DEF CancelDeploy, DAt, history
<1>2. PICK d : d = deployCall[c].dep
  OBVIOUS
<1>3. CASE deploys[d].status = "building"
  <2>1. d \in 1..Len(deploys) /\ deployCall[c] \in LookingCall
    BY <1>1, <1>2 DEF DeployInv, DeployTypes, CallHolds, AnswerHolds, Truly, RestingCall, DeployingCall,
       DeployPlace
  <2>2. PICK r : r = [deployCall[c] EXCEPT !.status = "cancelled", !.pc = "observed"]
    OBVIOUS
  <2>3. r \in LookingCall /\ r.dep = d /\ r.status = "cancelled" /\ DSet(c, r)
    BY <1>2, <1>3, <2>1, <2>2 DEF LookingCall, CancelDeploy, DeployStatus, Finished
  <2>4. PICK R : R = [key: DeployKey, files: Nat, missing: BOOLEAN, status: DeployStatus]
    OBVIOUS
  <2>5. deploys \in Seq(R)
    BY <2>4 DEF DeployInv, DeployTypes
  <2>6. deploys[d] \in R
    BY <2>1, <2>5
  <2>7. PICK e : e = [deploys[d] EXCEPT !.status = "cancelled"]
    OBVIOUS
  <2>8. e \in R /\ e.key = deploys[d].key /\ e.status = "cancelled"
    BY <2>4, <2>6, <2>7 DEF DeployStatus, Finished
  <2>9. deploys' = [deploys EXCEPT ![d] = e]
    BY <1>2, <1>3, <2>7 DEF CancelDeploy
  <2>10. deploys' \in Seq(R) /\ Len(deploys') = Len(deploys) /\ deploys'[d] = e
         /\ \A f \in 1..Len(deploys) : f # d => deploys'[f] = deploys[f]
    BY <2>1, <2>5, <2>8, <2>9
  <2>11. DeploysGoOn /\ deploys' \in DeployRows /\ Truly(r.dep, r.status)'
    BY <1>3, <2>1, <2>3, <2>4, <2>5, <2>8, <2>10 DEF DeploysGoOn, DeployRows, Truly, Finished
  <2>12. QED
    BY <1>1, <2>3, <2>11, LookingInv
<1>4. CASE deploys[d].status # "building"
  BY <1>1, <1>2, <1>4, DeployEndsInv DEF CancelDeploy, DeployInv, DeployTypes, atProvider
<1>5. QED
  BY <1>3, <1>4

LEMMA ObserveInv ==
    ASSUME DeployInv, NEW c \in DeployCall, Observe(c)
    PROVE  DeployInv'
<1>1. /\ UNCHANGED <<atProvider, builds, stored, artifact, deployFaults>>
      /\ deployCall[c].pc = "observed" /\ DSet(c, DoneDeploy)
  BY DEF Observe, DAt
<1>2. PICK d \in Nat, s \in DeployStatus : d = deployCall[c].dep /\ s = deployCall[c].status /\ Truly(d, s)
  <2>1. deployCall[c] \in LookingCall
    BY <1>1 DEF DeployInv, DeployTypes, RestingCall, DeployingCall, DeployPlace
  <2>2. QED
    BY <1>1, <2>1 DEF DeployInv, CallHolds, AnswerHolds, LookingCall
<1>3. deployRow' = [k \in DeployKey |-> IF deployRow[k].dep = d THEN [deployRow[k] EXCEPT !.status = s]
                                        ELSE deployRow[k]]
  BY <1>2 DEF Observe, ObserveRecord
<1>4. /\ deployRow' \in [DeployKey -> [status: {"absent", "pending"} \cup DeployStatus, dep: Nat]]
      /\ \A k \in DeployKey : /\ deployRow'[k].dep = deployRow[k].dep
                              /\ deployRow[k].dep = d => deployRow'[k].status = s
                              /\ deployRow[k].dep # d => deployRow'[k].status = deployRow[k].status
  BY <1>2, <1>3 DEF DeployInv, DeployTypes
<1>5. s # "pending" /\ (s \in Finished => deploys[d].status = s)
  BY <1>2 DEF DeployStatus, Finished, Truly
<1>6. RowsAreTrue'
  BY <1>1, <1>4, <1>5 DEF DeployInv, RowsAreTrue, Truly, atProvider
<1>7. QED
  BY <1>1, <1>4, <1>6, DeployEndsInv DEF DeployInv, DeployTypes

LEMMA DeployNextInv == DeployInv /\ [DeployNext]_deployVars => DeployInv'
<1> SUFFICES ASSUME DeployInv, [DeployNext]_deployVars PROVE DeployInv'
  OBVIOUS
<1>1. CASE UNCHANGED deployVars
  BY <1>1 DEF deployVars, atProvider, history, DeployInv, DeployTypes, RowsAreTrue, Truly, ArchivesAreKept,
     CallHolds, AnswerHolds, BuildHolds, PlaceHolds, Unarchived, DAt, DKey
<1>2. ASSUME NEW d \in 1..Len(deploys), ProviderBuilds(d) PROVE DeployInv'
  BY <1>2, ProviderBuildsInv
<1>3. ASSUME NEW c \in DeployCall, NEW k \in DeployKey, BeginDeploy(c, k) PROVE DeployInv'
  BY <1>3, BeginDeployInv
<1>4. ASSUME NEW c \in DeployCall, NEW d \in 1..Len(deploys), Look(c, d) PROVE DeployInv'
  BY <1>4, LookInv
<1>5. ASSUME NEW c \in DeployCall,
             VercelDeploy(c) \/ CloudflareDeploy(c) \/ NetlifyDeploy(c)
      PROVE  DeployInv'
  BY <1>5, DeployedInv DEF VercelDeploy, CloudflareDeploy, NetlifyDeploy, DAt
<1>6. ASSUME NEW c \in DeployCall,
             \/ Prepare(c) \/ Archive(c) \/ Link(c) \/ ResolveProject(c)
             \/ VercelCreateProject(c) \/ CloudflareCreateProject(c) \/ NetlifyCreateProject(c)
             \/ VercelFind(c) \/ CloudflareFind(c) \/ NetlifyFind(c)
             \/ VercelRejects(c) \/ CloudflareRejects(c) \/ NetlifyRejects(c) \/ WaitForDiff(c)
      PROVE  DeployInv'
  BY <1>6, PrepareInv, ArchiveInv, LinkInv, ProjectInv, FindInv, RejectsInv
     DEF VercelCreateProject, CloudflareCreateProject, NetlifyCreateProject, VercelFind, CloudflareFind,
         NetlifyFind, VercelRejects, CloudflareRejects, NetlifyRejects
<1>7. ASSUME NEW c \in DeployCall,
             \/ UploadMissing(c) \/ CompleteDeploy(c) \/ FailDeploy(c) \/ InterruptDeploy(c)
             \/ VercelCancel(c) \/ NetlifyCancel(c) \/ Observe(c)
      PROVE  DeployInv'
  BY <1>7, UploadMissingInv, CompleteDeployInv, FailDeployInv, InterruptDeployInv, CancelDeployInv,
     ObserveInv DEF VercelCancel, NetlifyCancel
<1>8. QED
  BY <1>1, <1>2, <1>3, <1>4, <1>5, <1>6, <1>7 DEF DeployNext

\* A record says of a deployment only what is true of it, and the bytes of its archive are kept.
THEOREM DeploymentRecordsAreTrue == DeploySpec => []RecordsAreTrue
<1>1. DeployInv => RecordsAreTrue
  BY DEF DeployInv, RowsAreTrue, Truly, ArchivesAreKept, RecordsAreTrue
<1>2. QED
  BY DeployInitInv, DeployNextInv, <1>1, PTL DEF DeploySpec

\* Only a call that deploys makes a deployment.
LEMMA OnlyDeployCreates ==
    ASSUME DeployInv, DeployNext, Len(deploys') > Len(deploys)
    PROVE  \E c \in DeployCall, m \in BOOLEAN, pc \in {"deployed", "diff"} :
             DAt(c, "upload") /\ NewDeployment(c, m) /\ Answer(c, Len(deploys) + 1, "building", pc)
<1>1. PICK n \in Nat : n = Len(deploys)
  BY DEF DeployInv, DeployTypes
<1>2. ASSUME NEW d \in 1..Len(deploys), NEW e, deploys' = [deploys EXCEPT ![d] = e]
      PROVE  FALSE
  BY <1>1, <1>2 DEF DeployInv, DeployTypes
<1>3. deploys' # deploys
  BY <1>1
<1>4. ASSUME NEW c \in DeployCall, UploadMissing(c) \/ CancelDeploy(c) PROVE FALSE
  <2>1. deployCall[c].pc \in {"send", "cancel"}
    BY <1>4 DEF UploadMissing, CancelDeploy, DAt
  <2>2. deployCall[c].dep \in 1..Len(deploys)
    BY <2>1 DEF DeployInv, CallHolds, AnswerHolds, Truly
  <2>3. QED
    BY <1>2, <1>3, <1>4, <2>2 DEF UploadMissing, CancelDeploy
<1>5. ASSUME NEW d \in 1..Len(deploys), ProviderBuilds(d) PROVE FALSE
  BY <1>2, <1>5 DEF ProviderBuilds
<1>6. ASSUME NEW c \in DeployCall,
             \/ \E k \in DeployKey : BeginDeploy(c, k)
             \/ Prepare(c) \/ Archive(c) \/ Link(c) \/ ResolveProject(c) \/ CreateProject(c)
             \/ Find(c) \/ Rejects(c, "find") \/ Rejects(c, "upload") \/ WaitForDiff(c)
             \/ CompleteDeploy(c) \/ FailDeploy(c) \/ InterruptDeploy(c)
             \/ \E d \in 1..Len(deploys) : Look(c, d)
             \/ Observe(c)
      PROVE  FALSE
  BY <1>3, <1>6 DEF BeginDeploy, Prepare, Archive, Link, ResolveProject, CreateProject, Find, Rejects,
     WaitForDiff, CompleteDeploy, FailDeploy, InterruptDeploy, Look, Observe, atProvider
<1>7. \E c \in DeployCall : VercelDeploy(c) \/ CloudflareDeploy(c) \/ NetlifyDeploy(c)
  BY <1>4, <1>5, <1>6 DEF DeployNext, VercelCreateProject, CloudflareCreateProject, NetlifyCreateProject,
     VercelFind, CloudflareFind, NetlifyFind, VercelRejects, CloudflareRejects, NetlifyRejects,
     VercelCancel, NetlifyCancel
<1>8. QED
  BY <1>7 DEF VercelDeploy, CloudflareDeploy, NetlifyDeploy

\* A retry creates no second deployment, and sends what was recorded.
THEOREM DeployRetriesRepeatNothing == DeploySpec => RetriesRepeatNothing
<1>1. ASSUME DeployInv, [DeployNext]_deployVars
      PROVE  [\A c \in DeployCall : Len(deploys') > Len(deploys) /\ deployCall[c] # deployCall'[c] =>
                /\ \A d \in 1..deployCall[c].since : deploys[d].key # DKey(c)
                /\ deployCall[c].known # 0 => deploys'[Len(deploys')].files = deployCall[c].known
             ]_deployVars
  <2> SUFFICES ASSUME DeployNext, NEW c \in DeployCall, Len(deploys') > Len(deploys),
                      deployCall[c] # deployCall'[c]
               PROVE  /\ \A d \in 1..deployCall[c].since : deploys[d].key # DKey(c)
                      /\ deployCall[c].known # 0 => deploys'[Len(deploys')].files = deployCall[c].known
    BY <1>1
  <2>1. Len(deploys) \in Nat
    BY <1>1 DEF DeployInv, DeployTypes
  <2>2. PICK e \in DeployCall, m \in BOOLEAN, pc \in {"deployed", "diff"} :
          DAt(e, "upload") /\ NewDeployment(e, m) /\ Answer(e, Len(deploys) + 1, "building", pc)
    BY <1>1, <2>1, OnlyDeployCreates
  <2>3. e = c
    BY <1>1, <2>2 DEF Answer, DSet, DeployInv, DeployTypes
  <2>4. CallHolds(c) /\ deployCall[c].pc = "upload"
    BY <1>1, <2>2, <2>3 DEF DeployInv, DAt
  <2>5. deploys'[Len(deploys')].files = deployCall[c].files
    BY <1>1, <2>1, <2>2, <2>3 DEF NewDeployment, DeployInv, DeployTypes
  <2>6. QED
    BY <2>4, <2>5 DEF CallHolds, PlaceHolds, DAt, DeployPlace
<1>2. QED
  BY <1>1, DeployInitInv, DeployNextInv, PTL DEF DeploySpec, RetriesRepeatNothing

----------------------------------------------------------------------------
(* Connections: authorization sessions and credentials *)

\* The calls, by the kind of operation; connect uses the connection before it starts anew.
UsePlace == {"select", "secret", "missing", "demote", "refresh", "reauthorize", "dropRefused", "store",
             "adopt", "dropPrevious"}
CallbackPlace == {"consume", "session", "exchange", "put", "upsert", "insert", "dropReplaced",
                  "endSession"}
RevokePlace   == {"revoke", "mark", "dropRevoked"}

ConnectCall  == [pc: UsePlace \cup {"start", "register"}, then: {"start"}, session: AuthSession,
                 ref: Nat, next: Nat]
UseCall      == [pc: UsePlace, then: {"fail"}, ref: Nat, next: Nat]
CallbackCall == [pc: CallbackPlace, session: AuthSession, ref: Nat, next: Nat]
RevokeCall   == [pc: RevokePlace, ref: Nat, next: Nat]
ConnCallType == [pc: {"idle"}] \cup ConnectCall \cup UseCall \cup CallbackCall \cup RevokeCall
SessionRow   == [state: {"absent", "open", "expired", "consumed"}, secretive: BOOLEAN]

ConnTypes ==
    /\ tokens \in Seq(AuthSession \cup {NoSession})
    /\ sessions \in [AuthSession -> SessionRow]
    /\ conn \in [status: {"absent", "active", "required", "revoked"}, ref: 0..Len(tokens)]
    /\ secrets \subseteq 1..Len(tokens)
    /\ connCall \in [ConnCall -> ConnCallType]

\* A credential that was issued for a session consumed it.
IssuedIsConsumed ==
    \A i \in 1..Len(tokens) : tokens[i] # NoSession => sessions[tokens[i]].state = "consumed"

\* A callback between the consumption and the exchange is the only one that may redeem its session.
Redeems(c) == connCall[c].pc \in {"session", "exchange"}
RedeemHolds(c) ==
    Redeems(c) =>
        /\ sessions[Me(c).session].state = "consumed"
        /\ \A i \in 1..Len(tokens) : tokens[i] # Me(c).session
        /\ \A e \in ConnCall : Redeems(e) /\ e # c => Me(e).session # Me(c).session

\* A call that read the reference of the row, or replaced it.
DropPlace    == {"dropRefused", "dropPrevious", "dropRevoked", "dropReplaced"}
KnowingPlace == (UsePlace \ {"select"}) \cup RevokePlace \cup {"dropReplaced"}
Knows(c)     == connCall[c].pc \in KnowingPlace
KnowsHolds(c) ==
    Knows(c) =>
        /\ Me(c).ref <= Len(tokens)
        /\ connCall[c].pc \in DropPlace /\ conn.status = "active" => Me(c).ref # conn.ref

\* A credential that no row names yet is known to nobody but the call that got it.
WritingPlace == {"upsert", "insert", "adopt"}
FreshPlace   == WritingPlace \cup {"put", "store"}
Fresh(c)     == connCall[c].pc \in FreshPlace
FreshHolds(c) ==
    Fresh(c) =>
        /\ Me(c).next \in 1..Len(tokens) /\ Me(c).next # conn.ref
        /\ connCall[c].pc \in WritingPlace => Me(c).next \in secrets
        /\ \A e \in ConnCall : /\ Knows(e) => Me(e).ref # Me(c).next
                               /\ Fresh(e) /\ e # c => Me(e).next # Me(c).next

ConnHolds(c) == RedeemHolds(c) /\ KnowsHolds(c) /\ FreshHolds(c)

ConnInv == /\ ConnTypes /\ IssuedIsConsumed /\ ActiveNamesSecret /\ SessionRedeemedOnce
           /\ \A c \in ConnCall : ConnHolds(c)

LEMMA ConnInitInv == ConnInit => ConnInv
<1> SUFFICES ASSUME ConnInit PROVE ConnInv
  OBVIOUS
<1>1. tokens \in Seq(AuthSession \cup {NoSession}) /\ Len(tokens) = 0
  BY DEF ConnInit, ConnStores
<1>2. ConnTypes
  BY <1>1 DEF ConnInit, ConnStores, ConnTypes, SessionRow, Row, IdleConn, ConnCallType
<1>3. ASSUME NEW c \in ConnCall PROVE ConnHolds(c)
  <2>1. connCall[c].pc = "idle"
    BY DEF ConnInit, ConnStores, IdleConn
  <2>2. QED
    BY <2>1 DEF ConnHolds, RedeemHolds, KnowsHolds, FreshHolds, Redeems, Knows, Fresh, KnowingPlace,
       UsePlace, RevokePlace, FreshPlace, WritingPlace
<1>4. IssuedIsConsumed /\ ActiveNamesSecret /\ SessionRedeemedOnce
  BY <1>1 DEF ConnInit, ConnStores, IssuedIsConsumed, ActiveNamesSecret, SessionRedeemedOnce, Row
<1>5. QED
  BY <1>2, <1>3, <1>4 DEF ConnInv

\* The credentials that a call may name: the row's, the one it read, and its own.
MayName(c, n) ==
    \/ n = 0 \/ n = conn.ref
    \/ Knows(c) /\ n = Me(c).ref
    \/ Fresh(c) /\ n = Me(c).next

LEMMA NamesKnown ==
    ASSUME ConnInv, NEW c \in ConnCall, NEW n, MayName(c, n)
    PROVE  n \in 0..Len(tokens)
<1>1. /\ (Fresh(c) => FreshHolds(c)) /\ (Knows(c) => KnowsHolds(c))
      /\ ConnTypes /\ Len(tokens) \in Nat
  BY DEF ConnInv, ConnHolds, ConnTypes
<1>2. Knows(c) => Me(c).ref \in 0..Len(tokens)
  BY <1>1 DEF KnowsHolds, ConnTypes, Knows, KnowingPlace, UsePlace, RevokePlace, Me, ConnCallType,
     ConnectCall, UseCall, CallbackCall, RevokeCall, CallbackPlace
<1>3. QED
  BY <1>1, <1>2 DEF FreshHolds, MayName, ConnTypes

LEMMA NamesNoOthers ==
    ASSUME ConnInv, NEW c \in ConnCall, NEW e \in ConnCall, e # c, Fresh(e), NEW n, MayName(c, n)
    PROVE  n # Me(e).next
BY DEF ConnInv, ConnHolds, FreshHolds, MayName

\* A call that does not move still holds what it held, whatever another one does with the row, the
\* secrets and the sessions, as long as that one names no credential of others.
LEMMA OthersHold ==
    ASSUME ConnInv, ConnTypes', NEW c \in ConnCall, NEW e \in ConnCall, e # c,
           \A d \in ConnCall : d # c => connCall'[d] = connCall[d],
           Len(tokens) <= Len(tokens'),
           \A i \in 1..Len(tokens') : \/ i <= Len(tokens) /\ tokens'[i] = tokens[i]
                                      \/ tokens'[i] = NoSession
                                      \/ Redeems(c) /\ tokens'[i] = Me(c).session,
           \A s \in AuthSession : sessions[s].state = "consumed" => sessions'[s].state = "consumed",
           \/ conn' = conn \/ conn'.status # "active"
           \/ Fresh(c) /\ conn'.ref = Me(c).next,
           NEW n, n = conn'.ref, MayName(c, n),
           \A m \in secrets : m \notin secrets' => MayName(c, m),
           NEW k, k = Me(c)'.ref, Knows(c)' => MayName(c, k),
           RedeemHolds(c)', FreshHolds(c)'
    PROVE  ConnHolds(e)'
<1>1. /\ ConnHolds(e) /\ ConnHolds(c) /\ ConnTypes /\ Len(tokens) \in Nat /\ Len(tokens') \in Nat
      /\ Me(e)' = Me(e)
  BY DEF ConnInv, ConnTypes, Me
<1>2. RedeemHolds(e)'
  <2> SUFFICES ASSUME Redeems(e) PROVE RedeemHolds(e)'
    BY DEF RedeemHolds, Redeems
  <2>1. /\ sessions[Me(e).session].state = "consumed"
        /\ \A i \in 1..Len(tokens) : tokens[i] # Me(e).session
        /\ Redeems(c) => Me(c).session # Me(e).session
        /\ \A d \in ConnCall : Redeems(d) /\ d # e => Me(d).session # Me(e).session
    BY <1>1 DEF ConnHolds, RedeemHolds
  <2>2. Me(e).session \in AuthSession
    BY <1>1 DEF ConnTypes, Redeems, Me, ConnCallType, ConnectCall, UseCall, CallbackCall, RevokeCall,
       UsePlace, RevokePlace
  <2>3. \A i \in 1..Len(tokens') : tokens'[i] # Me(e).session
    BY <1>1, <2>1, <2>2, ConnAssumption
  <2>4. Redeems(c)' => Me(c)'.session # Me(e).session
    BY <1>1 DEF RedeemHolds, Redeems, Me
  <2>5. ASSUME NEW d \in ConnCall, Redeems(d)', d # e
        PROVE  Me(d)'.session # Me(e).session
    <3>1. CASE d = c
      BY <2>4, <2>5, <3>1
    <3>2. CASE d # c
      BY <2>1, <2>5, <3>2 DEF Redeems, Me
    <3>3. QED
      BY <3>1, <3>2
  <2>6. sessions'[Me(e).session].state = "consumed"
    BY <2>1, <2>2
  <2>7. QED
    BY <1>1, <2>3, <2>5, <2>6 DEF RedeemHolds
<1>3. KnowsHolds(e)'
  <2> SUFFICES ASSUME Knows(e) PROVE KnowsHolds(e)'
    BY DEF KnowsHolds, Knows
  <2>1. /\ Me(e).ref <= Len(tokens)
        /\ connCall[e].pc \in DropPlace /\ conn.status = "active" => Me(e).ref # conn.ref
        /\ Fresh(c) => Me(e).ref # Me(c).next
    BY <1>1 DEF ConnHolds, KnowsHolds, FreshHolds
  <2>2. Me(e).ref \in Nat
    BY <1>1 DEF ConnTypes, Knows, KnowingPlace, UsePlace, RevokePlace, Me, ConnCallType, ConnectCall, UseCall,
       CallbackCall, RevokeCall, CallbackPlace
  <2>3. Me(e).ref <= Len(tokens')
    BY <1>1, <2>1, <2>2
  <2>4. QED
    BY <1>1, <2>1, <2>3 DEF KnowsHolds
<1>4. FreshHolds(e)'
  <2> SUFFICES ASSUME Fresh(e) PROVE FreshHolds(e)'
    BY DEF FreshHolds, Fresh
  <2>1. /\ Me(e).next \in 1..Len(tokens)
        /\ connCall[e].pc \in WritingPlace => Me(e).next \in secrets
    BY <1>1 DEF ConnHolds, FreshHolds
  <2>2. /\ Me(e).next # conn'.ref
        /\ connCall[e].pc \in WritingPlace => Me(e).next \in secrets'
        /\ Knows(c)' => Me(c)'.ref # Me(e).next
    BY <2>1, NamesNoOthers
  <2>3. Fresh(c)' => Me(c)'.next # Me(e).next
    BY <1>1 DEF FreshHolds, Fresh
  <2>4. ASSUME NEW d \in ConnCall
        PROVE  /\ Knows(d)' => Me(d)'.ref # Me(e).next
               /\ Fresh(d)' /\ d # e => Me(d)'.next # Me(e).next
    <3>1. CASE d = c
      BY <2>2, <2>3, <3>1
    <3>2. CASE d # c
      BY <1>1, <3>2 DEF ConnHolds, FreshHolds, Fresh, Knows, Me
    <3>3. QED
      BY <3>1, <3>2
  <2>5. Me(e).next \in 1..Len(tokens')
    BY <1>1, <2>1
  <2>6. QED
    BY <1>1, <2>1, <2>2, <2>4, <2>5 DEF FreshHolds
<1>5. QED
  BY <1>2, <1>3, <1>4 DEF ConnHolds

\* A step of one call that issues no credential.
LEMMA ConnMoveInv ==
    ASSUME ConnInv, NEW c \in ConnCall, NEW r \in ConnCallType, CSet(c, r), UNCHANGED tokens,
           sessions' \in [AuthSession -> SessionRow],
           \A s \in AuthSession : sessions[s].state = "consumed" => sessions'[s].state = "consumed",
           conn' \in [status: {"absent", "active", "required", "revoked"}, ref: 0..Len(tokens)],
           \/ conn' = conn \/ conn'.status # "active"
           \/ Fresh(c) /\ conn'.ref = Me(c).next /\ Me(c).next \in secrets' \cup lostWrites',
           lostWrites \subseteq lostWrites',
           MayName(c, conn'.ref),
           secrets' \subseteq 1..Len(tokens),
           \A m \in secrets : m \notin secrets' =>
             MayName(c, m) /\ (conn' = conn /\ conn.status = "active" => m # conn.ref),
           r.pc \in KnowingPlace => MayName(c, r.ref),
           r.pc \in DropPlace /\ conn'.status = "active" => r.ref # conn'.ref,
           r.pc \in FreshPlace =>
             /\ Fresh(c) /\ r.next = Me(c).next /\ conn'.ref # r.next
             /\ r.pc \in WritingPlace => r.next \in secrets'
             /\ r.pc \in KnowingPlace => r.ref # r.next,
           r.pc \in {"session", "exchange"} =>
             /\ sessions'[r.session].state = "consumed" /\ r.session \in AuthSession
             /\ \/ Redeems(c) /\ r.session = Me(c).session
                \/ sessions[r.session].state = "open"
    PROVE  ConnInv'
<1>1. /\ connCall'[c] = r /\ Me(c)' = r
      /\ \A e \in ConnCall : e # c => connCall'[e] = connCall[e] /\ Me(e)' = Me(e)
      /\ Len(tokens) \in Nat
  BY DEF ConnInv, ConnTypes, CSet, Me
<1>2. ConnTypes'
  BY DEF ConnInv, ConnTypes, CSet
<1>3. IssuedIsConsumed'
  <2> SUFFICES ASSUME NEW i \in 1..Len(tokens), tokens[i] # NoSession
               PROVE  sessions'[tokens[i]].state = "consumed"
    BY DEF IssuedIsConsumed
  <2>1. sessions[tokens[i]].state = "consumed" /\ tokens[i] \in AuthSession
    BY DEF ConnInv, IssuedIsConsumed, ConnTypes
  <2>2. QED
    BY <2>1
<1>4. ActiveNamesSecret'
  BY DEF ConnInv, ActiveNamesSecret
<1>5. SessionRedeemedOnce'
  BY DEF ConnInv, SessionRedeemedOnce
<1>6. RedeemHolds(c)'
  <2> SUFFICES ASSUME r.pc \in {"session", "exchange"} PROVE RedeemHolds(c)'
    BY <1>1 DEF RedeemHolds, Redeems
  <2>1. CASE Redeems(c) /\ r.session = Me(c).session
    BY <1>1, <2>1 DEF ConnInv, ConnHolds, RedeemHolds, Redeems
  <2>2. CASE sessions[r.session].state = "open"
    <3>1. \A i \in 1..Len(tokens) : tokens[i] # r.session
      BY <2>2, ConnAssumption DEF ConnInv, IssuedIsConsumed
    <3>2. \A e \in ConnCall : Redeems(e) => Me(e).session # r.session
      BY <2>2 DEF ConnInv, ConnHolds, RedeemHolds
    <3>3. QED
      BY <1>1, <3>1, <3>2 DEF RedeemHolds, Redeems
  <2>3. QED
    BY <2>1, <2>2
<1>7. KnowsHolds(c)'
  <2>1. r.pc \in KnowingPlace => r.ref <= Len(tokens)
    BY <1>1, NamesKnown
  <2>2. QED
    BY <1>1, <2>1 DEF KnowsHolds, Knows
<1>8. FreshHolds(c)'
  <2> SUFFICES ASSUME r.pc \in FreshPlace PROVE FreshHolds(c)'
    BY <1>1 DEF FreshHolds, Fresh
  <2>1. FreshHolds(c) /\ Fresh(c)
    BY DEF ConnInv, ConnHolds
  <2>2. ASSUME NEW d \in ConnCall
        PROVE  /\ Knows(d)' => Me(d)'.ref # r.next
               /\ Fresh(d)' /\ d # c => Me(d)'.next # r.next
    BY <1>1, <2>1 DEF FreshHolds, Fresh, Knows, Me
  <2>3. QED
    BY <1>1, <2>1, <2>2 DEF FreshHolds
<1>9. ASSUME NEW e \in ConnCall, e # c PROVE ConnHolds(e)'
  <2>1. PICK n, k : n = conn'.ref /\ k = Me(c)'.ref
    OBVIOUS
  <2>2. MayName(c, n) /\ (Knows(c)' => MayName(c, k))
    BY <1>1, <2>1 DEF Knows
  <2>3. \A i \in 1..Len(tokens') : i <= Len(tokens) /\ tokens'[i] = tokens[i]
    BY <1>1
  <2>4. QED
    BY <1>1, <1>2, <1>6, <1>8, <1>9, <2>1, <2>2, <2>3, OthersHold
<1>10. QED
  BY <1>2, <1>3, <1>4, <1>5, <1>6, <1>7, <1>8, <1>9 DEF ConnInv, ConnHolds

\* A step of one call that is issued a credential.
LEMMA ConnIssueInv ==
    ASSUME ConnInv, NEW c \in ConnCall, NEW r \in ConnCallType, CSet(c, r),
           NEW t, tokens' = Append(tokens, t),
           t = NoSession \/ (Redeems(c) /\ t = Me(c).session /\ t \in AuthSession),
           UNCHANGED <<sessions, conn, secrets, lostWrites>>,
           r.pc \in {"put", "store"}, r.next = Len(tokens) + 1,
           r.pc = "store" => Knows(c) /\ r.ref = Me(c).ref
    PROVE  ConnInv'
<1>1. /\ connCall'[c] = r /\ Me(c)' = r
      /\ \A e \in ConnCall : e # c => connCall'[e] = connCall[e] /\ Me(e)' = Me(e)
      /\ Len(tokens) \in Nat /\ tokens \in Seq(AuthSession \cup {NoSession})
  BY DEF ConnInv, ConnTypes, CSet, Me
<1>2. /\ tokens' \in Seq(AuthSession \cup {NoSession}) /\ Len(tokens') = Len(tokens) + 1
      /\ \A i \in 1..Len(tokens) : tokens'[i] = tokens[i]
      /\ tokens'[Len(tokens) + 1] = t
  BY <1>1
<1>3. ConnTypes'
  BY <1>1, <1>2 DEF ConnInv, ConnTypes, CSet
<1>4. Redeems(c) => RedeemHolds(c)
  BY DEF ConnInv, ConnHolds
<1>5. IssuedIsConsumed'
  BY <1>1, <1>2, <1>4 DEF ConnInv, IssuedIsConsumed, RedeemHolds
<1>6. ActiveNamesSecret'
  BY DEF ConnInv, ActiveNamesSecret
<1>7. SessionRedeemedOnce'
  BY <1>1, <1>2, <1>4 DEF ConnInv, SessionRedeemedOnce, RedeemHolds
<1>8. RedeemHolds(c)'
  BY <1>1 DEF RedeemHolds, Redeems
<1>9. ASSUME NEW n, MayName(c, n) PROVE n # Len(tokens) + 1
  BY <1>1, <1>9, NamesKnown
<1>10. KnowsHolds(c)'
  <2>1. r.pc = "store" => MayName(c, r.ref)
    BY DEF MayName
  <2>2. r.pc = "store" => r.ref <= Len(tokens')
    BY <1>1, <1>2, <2>1, NamesKnown
  <2>3. QED
    BY <1>1, <2>2 DEF KnowsHolds, Knows, KnowingPlace, UsePlace, RevokePlace, DropPlace
<1>11. FreshHolds(c)'
  <2>1. \A d \in ConnCall : Knows(d) => Me(d).ref # Len(tokens) + 1
    BY <1>1, NamesKnown DEF MayName
  <2>2. \A d \in ConnCall : Fresh(d) => Me(d).next # Len(tokens) + 1
    BY <1>1, NamesKnown DEF MayName
  <2>3. conn.ref # Len(tokens) + 1
    BY <1>1, NamesKnown DEF MayName
  <2>4. ASSUME NEW d \in ConnCall
        PROVE  /\ Knows(d)' => Me(d)'.ref # r.next
               /\ Fresh(d)' /\ d # c => Me(d)'.next # r.next
    <3>1. CASE d = c
      BY <1>1, <2>1, <3>1 DEF Knows, KnowingPlace, UsePlace, RevokePlace
    <3>2. CASE d # c
      BY <1>1, <2>1, <2>2, <3>2 DEF Fresh, Knows, Me
    <3>3. QED
      BY <3>1, <3>2
  <2>5. QED
    BY <1>1, <1>2, <2>3, <2>4 DEF FreshHolds, WritingPlace
<1>12. ASSUME NEW e \in ConnCall, e # c PROVE ConnHolds(e)'
  <2>1. PICK n, k : n = conn'.ref /\ k = Me(c)'.ref
    OBVIOUS
  <2>2. MayName(c, n) /\ (Knows(c)' => MayName(c, k))
    BY <1>1, <2>1 DEF Knows, MayName, KnowingPlace, UsePlace, RevokePlace
  <2>3. QED
    BY <1>1, <1>2, <1>3, <1>8, <1>11, <1>12, <2>1, <2>2, OthersHold
<1>13. QED
  BY <1>3, <1>5, <1>6, <1>7, <1>8, <1>10, <1>11, <1>12 DEF ConnInv, ConnHolds

\* What a call is, by where it stands, and what it keeps when it goes on.
LEMMA ConnShape ==
    ASSUME ConnInv, NEW c \in ConnCall
    PROVE  /\ connCall[c].pc \in UsePlace \cup {"start", "register"}
                => connCall[c] \in ConnectCall \cup UseCall
           /\ connCall[c].pc \in CallbackPlace => connCall[c] \in CallbackCall
           /\ connCall[c].pc \in RevokePlace => connCall[c] \in RevokeCall
           /\ connCall[c].pc \in {"start", "register"} => connCall[c] \in ConnectCall
BY DEF ConnInv, ConnTypes, ConnCallType, ConnectCall, UseCall, CallbackCall, RevokeCall, UsePlace,
   CallbackPlace, RevokePlace

LEMMA ConnGoes ==
    ASSUME ConnInv, NEW c \in ConnCall, NEW x, CGo(c, x),
           \/ connCall[c].pc \in UsePlace /\ x \in UsePlace
           \/ connCall[c].pc \in UsePlace /\ x = "start" /\ Me(c).then = "start"
           \/ connCall[c].pc \in CallbackPlace /\ x \in CallbackPlace
           \/ connCall[c].pc \in RevokePlace /\ x \in RevokePlace
    PROVE  \E r \in ConnCallType :
             /\ CSet(c, r) /\ r.pc = x /\ r.ref = Me(c).ref /\ r.next = Me(c).next
             /\ connCall[c].pc \in CallbackPlace =>
                  r.session = Me(c).session /\ r.session \in AuthSession
<1>1. PICK r : r = [connCall[c] EXCEPT !.pc = x]
  OBVIOUS
<1>2. CSet(c, r)
  BY <1>1 DEF CGo
<1>3. CASE connCall[c].pc \in UsePlace
  BY <1>1, <1>2, <1>3, ConnShape DEF ConnCallType, ConnectCall, UseCall, Me, UsePlace, CallbackPlace,
     RevokePlace
<1>4. CASE connCall[c].pc \in CallbackPlace
  BY <1>1, <1>2, <1>4, ConnShape DEF ConnCallType, CallbackCall, Me, UsePlace, CallbackPlace, RevokePlace
<1>5. CASE connCall[c].pc \in RevokePlace
  BY <1>1, <1>2, <1>5, ConnShape DEF ConnCallType, RevokeCall, Me, UsePlace, CallbackPlace, RevokePlace
<1>6. QED
  BY <1>3, <1>4, <1>5

\* A step that leaves the stores alone.
LEMMA ConnPlainInv ==
    ASSUME ConnInv, NEW c \in ConnCall, NEW r \in ConnCallType, CSet(c, r),
           UNCHANGED <<tokens, sessions, secrets, conn, lostWrites>>,
           r.pc \in KnowingPlace => MayName(c, r.ref),
           r.pc \notin DropPlace, r.pc \notin FreshPlace,
           r.pc \in {"session", "exchange"} =>
             Redeems(c) /\ r.session = Me(c).session /\ r.session \in AuthSession
    PROVE  ConnInv'
<1>1. ConnInv /\ ConnTypes
  BY DEF ConnInv
<1>2. MayName(c, conn'.ref)
  BY DEF MayName
<1>3. r.pc \in {"session", "exchange"} => sessions'[r.session].state = "consumed"
  BY DEF ConnInv, ConnHolds, RedeemHolds
<1>4. QED
  BY <1>1, <1>2, <1>3, ConnMoveInv DEF ConnTypes

\* A call that ends, and keeps the row and the secrets that matter.
LEMMA ConnEndsInv ==
    ASSUME ConnInv, NEW c \in ConnCall, CEnd(c), UNCHANGED <<tokens, sessions, conn, lostWrites>>,
           secrets' \subseteq secrets,
           \A m \in secrets : m \notin secrets' => MayName(c, m) /\ (conn.status = "active" => m # conn.ref)
    PROVE  ConnInv'
<1>1. IdleConn \in ConnCallType /\ IdleConn.pc = "idle"
  BY DEF IdleConn, ConnCallType
<1>2. CSet(c, IdleConn) /\ ConnTypes /\ MayName(c, conn'.ref)
  BY DEF CEnd, ConnInv, MayName
<1>3. IdleConn.pc \notin KnowingPlace \cup DropPlace \cup FreshPlace \cup {"session", "exchange"}
  BY <1>1 DEF KnowingPlace, UsePlace, RevokePlace, DropPlace, FreshPlace, WritingPlace
<1>4. secrets' \subseteq 1..Len(tokens)
  BY <1>2 DEF ConnTypes
<1>5. QED
  BY <1>1, <1>2, <1>3, <1>4, ConnMoveInv DEF ConnTypes

\* Steps of the world: no call moves.
LEMMA WorldInv ==
    ASSUME ConnInv, UNCHANGED <<tokens, secrets, conn, connCall, lostWrites>>,
           sessions' \in [AuthSession -> SessionRow],
           \A s \in AuthSession : sessions[s].state = "consumed" => sessions'[s].state = "consumed"
    PROVE  ConnInv'
<1>1. ConnTypes'
  BY DEF ConnInv, ConnTypes
<1>2. IssuedIsConsumed'
  BY DEF ConnInv, IssuedIsConsumed, ConnTypes
<1>3. ActiveNamesSecret' /\ SessionRedeemedOnce'
  BY DEF ConnInv, ActiveNamesSecret, SessionRedeemedOnce
<1>4. ASSUME NEW c \in ConnCall PROVE ConnHolds(c)'
  <2>1. ConnHolds(c)
    BY DEF ConnInv
  <2>2. Redeems(c) => Me(c).session \in AuthSession
    BY ConnShape DEF Redeems, Me, CallbackPlace, CallbackCall
  <2>3. RedeemHolds(c)'
    BY <2>1, <2>2 DEF ConnHolds, RedeemHolds, Redeems, Me
  <2>4. KnowsHolds(c)' /\ FreshHolds(c)'
    BY <2>1 DEF ConnHolds, KnowsHolds, FreshHolds, Knows, Fresh, Me
  <2>5. QED
    BY <2>3, <2>4 DEF ConnHolds
<1>5. QED
  BY <1>1, <1>2, <1>3, <1>4 DEF ConnInv

LEMMA WorldStepsInv ==
    ASSUME ConnInv, \/ ArchiveSource
                    \/ \E t \in 1..Len(tokens) : ExpireToken(t)
                    \/ \E s \in AuthSession : ExpireSession(s)
    PROVE  ConnInv'
<1>1. UNCHANGED <<tokens, secrets, conn, connCall, lostWrites>>
  BY DEF ArchiveSource, ExpireToken, ExpireSession, world, stores
<1>2. sessions' = sessions \/ \E s \in AuthSession :
        sessions[s].state = "open" /\ sessions' = [sessions EXCEPT ![s].state = "expired"]
  BY DEF ArchiveSource, ExpireToken, ExpireSession, world, stores
<1>3. /\ sessions' \in [AuthSession -> SessionRow]
      /\ \A s \in AuthSession : sessions[s].state = "consumed" => sessions'[s].state = "consumed"
  BY <1>2 DEF ConnInv, ConnTypes, SessionRow
<1>4. QED
  BY <1>1, <1>3, WorldInv

LEMMA BeginConnInv ==
    ASSUME ConnInv, NEW c \in ConnCall,
           \/ \E s \in AuthSession : Connect(c, s) \/ Callback(c, s)
           \/ Use(c) \/ Disconnect(c)
    PROVE  ConnInv'
<1>1. UNCHANGED <<tokens, sessions, secrets, conn, lostWrites>>
  BY DEF Connect, Callback, Use, Disconnect, world, stores
<1>2. PICK r : /\ CSet(c, r)
               /\ \/ \E s \in AuthSession, pc \in {"select", "start"} :
                       r = [pc |-> pc, then |-> "start", session |-> s, ref |-> 0, next |-> 0]
                  \/ \E s \in AuthSession : r = [pc |-> "consume", session |-> s, ref |-> 0, next |-> 0]
                  \/ r = [pc |-> "select", then |-> "fail", ref |-> 0, next |-> 0]
                  \/ r = [pc |-> "revoke", ref |-> conn.ref, next |-> 0]
  BY DEF Connect, Callback, Use, Disconnect, CBegin
<1>3. /\ r \in ConnCallType /\ r.pc \in {"select", "start", "consume", "revoke"}
      /\ r.pc = "revoke" => MayName(c, r.ref)
  BY <1>2 DEF ConnInv, ConnTypes, ConnCallType, ConnectCall, UseCall, CallbackCall, RevokeCall, UsePlace,
     CallbackPlace, RevokePlace, MayName
<1>4. QED
  BY <1>1, <1>2, <1>3, ConnPlainInv DEF KnowingPlace, UsePlace, RevokePlace, DropPlace, FreshPlace, WritingPlace

LEMMA StartInv ==
    ASSUME ConnInv, NEW c \in ConnCall, NEW secretive \in BOOLEAN, Start(c, secretive)
    PROVE  ConnInv'
<1>1. UNCHANGED <<tokens, sessions, secrets, conn, lostWrites>> /\ connCall[c].pc = "start"
  BY DEF Start, world, CAt
<1>2. PICK r : /\ CSet(c, r)
               /\ r = [connCall[c] EXCEPT !.pc = "register", !.ref = IF secretive THEN 1 ELSE 0]
  BY DEF Start, Me
<1>3. r \in ConnCallType /\ r.pc = "register"
  BY <1>1, <1>2, ConnShape DEF ConnCallType, ConnectCall
<1>4. QED
  BY <1>1, <1>2, <1>3, ConnPlainInv DEF KnowingPlace, UsePlace, RevokePlace, DropPlace, FreshPlace, WritingPlace

LEMMA RegisterInv ==
    ASSUME ConnInv, NEW c \in ConnCall, Register(c)
    PROVE  ConnInv'
<1>1. /\ UNCHANGED <<tokens, secrets, conn, lostWrites>> /\ connCall[c].pc = "register"
      /\ CSet(c, IdleConn)
  BY DEF Register, world, CAt, CEnd
<1>2. PICK s, row : s = Me(c).session /\ row = [state |-> "open", secretive |-> Me(c).ref = 1]
  OBVIOUS
<1>3. /\ row \in SessionRow
      /\ \/ sessions' = sessions
         \/ sessions[s].state = "absent" /\ sessions' = [sessions EXCEPT ![s] = row]
  <2>1. (Me(c).ref = 1) \in BOOLEAN
    OBVIOUS
  <2>2. row \in SessionRow
    BY <1>2, <2>1 DEF SessionRow
  <2>3. QED
    BY <1>2, <2>2 DEF Register
<1>4. /\ sessions' \in [AuthSession -> SessionRow]
      /\ \A t \in AuthSession : sessions[t].state = "consumed" => sessions'[t].state = "consumed"
  BY <1>3 DEF ConnInv, ConnTypes
<1>5. IdleConn \in ConnCallType /\ IdleConn.pc = "idle" /\ MayName(c, conn'.ref)
  BY <1>1 DEF IdleConn, ConnCallType, MayName
<1>6. IdleConn.pc \notin KnowingPlace \cup DropPlace \cup FreshPlace \cup {"session", "exchange"}
  BY <1>5 DEF KnowingPlace, UsePlace, RevokePlace, DropPlace, FreshPlace, WritingPlace
<1>7. QED
  BY <1>1, <1>4, <1>5, <1>6, ConnMoveInv DEF ConnInv, ConnTypes

LEMMA ConsumeInv ==
    ASSUME ConnInv, NEW c \in ConnCall, Consume(c)
    PROVE  ConnInv'
<1>1. UNCHANGED <<tokens, secrets, conn, lostWrites>> /\ connCall[c].pc = "consume"
  BY DEF Consume, world, CAt
<1>2. CASE CEnd(c) /\ UNCHANGED sessions
  BY <1>1, <1>2, ConnEndsInv
<1>3. CASE ~(CEnd(c) /\ UNCHANGED sessions)
  <2>1. PICK s : s = Me(c).session
    OBVIOUS
  <2>2. /\ sessions[s].state = "open" /\ sessions' = [sessions EXCEPT ![s].state = "consumed"]
        /\ CGo(c, "session")
    BY <1>3, <2>1 DEF Consume
  <2>3. PICK r \in ConnCallType : CSet(c, r) /\ r.pc = "session" /\ r.session = s /\ s \in AuthSession
    BY <1>1, <2>1, <2>2, ConnGoes DEF CallbackPlace
  <2>4. /\ sessions' \in [AuthSession -> SessionRow]
        /\ \A t \in AuthSession : sessions[t].state = "consumed" => sessions'[t].state = "consumed"
        /\ sessions'[s].state = "consumed"
    BY <2>2, <2>3 DEF ConnInv, ConnTypes, SessionRow
  <2>5. MayName(c, conn'.ref)
    BY <1>1 DEF MayName
  <2>6. r.pc \notin KnowingPlace \cup DropPlace \cup FreshPlace
    BY <2>3 DEF KnowingPlace, UsePlace, RevokePlace, DropPlace, FreshPlace, WritingPlace
  <2>7. QED
    BY <1>1, <2>2, <2>3, <2>4, <2>5, <2>6, ConnMoveInv DEF ConnInv, ConnTypes
<1>4. QED
  BY <1>2, <1>3

LEMMA SessionSecretInv ==
    ASSUME ConnInv, NEW c \in ConnCall, SessionSecret(c) \/ EndSession(c) \/ InterruptConn(c)
    PROVE  ConnInv'
<1>1. UNCHANGED <<tokens, sessions, secrets, conn, lostWrites>>
  BY DEF SessionSecret, EndSession, InterruptConn, world, stores
<1>2. CASE CEnd(c)
  BY <1>1, <1>2, ConnEndsInv
<1>3. CASE ~CEnd(c)
  <2>1. CGo(c, "exchange") /\ connCall[c].pc = "session"
    BY <1>3 DEF SessionSecret, EndSession, InterruptConn, CAt
  <2>2. PICK r \in ConnCallType :
          CSet(c, r) /\ r.pc = "exchange" /\ r.session = Me(c).session /\ r.session \in AuthSession
    BY <2>1, ConnGoes DEF CallbackPlace
  <2>3. QED
    BY <1>1, <2>1, <2>2, ConnPlainInv DEF Redeems, KnowingPlace, UsePlace, RevokePlace, DropPlace,
       FreshPlace, WritingPlace
<1>4. QED
  BY <1>2, <1>3

LEMMA ExchangeInv ==
    ASSUME ConnInv, NEW c \in ConnCall, Exchange(c)
    PROVE  ConnInv'
<1>1. UNCHANGED <<sessions, secrets, conn, lostWrites>> /\ connCall[c].pc = "exchange"
  BY DEF Exchange, stores, CAt
<1>2. CASE CGo(c, "endSession") /\ UNCHANGED tokens
  <2>1. PICK r \in ConnCallType : CSet(c, r) /\ r.pc = "endSession"
    BY <1>1, <1>2, ConnGoes DEF CallbackPlace
  <2>2. QED
    BY <1>1, <1>2, <2>1, ConnPlainInv DEF KnowingPlace, UsePlace, RevokePlace, DropPlace, FreshPlace,
       WritingPlace
<1>3. CASE ~(CGo(c, "endSession") /\ UNCHANGED tokens)
  <2>1. PICK n : n = Len(tokens) + 1 /\ n \in Nat
    BY DEF ConnInv, ConnTypes
  <2>2. PICK r : /\ CSet(c, r) /\ r = [connCall[c] EXCEPT !.pc = "put", !.next = n]
                 /\ tokens' = Append(tokens, Me(c).session)
    BY <1>3, <2>1 DEF Exchange, Issue, Me
  <2>3. r \in ConnCallType /\ r.pc = "put" /\ r.next = n /\ Me(c).session \in AuthSession
    BY <1>1, <2>1, <2>2, ConnShape DEF ConnCallType, CallbackCall, CallbackPlace, Me
  <2>4. QED
    BY <1>1, <2>1, <2>2, <2>3, ConnIssueInv DEF Redeems
<1>4. QED
  BY <1>2, <1>3

LEMMA PutInv ==
    ASSUME ConnInv, NEW c \in ConnCall, Put(c) \/ StoreRefreshed(c)
    PROVE  ConnInv'
<1>1. /\ UNCHANGED <<tokens, sessions, conn, lostWrites>> /\ secrets' = secrets \cup {Me(c).next}
      /\ \/ connCall[c].pc = "put" /\ CGo(c, "upsert")
         \/ connCall[c].pc = "store" /\ CGo(c, "adopt")
  BY DEF Put, StoreRefreshed, PutSecret, world, CAt
<1>2. FreshHolds(c) /\ Fresh(c)
  BY <1>1 DEF ConnInv, ConnHolds, Fresh, FreshPlace
<1>3. PICK r \in ConnCallType :
        /\ CSet(c, r) /\ r.ref = Me(c).ref /\ r.next = Me(c).next
        /\ \/ connCall[c].pc = "put" /\ r.pc = "upsert"
           \/ connCall[c].pc = "store" /\ r.pc = "adopt"
  BY <1>1, ConnGoes DEF CallbackPlace, UsePlace
<1>4. /\ r.next \in secrets' /\ conn'.ref # r.next /\ secrets' \subseteq 1..Len(tokens)
      /\ MayName(c, conn'.ref)
  BY <1>1, <1>2, <1>3 DEF FreshHolds, MayName, ConnInv, ConnTypes
<1>5. r.pc \in KnowingPlace => MayName(c, r.ref) /\ r.ref # r.next
  BY <1>2, <1>3 DEF MayName, FreshHolds, Knows, KnowingPlace, UsePlace, RevokePlace
<1>6. r.pc \notin DropPlace \cup {"session", "exchange"}
  BY <1>3 DEF DropPlace
<1>7. QED
  BY <1>1, <1>2, <1>3, <1>4, <1>5, <1>6, ConnMoveInv DEF ConnInv, ConnTypes

\* The row takes a credential of the caller's own, and what it named before may go.
LEMMA UpsertInv ==
    ASSUME ConnInv, NEW c \in ConnCall, Upsert(c)
    PROVE  ConnInv'
<1>1. /\ UNCHANGED <<tokens, sessions, secrets, lostWrites>> /\ connCall[c].pc = "upsert"
  BY DEF Upsert, world, CAt
<1>2. /\ FreshHolds(c) /\ Fresh(c) /\ Me(c).next \in secrets /\ Me(c).next # conn.ref
      /\ Me(c).next \in 1..Len(tokens) /\ ConnTypes
  BY <1>1 DEF ConnInv, ConnHolds, FreshHolds, Fresh, FreshPlace, WritingPlace
<1>3. CASE conn.status = "absent"
  <2>1. PICK r \in ConnCallType : CSet(c, r) /\ r.pc = "insert" /\ r.next = Me(c).next
    BY <1>1, <1>3, ConnGoes DEF CallbackPlace, Upsert
  <2>2. conn' = conn /\ MayName(c, conn'.ref)
    BY <1>3 DEF Upsert, MayName
  <2>3. r.pc \notin KnowingPlace \cup DropPlace \cup {"session", "exchange"}
    BY <2>1 DEF DropPlace, KnowingPlace, UsePlace, RevokePlace
  <2>4. QED
    BY <1>1, <1>2, <2>1, <2>2, <2>3, ConnMoveInv DEF ConnTypes
<1>4. CASE conn.status # "absent"
  <2>0. PICK n \in Nat : n = conn.ref
    BY <1>2 DEF ConnTypes
  <2>1. PICK r : /\ CSet(c, r) /\ r = [connCall[c] EXCEPT !.pc = "dropReplaced", !.ref = n]
                 /\ conn' = [status |-> "active", ref |-> Me(c).next]
    BY <1>4, <2>0 DEF Upsert, UpdateConnection, Row, Me
  <2>2. r \in ConnCallType /\ r.pc = "dropReplaced" /\ r.ref = conn.ref
    BY <1>1, <2>0, <2>1, ConnShape DEF ConnCallType, CallbackCall, CallbackPlace
  <2>3. /\ conn'.ref = Me(c).next /\ MayName(c, conn'.ref) /\ MayName(c, r.ref)
        /\ conn' \in [status: {"absent", "active", "required", "revoked"}, ref: 0..Len(tokens)]
    BY <1>2, <2>1, <2>2 DEF MayName
  <2>4. r.pc \notin FreshPlace \cup {"session", "exchange"}
    BY <2>2 DEF FreshPlace, WritingPlace
  <2>5. QED
    BY <1>1, <1>2, <2>1, <2>2, <2>3, <2>4, ConnMoveInv DEF ConnTypes
<1>5. QED
  BY <1>3, <1>4

LEMMA InsertConnInv ==
    ASSUME ConnInv, NEW c \in ConnCall, Insert(c) \/ Adopt(c)
    PROVE  ConnInv'
<1>1. /\ UNCHANGED <<tokens, sessions, secrets, lostWrites>> /\ connCall[c].pc \in {"insert", "adopt"}
      /\ conn' = [status |-> "active", ref |-> Me(c).next]
      /\ \/ connCall[c].pc = "insert" /\ CGo(c, "endSession")
         \/ connCall[c].pc = "adopt" /\ CGo(c, "dropPrevious")
  BY DEF Insert, Adopt, UpdateConnection, Row, world, CAt
<1>2. /\ FreshHolds(c) /\ Fresh(c) /\ Me(c).next \in secrets
      /\ Me(c).next \in 1..Len(tokens) /\ ConnTypes
  BY <1>1 DEF ConnInv, ConnHolds, FreshHolds, Fresh, FreshPlace, WritingPlace
<1>3. PICK r \in ConnCallType :
        /\ CSet(c, r) /\ r.ref = Me(c).ref
        /\ \/ connCall[c].pc = "insert" /\ r.pc = "endSession"
           \/ connCall[c].pc = "adopt" /\ r.pc = "dropPrevious"
  BY <1>1, ConnGoes DEF CallbackPlace, UsePlace
<1>4. /\ conn'.ref = Me(c).next /\ MayName(c, conn'.ref)
      /\ conn' \in [status: {"absent", "active", "required", "revoked"}, ref: 0..Len(tokens)]
  BY <1>1, <1>2 DEF MayName
<1>5. r.pc \in KnowingPlace \cup DropPlace => MayName(c, r.ref) /\ r.ref # conn'.ref
  BY <1>1, <1>2, <1>3, <1>4 DEF MayName, FreshHolds, Knows, KnowingPlace, UsePlace, RevokePlace, DropPlace
<1>6. r.pc \notin FreshPlace \cup {"session", "exchange"}
  BY <1>3 DEF FreshPlace, WritingPlace
<1>7. QED
  BY <1>1, <1>2, <1>3, <1>4, <1>5, <1>6, ConnMoveInv DEF ConnTypes

\* A credential goes when the row has let go of it.
LEMMA DropInv ==
    ASSUME ConnInv, NEW c \in ConnCall,
           DropReplaced(c) \/ DropRefused(c) \/ DropPrevious(c) \/ DropRevoked(c)
    PROVE  ConnInv'
<1>1. /\ UNCHANGED <<tokens, sessions, conn, lostWrites>>
      /\ connCall[c].pc \in DropPlace /\ DeleteSecret(Me(c).ref)
      /\ \/ connCall[c].pc = "dropReplaced" /\ CGo(c, "endSession")
         \/ connCall[c].pc = "dropRefused" /\ Required(c)
         \/ CEnd(c)
  BY DEF DropReplaced, DropRefused, DropPrevious, DropRevoked, world, CAt, DropPlace
<1>2. KnowsHolds(c) /\ Knows(c) /\ ConnTypes
  BY <1>1 DEF ConnInv, ConnHolds, Knows, KnowingPlace, DropPlace, UsePlace, RevokePlace
<1>3. /\ secrets' \subseteq secrets
      /\ \A m \in secrets : m \notin secrets' => MayName(c, m) /\ (conn.status = "active" => m # conn.ref)
  BY <1>1, <1>2 DEF DeleteSecret, MayName, KnowsHolds
<1>4. CASE CEnd(c)
  BY <1>1, <1>3, <1>4, ConnEndsInv
<1>5. CASE ~CEnd(c)
  <2>1. PICK r \in ConnCallType : CSet(c, r) /\ r.pc \in {"endSession", "start"}
    BY <1>1, <1>5, ConnGoes DEF Required, CallbackPlace, UsePlace
  <2>2. MayName(c, conn'.ref) /\ secrets' \subseteq 1..Len(tokens)
    BY <1>1, <1>2, <1>3 DEF MayName, ConnTypes
  <2>3. r.pc \notin KnowingPlace \cup DropPlace \cup FreshPlace \cup {"session", "exchange"}
    BY <2>1 DEF KnowingPlace, UsePlace, RevokePlace, DropPlace, FreshPlace, WritingPlace
  <2>4. QED
    BY <1>1, <1>2, <1>3, <2>1, <2>2, <2>3, ConnMoveInv DEF ConnTypes
<1>6. QED
  BY <1>4, <1>5

LEMMA SelectInv ==
    ASSUME ConnInv, NEW c \in ConnCall, SelectConnection(c) \/ ReadSecret(c) \/ Revoke(c) \/ SkipRevoke(c)
    PROVE  ConnInv'
<1>1. UNCHANGED <<tokens, sessions, secrets, conn, lostWrites>>
  BY DEF SelectConnection, ReadSecret, Revoke, SkipRevoke, world, stores
<1>2. CASE CEnd(c)
  BY <1>1, <1>2, ConnEndsInv
<1>3. CASE ~CEnd(c)
  <2>1. \/ connCall[c].pc = "select" /\ Me(c).then = "start" /\ CGo(c, "start")
        \/ connCall[c].pc = "secret" /\ \E x \in {"missing", "refresh", "demote"} : CGo(c, x)
        \/ connCall[c].pc = "revoke" /\ CGo(c, "mark")
        \/ connCall[c].pc = "select" /\ CSet(c, [Me(c) EXCEPT !.pc = "secret", !.ref = conn.ref])
    BY <1>3 DEF SelectConnection, ReadSecret, Revoke, SkipRevoke, Required, CAt
  <2>2. CASE connCall[c].pc = "select" /\ CSet(c, [Me(c) EXCEPT !.pc = "secret", !.ref = conn.ref])
    <3>1. PICK n \in Nat : n = conn.ref
      BY DEF ConnInv, ConnTypes
    <3>2. PICK r : r = [connCall[c] EXCEPT !.pc = "secret", !.ref = n] /\ CSet(c, r)
      BY <2>2, <3>1 DEF Me
    <3>3. r \in ConnCallType /\ r.pc = "secret" /\ MayName(c, r.ref)
      BY <2>2, <3>1, <3>2, ConnShape DEF ConnCallType, ConnectCall, UseCall, UsePlace, MayName
    <3>4. r.pc \notin DropPlace \cup FreshPlace \cup {"session", "exchange"}
      BY <3>3 DEF DropPlace, FreshPlace, WritingPlace
    <3>5. QED
      BY <1>1, <3>2, <3>3, <3>4, ConnPlainInv
  <2>3. CASE ~(connCall[c].pc = "select" /\ CSet(c, [Me(c) EXCEPT !.pc = "secret", !.ref = conn.ref]))
    <3>1. PICK r \in ConnCallType :
            /\ CSet(c, r) /\ r.ref = Me(c).ref
            /\ \/ r.pc = "start"
               \/ connCall[c].pc \in {"secret", "revoke"} /\ r.pc \in {"missing", "refresh", "demote", "mark"}
      BY <2>1, <2>3, ConnGoes DEF UsePlace, RevokePlace
    <3>2. r.pc \in KnowingPlace => MayName(c, r.ref)
      BY <3>1 DEF MayName, Knows, KnowingPlace, UsePlace, RevokePlace
    <3>3. r.pc \notin DropPlace \cup FreshPlace \cup {"session", "exchange"}
      BY <3>1 DEF DropPlace, FreshPlace, WritingPlace
    <3>4. QED
      BY <1>1, <3>1, <3>2, <3>3, ConnPlainInv
  <2>4. QED
    BY <2>2, <2>3
<1>4. QED
  BY <1>2, <1>3

\* The row is written so that it is not active: whatever it named may go.
LEMMA DeactivateInv ==
    ASSUME ConnInv, NEW c \in ConnCall, Missing(c) \/ Demote(c) \/ Reauthorize(c) \/ MarkRevoked(c)
    PROVE  ConnInv'
<1>1. /\ UNCHANGED <<tokens, sessions, secrets, lostWrites>>
      /\ conn'.status \in {"required", "revoked"} /\ conn'.ref \in {0, Me(c).ref}
      /\ conn' = [status |-> conn'.status, ref |-> conn'.ref]
      /\ connCall[c].pc \in {"missing", "demote", "reauthorize", "mark"}
      /\ \/ connCall[c].pc \in {"missing", "demote"} /\ Required(c)
         \/ connCall[c].pc = "reauthorize" /\ CGo(c, "dropRefused")
         \/ connCall[c].pc = "mark" /\ CGo(c, "dropRevoked")
  BY DEF Missing, Demote, Reauthorize, MarkRevoked, UpdateConnection, Row, world, CAt
<1>2. Knows(c) /\ ConnTypes /\ Len(tokens) \in Nat
  BY <1>1 DEF ConnInv, ConnTypes, Knows, KnowingPlace, UsePlace, RevokePlace
<1>3. PICK n : n = conn'.ref /\ MayName(c, n)
  BY <1>1, <1>2 DEF MayName
<1>4. n \in 0..Len(tokens)
  BY <1>3, NamesKnown
<1>5. conn' \in [status: {"absent", "active", "required", "revoked"}, ref: 0..Len(tokens)]
  <2>1. PICK s \in {"required", "revoked"} : s = conn'.status
    BY <1>1
  <2>2. conn' = [status |-> s, ref |-> n]
    BY <1>1, <1>3, <2>1
  <2>3. QED
    BY <1>4, <2>2
<1>6. CASE CEnd(c)
  <2>1. IdleConn \in ConnCallType /\ IdleConn.pc = "idle" /\ CSet(c, IdleConn)
    BY <1>6 DEF IdleConn, ConnCallType, CEnd
  <2>2. IdleConn.pc \notin KnowingPlace \cup DropPlace \cup FreshPlace \cup {"session", "exchange"}
    BY <2>1 DEF KnowingPlace, UsePlace, RevokePlace, DropPlace, FreshPlace, WritingPlace
  <2>3. QED
    BY <1>1, <1>2, <1>3, <1>5, <2>1, <2>2, ConnMoveInv DEF ConnTypes
<1>7. CASE ~CEnd(c)
  <2>1. PICK r \in ConnCallType : CSet(c, r) /\ r.ref = Me(c).ref /\ r.pc \in {"start", "dropRefused", "dropRevoked"}
    BY <1>1, <1>7, ConnGoes DEF Required, UsePlace, RevokePlace
  <2>2. MayName(c, r.ref)
    BY <1>2, <2>1 DEF MayName
  <2>3. r.pc \notin FreshPlace \cup {"session", "exchange"}
    BY <2>1 DEF FreshPlace, WritingPlace
  <2>4. conn'.status # "active"
    BY <1>1
  <2>5. QED
    BY <1>1, <1>2, <1>3, <1>5, <2>1, <2>2, <2>3, <2>4, ConnMoveInv DEF ConnTypes
<1>8. QED
  BY <1>6, <1>7

LEMMA RefreshInv ==
    ASSUME ConnInv, NEW c \in ConnCall, NEW refusal \in {"reauthorize", "error"}, Refresh(c, refusal)
    PROVE  ConnInv'
<1>1. UNCHANGED <<sessions, secrets, conn, lostWrites>> /\ connCall[c].pc = "refresh" /\ Knows(c)
  BY DEF Refresh, stores, CAt, Knows, KnowingPlace, UsePlace
<1>2. CASE CEnd(c) /\ UNCHANGED tokens
  BY <1>1, <1>2, ConnEndsInv
<1>3. CASE CGo(c, "reauthorize") /\ UNCHANGED tokens
  <2>1. PICK r \in ConnCallType : CSet(c, r) /\ r.pc = "reauthorize" /\ r.ref = Me(c).ref
    BY <1>1, <1>3, ConnGoes DEF UsePlace
  <2>2. MayName(c, r.ref)
    BY <1>1, <2>1 DEF MayName
  <2>3. r.pc \notin DropPlace \cup FreshPlace \cup {"session", "exchange"}
    BY <2>1 DEF DropPlace, FreshPlace, WritingPlace
  <2>4. QED
    BY <1>1, <1>3, <2>1, <2>2, <2>3, ConnPlainInv
<1>4. CASE Me(c).ref \in live
  <2>1. PICK n : n = Len(tokens) + 1 /\ n \in Nat
    BY DEF ConnInv, ConnTypes
  <2>2. PICK r : /\ CSet(c, r) /\ r = [connCall[c] EXCEPT !.pc = "store", !.next = n]
                 /\ tokens' = Append(tokens, NoSession)
    BY <1>4, <2>1 DEF Refresh, Issue, Me
  <2>3. r \in ConnCallType /\ r.pc = "store" /\ r.next = n /\ r.ref = Me(c).ref
    BY <1>1, <2>1, <2>2, ConnShape DEF ConnCallType, ConnectCall, UseCall, UsePlace, Me
  <2>4. QED
    BY <1>1, <2>1, <2>2, <2>3, ConnIssueInv
<1>5. QED
  BY <1>2, <1>3, <1>4 DEF Refresh

\* A failed write of the row: whether it took effect or not, the row names nothing that went
\* unless the answer was lost.
LEMMA WriteFailsInv ==
    ASSUME ConnInv, NEW c \in ConnCall, WriteFails(c)
    PROVE  ConnInv'
<1>1. /\ UNCHANGED <<tokens, sessions>> /\ connCall[c].pc \in WritingPlace
      /\ secrets' \in {secrets, secrets \ {Me(c).next}}
      /\ \/ CEnd(c)
         \/ connCall[c].pc \in {"upsert", "insert"} /\ CGo(c, "endSession")
      /\ \/ UNCHANGED <<conn, lostWrites>>
         \/ /\ conn' = [status |-> "active", ref |-> Me(c).next]
            /\ lostWrites' = lostWrites \cup {Me(c).next}
  BY DEF WriteFails, world, CAt, WritingPlace, UpdateConnection, Row
<1>2. /\ FreshHolds(c) /\ Fresh(c) /\ ConnTypes
      /\ Me(c).next \in 1..Len(tokens) /\ Me(c).next # conn.ref
  BY <1>1 DEF ConnInv, ConnHolds, FreshHolds, Fresh, FreshPlace
<1>3. PICK r \in ConnCallType : CSet(c, r) /\ r.pc \in {"idle", "endSession"}
  <2>1. CASE CEnd(c)
    BY <2>1 DEF CEnd, IdleConn, ConnCallType
  <2>2. CASE ~CEnd(c)
    BY <1>1, <2>2, ConnGoes DEF CallbackPlace
  <2>3. QED
    BY <2>1, <2>2
<1>4. /\ conn' \in [status: {"absent", "active", "required", "revoked"}, ref: 0..Len(tokens)]
      /\ MayName(c, conn'.ref) /\ lostWrites \subseteq lostWrites'
      /\ \/ conn' = conn
         \/ conn'.ref = Me(c).next /\ Me(c).next \in lostWrites'
  BY <1>1, <1>2 DEF MayName, ConnTypes
<1>5. /\ secrets' \subseteq 1..Len(tokens)
      /\ \A m \in secrets : m \notin secrets' => MayName(c, m) /\ m # conn.ref
  BY <1>1, <1>2 DEF MayName, ConnTypes
<1>6. r.pc \notin KnowingPlace \cup DropPlace \cup FreshPlace \cup {"session", "exchange"}
  BY <1>3 DEF KnowingPlace, UsePlace, RevokePlace, DropPlace, FreshPlace, WritingPlace
<1>7. QED
  BY <1>1, <1>2, <1>3, <1>4, <1>5, <1>6, ConnMoveInv DEF ConnTypes

LEMMA ConnNextInv == ConnInv /\ [ConnNext]_connVars => ConnInv'
<1> SUFFICES ASSUME ConnInv, [ConnNext]_connVars PROVE ConnInv'
  OBVIOUS
<1>1. CASE UNCHANGED connVars
  <2>1. UNCHANGED <<tokens, sessions, secrets, conn, connCall, lostWrites>> /\ ConnTypes
    BY <1>1 DEF connVars, world, stores, ConnInv
  <2>2. QED
    BY <2>1, WorldInv DEF ConnTypes
<1>2. ASSUME \/ ArchiveSource
             \/ \E t \in 1..Len(tokens) : ExpireToken(t)
             \/ \E s \in AuthSession : ExpireSession(s)
      PROVE  ConnInv'
  BY <1>2, WorldStepsInv
<1>3. ASSUME NEW c \in ConnCall,
             \/ \E s \in AuthSession : Connect(c, s) \/ Callback(c, s)
             \/ Use(c) \/ Disconnect(c)
      PROVE  ConnInv'
  BY <1>3, BeginConnInv
<1>4. ASSUME NEW c \in ConnCall,
             \/ GitHubStart(c) \/ GitLabStart(c) \/ BitbucketStart(c) \/ VercelStart(c)
             \/ CloudflareStart(c) \/ NetlifyStart(c) \/ SourceStart(c)
      PROVE  ConnInv'
  BY <1>4, StartInv DEF GitHubStart, GitLabStart, BitbucketStart, VercelStart, CloudflareStart,
     NetlifyStart, SourceStart
<1>5. ASSUME NEW c \in ConnCall,
             \/ Register(c) \/ Consume(c) \/ SessionSecret(c) \/ EndSession(c) \/ InterruptConn(c)
             \/ GitHubExchange(c) \/ GitLabExchange(c) \/ BitbucketExchange(c) \/ VercelExchange(c)
             \/ CloudflareExchange(c) \/ NetlifyExchange(c) \/ SourceExchange(c)
             \/ Put(c) \/ Upsert(c) \/ Insert(c)
      PROVE  ConnInv'
  BY <1>5, RegisterInv, ConsumeInv, SessionSecretInv, ExchangeInv, PutInv, UpsertInv, InsertConnInv
     DEF GitHubExchange, GitLabExchange, BitbucketExchange, VercelExchange, CloudflareExchange,
         NetlifyExchange, SourceExchange
<1>6. ASSUME NEW c \in ConnCall,
             \/ SelectConnection(c) \/ ReadSecret(c) \/ Missing(c) \/ Demote(c) \/ Reauthorize(c)
             \/ GitHubRefresh(c) \/ GitLabRefresh(c) \/ BitbucketRefresh(c) \/ CloudflareRefresh(c)
             \/ SourceRefresh(c) \/ StoreRefreshed(c) \/ Adopt(c)
      PROVE  ConnInv'
  BY <1>6, SelectInv, DeactivateInv, RefreshInv, PutInv, InsertConnInv
     DEF GitHubRefresh, GitLabRefresh, BitbucketRefresh, CloudflareRefresh, SourceRefresh
<1>7. ASSUME NEW c \in ConnCall,
             \/ DropReplaced(c) \/ DropRefused(c) \/ DropPrevious(c) \/ DropRevoked(c)
             \/ GitHubRevoke(c) \/ GitLabRevoke(c) \/ VercelRevoke(c) \/ CloudflareRevoke(c)
             \/ SourceRevoke(c) \/ SkipRevoke(c) \/ MarkRevoked(c) \/ WriteFails(c)
      PROVE  ConnInv'
  BY <1>7, DropInv, SelectInv, DeactivateInv, WriteFailsInv
     DEF GitHubRevoke, GitLabRevoke, VercelRevoke, CloudflareRevoke, SourceRevoke
<1>8. QED
  BY <1>1, <1>2, <1>3, <1>4, <1>5, <1>6, <1>7 DEF ConnNext

\* One session, one credential; and an active connection names a secret that is stored.
THEOREM ConnectionCredentialsAreSound == ConnSpec => []CredentialsAreSound
<1>1. ConnInv => CredentialsAreSound
  BY DEF ConnInv, CredentialsAreSound
<1>2. QED
  BY ConnInitInv, ConnNextInv, <1>1, PTL DEF ConnSpec

----------------------------------------------------------------------------
(* Sandboxes, leases and previews *)

OpeningPlace == {"create", "lease", "files", "row"}
SessionPlace == {"files", "row", "launch", "wait", "ready", "fail", "stop", "stopping", "stopped",
                 "unstopped", "probe"}
SbPlace      == OpeningPlace \cup SessionPlace
                  \cup {"idle", "close", "get", "retarget", "session", "expire", "readLease", "connect",
                        "authorize", "execute"}
SbOperation  == {"none", "open", "get", "retarget", "reconnect", "stop", "cleanup", "end", "use"}
SbCallRow    == {r \in [pc: SbPlace, proc: SbProc \cup {"none"}, op: SbOperation, s: Nat] :
                   r.pc # "idle" => r.proc \in SbProc}
SessionType  == [proc: SbProc, stop: {"no", "pending", "stopped", "unstopped", "lost"}]

SbTypes ==
    /\ machine \in {"absent", "running", "gone"} /\ revived \in BOOLEAN /\ strayed \in BOOLEAN
    /\ lease \in {"none", "active", "stopped", "expired"}
    /\ preview \in [status: {"none"} \cup PreviewLive \cup PreviewOver, version: {1, 2}]
    /\ sess \in Seq(SessionType)
    /\ tracked \in [SbProc -> 0..Len(sess)]
    /\ sbCall \in [SbCall -> SbCallRow]

\* Before the provider has a sandbox there is nothing to find, and one call opens it, once.
NothingYet ==
    machine = "absent" =>
        /\ lease = "none" /\ preview.status = "none" /\ Len(sess) = 0
        /\ \A c \in SbCall : sbCall[c].pc \in {"idle", "create"}
OpensOnce ==
    /\ \A c \in SbCall : SbAt(c, "create") => machine = "absent"
    /\ \A c \in SbCall : sbCall[c].pc \in OpeningPlace => sbCall[c].op = "open" /\ preview.status = "none"
    /\ \A c, d \in SbCall : sbCall[c].op = "open" /\ sbCall[d].op = "open" => c = d

SessionsExist == \A c \in SbCall : sbCall[c].pc \in SessionPlace => SessionOf(c) \in 1..Len(sess)

\* Whoever says that the sandbox was stopped says so after the provider did: it is gone, unless
\* something started it again.
SaysStopped ==
    \/ \E s \in 1..Len(sess) : sess[s].stop = "stopped"
    \/ \E c \in SbCall : SbAt(c, "stopped") \/ SbOp(c, "close", "stop")
    \/ preview.status = "stopped"
StoppedIsGone == SaysStopped => machine = "gone" \/ revived

LeaseIsEnding == lease = "stopped" \/ \E c \in SbCall : sbCall[c].pc \in {"stopped", "unstopped"}
LeaseTellsTrue ==
    /\ LeaseIsEnding => machine = "gone" \/ strayed
    /\ machine = "running" /\ lease = "none" => strayed \/ \E c \in SbCall : SbAt(c, "lease")

SbInv == /\ SbTypes /\ NothingYet /\ OpensOnce /\ SessionsExist /\ StoppedIsGone /\ LeaseTellsTrue

LEMMA SbInitInv == SbInit => SbInv
<1> SUFFICES ASSUME SbInit PROVE SbInv
  OBVIOUS
<1>1. \A c \in SbCall : sbCall[c] = IdleSb
  BY DEF SbInit, SbStores
<1>2. /\ IdleSb \in SbCallRow /\ IdleSb.pc = "idle" /\ IdleSb.op = "none"
      /\ sess \in Seq(SessionType) /\ Len(sess) = 0
  BY DEF SbInit, SbStores, IdleSb, SbCallRow, SbPlace, SbOperation
<1>3. SbTypes
  <2>1. /\ machine \in {"absent", "running", "gone"} /\ revived \in BOOLEAN /\ strayed \in BOOLEAN
        /\ lease \in {"none", "active", "stopped", "expired"}
    BY DEF SbInit, SbStores
  <2>2. preview \in [status: {"none"} \cup PreviewLive \cup PreviewOver, version: {1, 2}]
    BY DEF SbInit, SbStores, PreviewLive, PreviewOver
  <2>3. tracked \in [SbProc -> 0..Len(sess)] /\ sbCall \in [SbCall -> SbCallRow]
    BY <1>2 DEF SbInit, SbStores
  <2>4. QED
    BY <1>2, <2>1, <2>2, <2>3 DEF SbTypes
<1>4. NothingYet /\ OpensOnce /\ SessionsExist
  BY <1>1, <1>2 DEF SbInit, SbStores, NothingYet, OpensOnce, SessionsExist, SbAt, OpeningPlace, SessionPlace
<1>5. StoppedIsGone /\ LeaseTellsTrue
  BY <1>1, <1>2 DEF SbInit, SbStores, StoppedIsGone, SaysStopped, LeaseTellsTrue, LeaseIsEnding, SbAt, SbOp
<1>6. QED
  BY <1>3, <1>4, <1>5 DEF SbInv

\* Once there is a sandbox: a step of one call preserves the invariant, if it starts the sandbox
\* again only with a mark and says only what it knows.
LEMMA SbStepInv ==
    ASSUME SbInv, SbTypes', machine # "absent", NEW c \in SbCall,
           \A d \in SbCall : d # c => sbCall'[d] = sbCall[d],
           Len(sess) <= Len(sess'),
           machine' \in {machine, "gone"} \/ (machine' = "running" /\ revived' /\ strayed'),
           revived => revived', strayed => strayed',
           sbCall'[c].op = "open" => sbCall[c].op = "open",
           sbCall'[c].pc # "create",
           sbCall'[c].pc \in OpeningPlace => sbCall'[c].op = "open" /\ preview'.status = "none",
           \/ preview'.status = preview.status \/ preview.status # "none"
           \/ sbCall[c].pc = "row",
           sbCall'[c].pc \in SessionPlace => sbCall'[c].s \in 1..Len(sess'),
           \A s \in 1..Len(sess') : sess'[s].stop = "stopped" => SaysStopped,
           sbCall'[c].pc = "stopped" \/ (sbCall'[c].pc = "close" /\ sbCall'[c].op = "stop")
             => SaysStopped \/ machine' = "gone",
           preview'.status = "stopped" => SaysStopped,
           lease' = "stopped" => LeaseIsEnding,
           sbCall'[c].pc \in {"stopped", "unstopped"} => LeaseIsEnding \/ machine' = "gone" \/ strayed',
           lease # "none" => lease' # "none",
           sbCall[c].pc = "lease" =>
             strayed' \/ sbCall'[c].pc = "lease" \/ lease' # "none" \/ machine' # "running"
    PROVE  SbInv'
<1>1. SbTypes /\ Len(sess) \in Nat /\ Len(sess') \in Nat /\ machine' # "absent"
  BY DEF SbInv, SbTypes
<1>2. NothingYet'
  BY <1>1 DEF NothingYet
<1>3. OpensOnce'
  <2>1. ASSUME NEW d \in SbCall PROVE sbCall'[d].pc # "create"
    BY <2>1 DEF SbInv, OpensOnce, SbAt
  <2>2. ASSUME NEW d \in SbCall, sbCall'[d].pc \in OpeningPlace
        PROVE  sbCall'[d].op = "open" /\ preview'.status = "none"
    <3>1. CASE d = c
      BY <2>2, <3>1
    <3>2. CASE d # c
      <4>1. sbCall[d].op = "open" /\ preview.status = "none"
        BY <2>2, <3>2 DEF SbInv, OpensOnce
      <4>2. sbCall[c].pc # "row"
        BY <3>2, <4>1 DEF SbInv, OpensOnce, OpeningPlace
      <4>3. QED
        BY <2>2, <3>2, <4>1, <4>2
    <3>3. QED
      BY <3>1, <3>2
  <2>3. ASSUME NEW d \in SbCall, NEW e \in SbCall, sbCall'[d].op = "open", sbCall'[e].op = "open"
        PROVE  d = e
    <3>1. sbCall[d].op = "open" /\ sbCall[e].op = "open"
      BY <2>3
    <3>2. QED
      BY <3>1 DEF SbInv, OpensOnce
  <2>4. QED
    BY <2>1, <2>2, <2>3 DEF OpensOnce, SbAt
<1>4. SessionsExist'
  <2> SUFFICES ASSUME NEW d \in SbCall, sbCall'[d].pc \in SessionPlace
               PROVE  sbCall'[d].s \in 1..Len(sess')
    BY DEF SessionsExist, SessionOf
  <2>1. CASE d = c
    BY <2>1
  <2>2. CASE d # c
    BY <1>1, <2>2 DEF SbInv, SessionsExist, SessionOf
  <2>3. QED
    BY <2>1, <2>2
<1>5. StoppedIsGone'
  <2> SUFFICES ASSUME SaysStopped' PROVE machine' = "gone" \/ revived'
    BY DEF StoppedIsGone
  <2>1. SaysStopped \/ machine' = "gone"
    BY DEF SaysStopped, SbAt, SbOp
  <2>2. QED
    BY <1>1, <2>1 DEF SbInv, StoppedIsGone
<1>6. LeaseTellsTrue'
  <2>1. ASSUME LeaseIsEnding' PROVE machine' = "gone" \/ strayed'
    <3>1. LeaseIsEnding \/ machine' = "gone" \/ strayed'
      BY <2>1 DEF LeaseIsEnding
    <3>2. QED
      BY <1>1, <3>1 DEF SbInv, LeaseTellsTrue
  <2>2. ASSUME machine' = "running", lease' = "none"
        PROVE  strayed' \/ \E d \in SbCall : sbCall'[d].pc = "lease"
    <3>1. CASE machine = "running" /\ ~strayed'
      <4>1. PICK d \in SbCall : sbCall[d].pc = "lease"
        BY <2>2, <3>1 DEF SbInv, LeaseTellsTrue, SbAt
      <4>2. QED
        BY <2>2, <4>1
    <3>2. QED
      BY <2>2, <3>1
  <2>3. QED
    BY <2>1, <2>2 DEF LeaseTellsTrue, SbAt
<1>7. QED
  BY <1>2, <1>3, <1>4, <1>5, <1>6 DEF SbInv

\* What becomes of the call that moves.
LEMMA SbWiths ==
    ASSUME SbTypes, NEW c \in SbCall, NEW x \in SbPlace, NEW s \in Nat, SbWith(c, x, s),
           sbCall[c].pc # "idle"
    PROVE  /\ sbCall' \in [SbCall -> SbCallRow]
           /\ sbCall'[c].pc = x /\ sbCall'[c].op = sbCall[c].op /\ sbCall'[c].s = s
           /\ \A d \in SbCall : d # c => sbCall'[d] = sbCall[d]
<1>1. sbCall \in [SbCall -> SbCallRow] /\ sbCall[c] \in SbCallRow
  BY DEF SbTypes
<1>2. PICK r : r = [sbCall[c] EXCEPT !.pc = x, !.s = s]
  OBVIOUS
<1>3. r \in SbCallRow /\ r.pc = x /\ r.op = sbCall[c].op /\ r.s = s
  BY <1>1, <1>2 DEF SbCallRow
<1>4. sbCall' = [sbCall EXCEPT ![c] = r]
  BY <1>2 DEF SbWith
<1>5. QED
  BY <1>1, <1>3, <1>4

LEMMA SbGoes ==
    ASSUME SbTypes, NEW c \in SbCall, NEW x \in SbPlace, SbGo(c, x), sbCall[c].pc # "idle"
    PROVE  /\ sbCall' \in [SbCall -> SbCallRow]
           /\ sbCall'[c].pc = x /\ sbCall'[c].op = sbCall[c].op /\ sbCall'[c].s = sbCall[c].s
           /\ \A d \in SbCall : d # c => sbCall'[d] = sbCall[d]
<1>1. sbCall \in [SbCall -> SbCallRow] /\ sbCall[c] \in SbCallRow
  BY DEF SbTypes
<1>2. PICK r : r = [sbCall[c] EXCEPT !.pc = x]
  OBVIOUS
<1>3. r \in SbCallRow /\ r.pc = x /\ r.op = sbCall[c].op /\ r.s = sbCall[c].s
  BY <1>1, <1>2 DEF SbCallRow
<1>4. sbCall' = [sbCall EXCEPT ![c] = r]
  BY <1>2 DEF SbGo
<1>5. QED
  BY <1>1, <1>3, <1>4

LEMMA SbEnds ==
    ASSUME SbTypes, NEW c \in SbCall, SbEnd(c)
    PROVE  /\ sbCall' \in [SbCall -> SbCallRow]
           /\ sbCall'[c].pc = "idle" /\ sbCall'[c].op = "none"
           /\ \A d \in SbCall : d # c => sbCall'[d] = sbCall[d]
BY DEF SbTypes, SbEnd, SbCallRow, IdleSb, SbPlace, SbOperation

\* A call that is past its first step has a sandbox.
LEMMA SbPresent ==
    ASSUME SbInv, NEW c \in SbCall, sbCall[c].pc \notin {"idle", "create"}
    PROVE  machine # "absent"
BY DEF SbInv, NothingYet

\* A step that leaves the sandbox, the rows and the sessions as they are.
LEMMA SbCalmInv ==
    ASSUME SbInv, machine # "absent", NEW c \in SbCall,
           sbCall' \in [SbCall -> SbCallRow],
           \A d \in SbCall : d # c => sbCall'[d] = sbCall[d],
           UNCHANGED <<machine, revived, strayed, lease, preview, sess>>,
           tracked' \in [SbProc -> 0..Len(sess)],
           sbCall'[c].op = "open" => sbCall[c].op = "open",
           sbCall'[c].pc \notin {"create", "stopped", "unstopped"}, sbCall[c].pc # "lease",
           sbCall'[c].pc \in OpeningPlace => sbCall[c].pc \in OpeningPlace /\ sbCall'[c].op = sbCall[c].op,
           sbCall'[c].pc = "close" /\ sbCall'[c].op = "stop" => SaysStopped,
           sbCall'[c].pc \in SessionPlace => sbCall'[c].s \in 1..Len(sess)
    PROVE  SbInv'
<1>1. SbTypes'
  BY DEF SbInv, SbTypes
<1>2. sbCall'[c].pc \in OpeningPlace => sbCall'[c].op = "open" /\ preview'.status = "none"
  BY DEF SbInv, OpensOnce
<1>3. Len(sess) \in Nat
  BY DEF SbInv, SbTypes
<1>4. /\ \A s \in 1..Len(sess') : sess'[s].stop = "stopped" => SaysStopped
      /\ preview'.status = "stopped" => SaysStopped
      /\ lease' = "stopped" => LeaseIsEnding
  BY DEF SaysStopped, LeaseIsEnding
<1>5. QED
  BY <1>1, <1>2, <1>3, <1>4, SbStepInv

\* A step that closes rows, or marks them, and leaves the sandbox and the sessions as they are.
LEMMA SbRowsInv ==
    ASSUME SbInv, machine # "absent", NEW c \in SbCall,
           sbCall' \in [SbCall -> SbCallRow],
           \A d \in SbCall : d # c => sbCall'[d] = sbCall[d],
           UNCHANGED <<machine, revived, strayed, sess>>,
           tracked' \in [SbProc -> 0..Len(sess)],
           preview' = preview \/ preview' \in
             [status: {"none"} \cup PreviewLive \cup PreviewOver, version: {1, 2}],
           preview'.status = preview.status \/ preview.status # "none",
           preview'.status = "stopped" => SaysStopped,
           lease' = lease \/ (lease' \in {"expired", "active"} /\ lease # "none"),
           sbCall'[c].op = "open" => sbCall[c].op = "open",
           sbCall'[c].pc \notin OpeningPlace \cup {"stopped", "unstopped", "close"},
           sbCall[c].pc # "lease",
           sbCall'[c].pc \in SessionPlace => sbCall'[c].s \in 1..Len(sess)
    PROVE  SbInv'
<1>1. SbTypes'
  BY DEF SbInv, SbTypes
<1>2. Len(sess) \in Nat
  BY DEF SbInv, SbTypes
<1>3. /\ \A s \in 1..Len(sess') : sess'[s].stop = "stopped" => SaysStopped
      /\ lease' = "stopped" => LeaseIsEnding
      /\ sbCall'[c].pc # "create"
  BY DEF SaysStopped, LeaseIsEnding, OpeningPlace
<1>4. QED
  BY <1>1, <1>2, <1>3, SbStepInv

\* Closing a preview, by the calls that may: a record that is over or not there stays.
LEMMA SbCloses ==
    ASSUME SbInv, NEW st \in PreviewOver, ClosePreview(st), st = "stopped" => SaysStopped
    PROVE  /\ preview' = preview \/ preview' \in
                [status: {"none"} \cup PreviewLive \cup PreviewOver, version: {1, 2}]
           /\ preview'.status = preview.status \/ preview.status # "none"
           /\ preview'.status = "stopped" => SaysStopped
<1>1. preview \in [status: {"none"} \cup PreviewLive \cup PreviewOver, version: {1, 2}]
  BY DEF SbInv, SbTypes
<1>2. CASE preview.status \in PreviewLive
  <2>1. preview' = [preview EXCEPT !.status = st]
    BY <1>2 DEF ClosePreview
  <2>2. preview'.status = st /\ preview.status # "none"
    BY <1>1, <1>2, <2>1 DEF PreviewLive
  <2>3. preview' \in [status: {"none"} \cup PreviewLive \cup PreviewOver, version: {1, 2}]
    BY <1>1, <2>1
  <2>4. QED
    BY <2>2, <2>3
<1>3. CASE preview.status \notin PreviewLive
  BY <1>1, <1>3 DEF ClosePreview, SaysStopped
<1>4. QED
  BY <1>2, <1>3

LEMMA SbMaterialize == ASSUME SbInv, NEW c \in SbCall, Materialize(c) PROVE SbInv'
<1>1. sbCall[c].pc = "files" /\ sbCall[c].op = "open" /\ SbTypes
  BY DEF Materialize, SbOp, SbAt, SbInv
<1>2. PICK x \in {"row", "stop"} : SbGo(c, x)
  BY DEF Materialize
<1>3. x \in SbPlace /\ sbCall[c].s \in 1..Len(sess)
  BY <1>1 DEF SbPlace, OpeningPlace, SessionPlace, SbInv, SessionsExist, SessionOf
<1>4. /\ machine # "absent"
      /\ UNCHANGED <<machine, revived, strayed, lease, preview, sess>>
      /\ tracked' \in [SbProc -> 0..Len(sess)]
  BY <1>1, SbPresent DEF Materialize, box, rows, marks, handles, SbTypes
<1>5. /\ sbCall' \in [SbCall -> SbCallRow]
      /\ sbCall'[c].pc = x /\ sbCall'[c].op = sbCall[c].op /\ sbCall'[c].s = sbCall[c].s
      /\ \A d \in SbCall : d # c => sbCall'[d] = sbCall[d]
  BY <1>1, <1>2, <1>3, SbGoes
<1>6. QED
  BY <1>1, <1>3, <1>4, <1>5, SbCalmInv DEF OpeningPlace

LEMMA SbAwait == ASSUME SbInv, NEW c \in SbCall, Await(c) PROVE SbInv'
<1>1. sbCall[c].pc = "wait" /\ SbTypes
  BY DEF Await, SbAt, SbInv
<1>2. PICK x \in {"ready", "fail"} : SbGo(c, x)
  BY DEF Await
<1>3. x \in SbPlace /\ sbCall[c].s \in 1..Len(sess)
  BY <1>1 DEF SbPlace, OpeningPlace, SessionPlace, SbInv, SessionsExist, SessionOf
<1>4. /\ machine # "absent"
      /\ UNCHANGED <<machine, revived, strayed, lease, preview, sess>>
      /\ tracked' \in [SbProc -> 0..Len(sess)]
  BY <1>1, SbPresent DEF Await, box, rows, marks, handles, SbTypes
<1>5. /\ sbCall' \in [SbCall -> SbCallRow]
      /\ sbCall'[c].pc = x /\ sbCall'[c].op = sbCall[c].op /\ sbCall'[c].s = sbCall[c].s
      /\ \A d \in SbCall : d # c => sbCall'[d] = sbCall[d]
  BY <1>1, <1>2, <1>3, SbGoes
<1>6. QED
  BY <1>1, <1>3, <1>4, <1>5, SbCalmInv DEF OpeningPlace

LEMMA SbLaunch == ASSUME SbInv, NEW c \in SbCall, Launch(c) PROVE SbInv'
<1>1. sbCall[c].pc = "launch" /\ SbTypes
  BY DEF Launch, SbAt, SbInv
<1>2. PICK x \in {"wait", "fail"} : SbGo(c, x)
  BY DEF Launch
<1>3. x \in SbPlace /\ sbCall[c].s \in 1..Len(sess)
  BY <1>1 DEF SbPlace, OpeningPlace, SessionPlace, SbInv, SessionsExist, SessionOf
<1>4. /\ machine # "absent"
      /\ UNCHANGED <<machine, revived, strayed, lease, preview, sess>>
      /\ tracked' \in [SbProc -> 0..Len(sess)]
  BY <1>1, SbPresent DEF Launch, rows, marks, handles, SbTypes
<1>5. /\ sbCall' \in [SbCall -> SbCallRow]
      /\ sbCall'[c].pc = x /\ sbCall'[c].op = sbCall[c].op /\ sbCall'[c].s = sbCall[c].s
      /\ \A d \in SbCall : d # c => sbCall'[d] = sbCall[d]
  BY <1>1, <1>2, <1>3, SbGoes
<1>6. QED
  BY <1>1, <1>3, <1>4, <1>5, SbCalmInv DEF OpeningPlace

LEMMA SbAuthorize == ASSUME SbInv, NEW c \in SbCall, Authorize(c) PROVE SbInv'
<1>1. sbCall[c].pc = "authorize" /\ SbTypes /\ "execute" \in SbPlace
  BY DEF Authorize, SbAt, SbInv, SbPlace
<1>2. /\ machine # "absent"
      /\ UNCHANGED <<machine, revived, strayed, lease, preview, sess>>
      /\ tracked' \in [SbProc -> 0..Len(sess)]
  BY <1>1, SbPresent DEF Authorize, box, rows, marks, handles, SbTypes
<1>3. CASE SbGo(c, "execute")
  BY <1>1, <1>2, <1>3, SbGoes, SbCalmInv DEF OpeningPlace, SessionPlace
<1>4. CASE SbEnd(c)
  BY <1>1, <1>2, <1>4, SbEnds, SbCalmInv DEF OpeningPlace, SessionPlace
<1>5. QED
  BY <1>3, <1>4 DEF Authorize

\* The row that the opening call creates is the first: its preview had none.
LEMMA SbCreatePreview == ASSUME SbInv, NEW c \in SbCall, CreatePreview(c) PROVE SbInv'
<1>1. sbCall[c].pc = "row" /\ SbTypes /\ {"launch", "stop"} \subseteq SbPlace
  BY DEF CreatePreview, SbAt, SbInv, SbPlace, SessionPlace
<1>2. /\ machine # "absent" /\ sbCall[c].s \in 1..Len(sess)
      /\ UNCHANGED <<machine, revived, strayed, lease, sess>>
  BY <1>1, SbPresent DEF CreatePreview, box, marks, SbInv, SessionsExist, SessionOf, SessionPlace
<1>3. CASE sbProvider \in Previewing /\ lease = "active"
  <2>1. /\ preview' = [status |-> "starting", version |-> 1]
        /\ tracked' = [tracked EXCEPT ![ProcOf(c)] = SessionOf(c)] /\ SbGo(c, "launch")
    BY <1>3 DEF CreatePreview, Track
  <2>2. /\ sbCall' \in [SbCall -> SbCallRow]
        /\ sbCall'[c].pc = "launch" /\ sbCall'[c].op = sbCall[c].op /\ sbCall'[c].s = sbCall[c].s
        /\ \A d \in SbCall : d # c => sbCall'[d] = sbCall[d]
    BY <1>1, <2>1, SbGoes
  <2>3. tracked' \in [SbProc -> 0..Len(sess)]
    <3>1. SessionOf(c) \in 0..Len(sess) /\ tracked \in [SbProc -> 0..Len(sess)]
      BY <1>1, <1>2 DEF SbTypes, SessionOf
    <3>2. QED
      BY <2>1, <3>1
  <2>4. SbTypes' /\ preview'.status = "starting"
    BY <1>1, <1>2, <2>1, <2>2, <2>3 DEF SbTypes, PreviewLive
  <2>5. Len(sess) \in Nat
    BY <1>1 DEF SbTypes
  <2>6. /\ \A s \in 1..Len(sess') : sess'[s].stop = "stopped" => SaysStopped
        /\ lease' = "stopped" => LeaseIsEnding
    BY <1>2 DEF SaysStopped, LeaseIsEnding
  <2>7. QED
    BY <1>1, <1>2, <2>2, <2>4, <2>5, <2>6, SbStepInv DEF OpeningPlace
<1>4. CASE ~(sbProvider \in Previewing /\ lease = "active")
  <2>1. UNCHANGED preview /\ tracked' \in [SbProc -> 0..Len(sess)]
    BY <1>1, <1>4 DEF CreatePreview, SbTypes
  <2>2. CASE SbGo(c, "stop")
    BY <1>1, <1>2, <2>1, <2>2, SbGoes, SbCalmInv DEF OpeningPlace
  <2>3. CASE SbEnd(c)
    BY <1>1, <1>2, <2>1, <2>3, SbEnds, SbCalmInv DEF OpeningPlace, SessionPlace
  <2>4. QED
    BY <1>4, <2>2, <2>3 DEF CreatePreview
<1>5. QED
  BY <1>3, <1>4

LEMMA SbReady == ASSUME SbInv, NEW c \in SbCall, Ready(c) PROVE SbInv'
<1>1. sbCall[c].pc = "ready" /\ SbTypes /\ "fail" \in SbPlace
  BY DEF Ready, SbAt, SbInv, SbPlace, SessionPlace
<1>2. /\ machine # "absent" /\ sbCall[c].s \in 1..Len(sess)
      /\ UNCHANGED <<machine, revived, strayed, lease, sess>>
      /\ tracked' \in [SbProc -> 0..Len(sess)]
  BY <1>1, SbPresent DEF Ready, box, marks, handles, SbTypes, SbInv, SessionsExist, SessionOf, SessionPlace
<1>3. CASE preview.status \in PreviewLive
  <2>1. preview' = [preview EXCEPT !.status = "ready"] /\ SbEnd(c)
    BY <1>3 DEF Ready, MarkReady, Status
  <2>2. preview' \in [status: {"none"} \cup PreviewLive \cup PreviewOver, version: {1, 2}]
    BY <1>1, <2>1 DEF SbTypes, PreviewLive
  <2>3. preview'.status = "ready" /\ preview.status # "none"
    BY <1>1, <1>3, <2>1 DEF SbTypes, PreviewLive
  <2>4. QED
    BY <1>1, <1>2, <2>1, <2>2, <2>3, SbEnds, SbRowsInv DEF OpeningPlace, SessionPlace
<1>4. CASE preview.status \notin PreviewLive
  <2>1. UNCHANGED preview
    BY <1>4 DEF Ready, MarkReady
  <2>2. CASE SbGo(c, "fail")
    BY <1>1, <1>2, <2>1, <2>2, SbGoes, SbCalmInv DEF OpeningPlace
  <2>3. CASE SbEnd(c)
    BY <1>1, <1>2, <2>1, <2>3, SbEnds, SbCalmInv DEF OpeningPlace, SessionPlace
  <2>4. QED
    BY <1>4, <2>2, <2>3 DEF Ready, MarkReady
<1>5. QED
  BY <1>3, <1>4

LEMMA SbFailCall == ASSUME SbInv, NEW c \in SbCall, FailCall(c) PROVE SbInv'
<1>1. sbCall[c].pc = "fail" /\ SbTypes /\ "stop" \in SbPlace
  BY DEF FailCall, SbAt, SbInv, SbPlace, SessionPlace
<1>2. /\ machine # "absent" /\ sbCall[c].s \in 1..Len(sess)
      /\ UNCHANGED <<machine, revived, strayed, lease, sess>>
  BY <1>1, SbPresent DEF FailCall, box, marks, SbInv, SessionsExist, SessionOf, SessionPlace
<1>3. /\ preview' = preview \/ preview' \in
           [status: {"none"} \cup PreviewLive \cup PreviewOver, version: {1, 2}]
      /\ preview'.status = preview.status \/ preview.status # "none"
      /\ preview'.status = "stopped" => SaysStopped
  <2>1. ClosePreview("failed") /\ "failed" \in PreviewOver
    BY DEF FailCall, FailPreview, PreviewOver
  <2>2. QED
    BY <2>1, SbCloses
<1>4. tracked' \in [SbProc -> 0..Len(sess)]
  BY <1>1 DEF FailCall, Track, SbTypes
<1>5. CASE SbGo(c, "stop")
  BY <1>1, <1>2, <1>3, <1>4, <1>5, SbGoes, SbRowsInv DEF OpeningPlace
<1>6. CASE SbEnd(c)
  BY <1>1, <1>2, <1>3, <1>4, <1>6, SbEnds, SbRowsInv DEF OpeningPlace, SessionPlace
<1>7. QED
  BY <1>5, <1>6 DEF FailCall

LEMMA SbClose == ASSUME SbInv, NEW c \in SbCall, Close(c) PROVE SbInv'
<1>1. sbCall[c].pc = "close" /\ SbTypes
  BY DEF Close, SbAt, SbInv
<1>2. /\ machine # "absent"
      /\ UNCHANGED <<machine, revived, strayed, lease, sess>>
      /\ tracked' \in [SbProc -> 0..Len(sess)] /\ SbEnd(c)
  BY <1>1, SbPresent DEF Close, box, marks, handles, SbTypes
<1>3. PICK st \in PreviewOver : ClosePreview(st) /\ (st = "stopped" => sbCall[c].op = "stop")
  BY DEF Close, PreviewOver
<1>4. st = "stopped" => SaysStopped
  BY <1>1, <1>3 DEF SaysStopped, SbOp, SbAt
<1>5. QED
  BY <1>1, <1>2, <1>3, <1>4, SbCloses, SbEnds, SbRowsInv DEF OpeningPlace, SessionPlace

LEMMA SbExpirePreview == ASSUME SbInv, NEW c \in SbCall, ExpirePreview(c) PROVE SbInv'
<1>1. sbCall[c].pc = "expire" /\ SbTypes
  BY DEF ExpirePreview, SbAt, SbInv
<1>2. /\ machine # "absent"
      /\ UNCHANGED <<machine, revived, strayed, lease, sess>>
      /\ tracked' \in [SbProc -> 0..Len(sess)] /\ SbEnd(c)
  BY <1>1, SbPresent DEF ExpirePreview, box, marks, handles, SbTypes
<1>3. ClosePreview("expired") /\ "expired" \in PreviewOver
  BY DEF ExpirePreview, PreviewOver
<1>4. QED
  BY <1>1, <1>2, <1>3, SbCloses, SbEnds, SbRowsInv DEF OpeningPlace, SessionPlace

LEMMA SbGetPreview == ASSUME SbInv, NEW c \in SbCall, GetPreview(c) PROVE SbInv'
<1>1. sbCall[c].pc = "get" /\ SbTypes /\ {"retarget", "session"} \subseteq SbPlace
  BY DEF GetPreview, SbAt, SbInv, SbPlace
<1>2. /\ machine # "absent"
      /\ UNCHANGED <<machine, revived, strayed, lease, sess>>
      /\ tracked' \in [SbProc -> 0..Len(sess)]
  BY <1>1, SbPresent DEF GetPreview, box, marks, handles, SbTypes
<1>3. CASE ClosePreview("expired") /\ SbEnd(c)
  <2>1. "expired" \in PreviewOver
    BY DEF PreviewOver
  <2>2. QED
    BY <1>1, <1>2, <1>3, <2>1, SbCloses, SbEnds, SbRowsInv DEF OpeningPlace, SessionPlace
<1>4. CASE SbEnd(c) /\ UNCHANGED preview
  BY <1>1, <1>2, <1>4, SbEnds, SbCalmInv DEF OpeningPlace, SessionPlace
<1>5. ASSUME NEW x \in {"retarget", "session"}, SbGo(c, x), UNCHANGED preview PROVE SbInv'
  BY <1>1, <1>2, <1>5, SbGoes, SbCalmInv DEF OpeningPlace, SessionPlace
<1>6. QED
  BY <1>3, <1>4, <1>5 DEF GetPreview

LEMMA SbRetarget == ASSUME SbInv, NEW c \in SbCall, Retarget(c) PROVE SbInv'
<1>1. sbCall[c].pc = "retarget" /\ SbTypes
  BY DEF Retarget, SbAt, SbInv
<1>2. /\ machine # "absent"
      /\ UNCHANGED <<machine, revived, strayed, lease, sess>>
      /\ tracked' \in [SbProc -> 0..Len(sess)] /\ SbEnd(c)
  BY <1>1, SbPresent DEF Retarget, box, marks, handles, SbTypes
<1>3. /\ preview' \in [status: {"none"} \cup PreviewLive \cup PreviewOver, version: {1, 2}]
      /\ preview'.status = preview.status
  BY <1>1 DEF Retarget, SbTypes
<1>4. preview'.status = "stopped" => SaysStopped
  BY <1>3 DEF SaysStopped
<1>5. QED
  BY <1>1, <1>2, <1>3, <1>4, SbEnds, SbRowsInv DEF OpeningPlace, SessionPlace

\* A session's promise that begins, or settles.
LEMMA SbSettles ==
    ASSUME SbTypes, NEW s \in 1..Len(sess), NEW st \in {"pending", "stopped", "unstopped"},
           sess' = [sess EXCEPT ![s].stop = st]
    PROVE  /\ sess' \in Seq(SessionType) /\ Len(sess') = Len(sess)
           /\ \A t \in 1..Len(sess) : sess'[t].stop \in {sess[t].stop, st}
<1>1. sess \in Seq(SessionType) /\ sess[s] \in SessionType /\ DOMAIN sess = 1..Len(sess)
  BY DEF SbTypes
<1>2. PICK r : r = [sess[s] EXCEPT !.stop = st]
  OBVIOUS
<1>3. r \in SessionType /\ r.stop = st
  BY <1>1, <1>2 DEF SessionType
<1>4. sess' = [sess EXCEPT ![s] = r]
  BY <1>2
<1>5. QED
  BY <1>1, <1>3, <1>4

LEMMA SbStopBegins == ASSUME SbInv, NEW c \in SbCall, StopBegins(c) PROVE SbInv'
<1>1. sbCall[c].pc = "stop" /\ SbTypes /\ "stopping" \in SbPlace /\ SbGo(c, "stopping")
  BY DEF StopBegins, SbAt, SbInv, SbPlace, SessionPlace
<1>2. /\ machine # "absent" /\ sbCall[c].s \in 1..Len(sess)
      /\ UNCHANGED <<machine, revived, strayed, lease, preview, tracked>>
      /\ sess' = [sess EXCEPT ![sbCall[c].s].stop = "pending"]
  BY <1>1, SbPresent DEF StopBegins, box, rows, marks, SbInv, SessionsExist, SessionOf, SessionPlace
<1>3. /\ sess' \in Seq(SessionType) /\ Len(sess') = Len(sess) /\ Len(sess) \in Nat
      /\ \A s \in 1..Len(sess) : sess'[s].stop \in {sess[s].stop, "pending"}
  <2>1. PICK st \in {"pending", "stopped", "unstopped"} : st = "pending"
    OBVIOUS
  <2>2. sess' = [sess EXCEPT ![sbCall[c].s].stop = st]
    BY <1>2, <2>1
  <2>3. /\ sess' \in Seq(SessionType) /\ Len(sess') = Len(sess)
        /\ \A s \in 1..Len(sess) : sess'[s].stop \in {sess[s].stop, st}
    BY <1>1, <1>2, <2>2, SbSettles
  <2>4. Len(sess) \in Nat
    BY <1>1 DEF SbTypes
  <2>5. QED
    BY <2>1, <2>3, <2>4
<1>4. /\ sbCall' \in [SbCall -> SbCallRow]
      /\ sbCall'[c].pc = "stopping" /\ sbCall'[c].op = sbCall[c].op /\ sbCall'[c].s = sbCall[c].s
      /\ \A d \in SbCall : d # c => sbCall'[d] = sbCall[d]
  BY <1>1, SbGoes
<1>5. SbTypes'
  BY <1>1, <1>2, <1>3, <1>4 DEF SbTypes
<1>6. /\ \A s \in 1..Len(sess') : sess'[s].stop = "stopped" => SaysStopped
      /\ lease' = "stopped" => LeaseIsEnding
      /\ preview'.status = "stopped" => SaysStopped
  BY <1>2, <1>3 DEF SaysStopped, LeaseIsEnding
<1>7. QED
  BY <1>1, <1>2, <1>3, <1>4, <1>5, <1>6, SbStepInv DEF OpeningPlace, SessionPlace

LEMMA SbProviderStop == ASSUME SbInv, NEW c \in SbCall, ProviderStop(c) PROVE SbInv'
<1>1. sbCall[c].pc = "stopping" /\ SbTypes /\ {"stopped", "unstopped"} \subseteq SbPlace
  BY DEF ProviderStop, SbAt, SbInv, SbPlace, SessionPlace
<1>2. /\ machine # "absent" /\ sbCall[c].s \in 1..Len(sess) /\ Len(sess) \in Nat
      /\ UNCHANGED <<revived, lease, preview, sess, tracked>>
  BY <1>1, SbPresent
     DEF ProviderStop, rows, handles, SbInv, SbTypes, SessionsExist, SessionOf, SessionPlace
<1>3. PICK x \in {"stopped", "unstopped"} :
        /\ SbGo(c, x) /\ machine' \in {machine, "gone"}
        /\ strayed' \in BOOLEAN /\ (strayed => strayed')
        /\ x = "stopped" => machine' = "gone"
        /\ x = "unstopped" => strayed'
  BY <1>1 DEF ProviderStop, Box, box, SbTypes
<1>4. /\ sbCall' \in [SbCall -> SbCallRow]
      /\ sbCall'[c].pc = x /\ sbCall'[c].op = sbCall[c].op /\ sbCall'[c].s = sbCall[c].s
      /\ \A d \in SbCall : d # c => sbCall'[d] = sbCall[d]
  BY <1>1, <1>3, SbGoes
<1>5. SbTypes'
  BY <1>1, <1>2, <1>3, <1>4 DEF SbTypes
<1>6. /\ \A s \in 1..Len(sess') : sess'[s].stop = "stopped" => SaysStopped
      /\ lease' = "stopped" => LeaseIsEnding
      /\ preview'.status = "stopped" => SaysStopped
  BY <1>2 DEF SaysStopped, LeaseIsEnding
<1>7. QED
  BY <1>1, <1>2, <1>3, <1>4, <1>5, <1>6, SbStepInv DEF OpeningPlace

\* The promise settles as the provider answered; the lease row is closed, or the store failed.
LEMMA SbStopSettles == ASSUME SbInv, NEW c \in SbCall, StopSettles(c) PROVE SbInv'
<1>1. sbCall[c].pc \in {"stopped", "unstopped"} /\ SbTypes /\ "stop" \in SbPlace /\ SbGo(c, "stop")
  BY DEF StopSettles, SbInv, SbPlace, SessionPlace
<1>2. /\ machine # "absent" /\ sbCall[c].s \in 1..Len(sess) /\ Len(sess) \in Nat
      /\ UNCHANGED <<machine, revived, strayed, preview, tracked>>
  BY <1>1, SbPresent
     DEF StopSettles, box, marks, SbInv, SbTypes, SessionsExist, SessionOf, SessionPlace
<1>3. PICK st \in {"stopped", "unstopped"} :
        sess' = [sess EXCEPT ![sbCall[c].s].stop = st] /\ (st = "stopped" => sbCall[c].pc = "stopped")
  BY <1>1 DEF StopSettles, SessionOf
<1>4. /\ sess' \in Seq(SessionType) /\ Len(sess') = Len(sess)
      /\ \A s \in 1..Len(sess) : sess'[s].stop \in {sess[s].stop, st}
  BY <1>1, <1>2, <1>3, SbSettles
<1>5. lease' = lease \/ (lease' = "stopped" /\ lease = "active")
  BY DEF StopSettles, CloseLease
<1>6. /\ sbCall' \in [SbCall -> SbCallRow]
      /\ sbCall'[c].pc = "stop" /\ sbCall'[c].op = sbCall[c].op /\ sbCall'[c].s = sbCall[c].s
      /\ \A d \in SbCall : d # c => sbCall'[d] = sbCall[d]
  BY <1>1, SbGoes
<1>7. SbTypes'
  BY <1>1, <1>2, <1>4, <1>5, <1>6 DEF SbTypes
<1>8. \A s \in 1..Len(sess') : sess'[s].stop = "stopped" => SaysStopped
  <2>1. sbCall[c].pc = "stopped" => SaysStopped
    BY DEF SaysStopped, SbAt
  <2>2. QED
    BY <1>3, <1>4, <2>1 DEF SaysStopped
<1>9. LeaseIsEnding /\ (preview'.status = "stopped" => SaysStopped)
  BY <1>1, <1>2 DEF SaysStopped, LeaseIsEnding
<1>10. QED
  BY <1>1, <1>2, <1>4, <1>5, <1>6, <1>7, <1>8, <1>9, SbStepInv DEF OpeningPlace, SessionPlace

LEMMA SbStopReturns == ASSUME SbInv, NEW c \in SbCall, StopReturns(c) PROVE SbInv'
<1>1. /\ sbCall[c].pc = "stop" /\ SbTypes /\ "close" \in SbPlace
      /\ sess[sbCall[c].s].stop \in {"stopped", "unstopped"}
  BY DEF StopReturns, SbAt, SessionOf, SbInv, SbPlace
<1>2. /\ machine # "absent" /\ sbCall[c].s \in 1..Len(sess)
      /\ UNCHANGED <<machine, revived, strayed, lease, preview, sess>>
  BY <1>1, SbPresent
     DEF StopReturns, box, rows, marks, SbInv, SessionsExist, SessionOf, SessionPlace
<1>3. tracked' \in [SbProc -> 0..Len(sess)]
  <2>1. tracked' = tracked \/ tracked' = [tracked EXCEPT ![ProcOf(c)] = 0]
    BY DEF StopReturns, Track
  <2>2. 0 \in 0..Len(sess) /\ tracked \in [SbProc -> 0..Len(sess)]
    BY <1>1 DEF SbTypes
  <2>3. QED
    BY <2>1, <2>2
<1>4. CASE SbEnd(c)
  BY <1>1, <1>2, <1>3, <1>4, SbEnds, SbCalmInv DEF OpeningPlace, SessionPlace
<1>5. CASE SbGo(c, "close") /\ (sbCall[c].op = "stop" => sess[sbCall[c].s].stop = "stopped")
  <2>1. sbCall[c].op = "stop" => SaysStopped
    BY <1>2, <1>5 DEF SaysStopped
  <2>2. QED
    BY <1>1, <1>2, <1>3, <1>5, <2>1, SbGoes, SbCalmInv DEF OpeningPlace, SessionPlace
<1>6. QED
  BY <1>1, <1>4, <1>5 DEF StopReturns, SessionOf

LEMMA SbFindSession == ASSUME SbInv, NEW c \in SbCall, FindSession(c) PROVE SbInv'
<1>1. sbCall[c].pc = "session" /\ SbTypes /\ {"stop", "probe", "readLease"} \subseteq SbPlace
  BY DEF FindSession, SbAt, SbInv, SbPlace, SessionPlace
<1>2. /\ machine # "absent" /\ Len(sess) \in Nat
      /\ UNCHANGED <<machine, revived, strayed, lease, preview, sess>>
      /\ tracked' \in [SbProc -> 0..Len(sess)]
  BY <1>1, SbPresent DEF FindSession, box, rows, marks, handles, SbTypes
<1>3. ASSUME NEW x \in {"stop", "probe"}, SbWith(c, x, tracked[ProcOf(c)]), tracked[ProcOf(c)] # 0
      PROVE  SbInv'
  <2>1. ProcOf(c) \in SbProc
    BY <1>1 DEF SbTypes, SbCallRow, ProcOf
  <2>2. PICK s \in 1..Len(sess) : s = tracked[ProcOf(c)]
    BY <1>1, <1>2, <1>3, <2>1 DEF SbTypes
  <2>3. s \in Nat /\ SbWith(c, x, s)
    BY <1>2, <1>3, <2>2
  <2>4. QED
    BY <1>1, <1>2, <1>3, <2>2, <2>3, SbWiths, SbCalmInv DEF OpeningPlace, SessionPlace
<1>4. CASE SbGo(c, "readLease")
  BY <1>1, <1>2, <1>4, SbGoes, SbCalmInv DEF OpeningPlace, SessionPlace
<1>5. QED
  BY <1>3, <1>4 DEF FindSession

\* Without a session, a call ends or goes on to expire the preview.
LEMMA SbMisses ==
    ASSUME SbTypes, NEW c \in SbCall, SessionMissing(c), sbCall[c].pc # "idle"
    PROVE  /\ sbCall' \in [SbCall -> SbCallRow]
           /\ sbCall'[c].pc \in {"idle", "expire"} /\ sbCall'[c].op \in {sbCall[c].op, "none"}
           /\ \A d \in SbCall : d # c => sbCall'[d] = sbCall[d]
<1>1. "expire" \in SbPlace /\ 0 \in Nat
  BY DEF SbPlace
<1>2. CASE SbWith(c, "expire", 0)
  BY <1>1, <1>2, SbWiths
<1>3. CASE SbEnd(c)
  BY <1>3, SbEnds
<1>4. QED
  BY <1>2, <1>3 DEF SessionMissing

LEMMA SbReadLease == ASSUME SbInv, NEW c \in SbCall, ReadLease(c) PROVE SbInv'
<1>1. sbCall[c].pc = "readLease" /\ SbTypes /\ "connect" \in SbPlace
  BY DEF ReadLease, SbAt, SbInv, SbPlace
<1>2. /\ machine # "absent"
      /\ UNCHANGED <<machine, revived, strayed, preview, sess>>
      /\ tracked' \in [SbProc -> 0..Len(sess)]
  BY <1>1, SbPresent DEF ReadLease, box, marks, handles, SbTypes
<1>3. preview'.status = "stopped" => SaysStopped
  BY <1>2 DEF SaysStopped
<1>4. CASE SessionMissing(c) /\ (lease' = lease \/ (lease' = "expired" /\ lease = "active"))
  BY <1>1, <1>2, <1>3, <1>4, SbMisses, SbRowsInv DEF OpeningPlace, SessionPlace
<1>5. CASE SbGo(c, "connect") /\ UNCHANGED lease
  BY <1>1, <1>2, <1>5, SbGoes, SbCalmInv DEF OpeningPlace, SessionPlace
<1>6. QED
  BY <1>4, <1>5 DEF ReadLease, CloseLease

LEMMA SbConnectFails == ASSUME SbInv, NEW c \in SbCall, ConnectFails(c) PROVE SbInv'
<1>1. sbCall[c].pc = "connect" /\ SbTypes /\ SessionMissing(c)
  BY DEF ConnectFails, SbAt, SbInv
<1>2. /\ machine # "absent"
      /\ UNCHANGED <<machine, revived, strayed, lease, preview, sess>>
      /\ tracked' \in [SbProc -> 0..Len(sess)]
  BY <1>1, SbPresent DEF ConnectFails, box, rows, marks, handles, SbTypes
<1>3. QED
  BY <1>1, <1>2, SbMisses, SbCalmInv DEF OpeningPlace, SessionPlace

\* A new SandboxSession object of a process of the call.
LEMMA SbJoins ==
    ASSUME SbTypes, NEW p \in SbProc, NewSession(p)
    PROVE  /\ sess' \in Seq(SessionType) /\ Len(sess') = Len(sess) + 1 /\ Len(sess) \in Nat
           /\ \A s \in 1..Len(sess') : sess'[s].stop = "stopped" => SaysStopped
<1>1. PICK r : r = [proc |-> p, stop |-> "no"]
  OBVIOUS
<1>2. r \in SessionType /\ r.stop # "stopped" /\ sess \in Seq(SessionType)
  BY <1>1 DEF SessionType, SbTypes
<1>3. sess' = Append(sess, r)
  BY <1>1 DEF NewSession
<1>4. /\ sess' \in Seq(SessionType) /\ Len(sess') = Len(sess) + 1 /\ Len(sess) \in Nat
      /\ sess'[Len(sess) + 1] = r /\ \A s \in 1..Len(sess) : sess'[s] = sess[s]
  BY <1>2, <1>3
<1>5. ASSUME NEW s \in 1..Len(sess'), sess'[s].stop = "stopped" PROVE SaysStopped
  <2>1. s \in 1..Len(sess) /\ sess[s].stop = "stopped"
    BY <1>2, <1>4, <1>5
  <2>2. QED
    BY <2>1 DEF SaysStopped
<1>6. QED
  BY <1>4, <1>5

LEMMA SbCreateLease == ASSUME SbInv, NEW c \in SbCall, CreateLease(c) PROVE SbInv'
<1>1. /\ sbCall[c].pc = "lease" /\ SbTypes /\ "files" \in SbPlace /\ sbCall[c].op = "open"
      /\ preview.status = "none"
  BY DEF CreateLease, SbAt, SbInv, SbPlace, OpeningPlace, OpensOnce
<1>2. machine # "absent" /\ UNCHANGED <<revived, preview, tracked>> /\ ProcOf(c) \in SbProc
  BY <1>1, SbPresent DEF CreateLease, SbTypes, SbCallRow, ProcOf
<1>3. CASE /\ lease' = "active" /\ NewSession(ProcOf(c)) /\ SbWith(c, "files", Len(sess) + 1)
           /\ UNCHANGED <<box, strayed>>
  <2>1. /\ sess' \in Seq(SessionType) /\ Len(sess') = Len(sess) + 1 /\ Len(sess) \in Nat
        /\ \A s \in 1..Len(sess') : sess'[s].stop = "stopped" => SaysStopped
    BY <1>1, <1>2, <1>3, SbJoins
  <2>2. Len(sess) + 1 \in Nat
    BY <2>1
  <2>3. /\ sbCall' \in [SbCall -> SbCallRow] /\ sbCall'[c].pc = "files"
        /\ sbCall'[c].op = sbCall[c].op /\ sbCall'[c].s = Len(sess) + 1
        /\ \A d \in SbCall : d # c => sbCall'[d] = sbCall[d]
    BY <1>1, <1>3, <2>2, SbWiths
  <2>4. tracked' \in [SbProc -> 0..Len(sess')]
    BY <1>1, <1>2, <2>1 DEF SbTypes
  <2>5. SbTypes'
    BY <1>1, <1>2, <1>3, <2>1, <2>3, <2>4 DEF SbTypes, box
  <2>6. machine' = machine /\ strayed' = strayed
    BY <1>3 DEF box
  <2>7. QED
    BY <1>1, <1>2, <1>3, <2>1, <2>3, <2>5, <2>6, SbStepInv DEF OpeningPlace
<1>4. CASE /\ SbEnd(c) /\ UNCHANGED <<lease, sess>>
           /\ \/ Box("gone") /\ UNCHANGED strayed
              \/ strayed' = TRUE /\ UNCHANGED box
  <2>1. /\ machine' \in {machine, "gone"} /\ (strayed => strayed') /\ strayed' \in BOOLEAN
        /\ strayed' \/ machine' # "running"
    <3>1. CASE Box("gone") /\ UNCHANGED strayed
      <4>1. machine' = "gone" /\ strayed' = strayed
        BY <3>1 DEF Box
      <4>2. QED
        BY <1>1, <4>1 DEF SbTypes
    <3>2. CASE strayed' = TRUE /\ UNCHANGED box
      BY <3>2 DEF box
    <3>3. QED
      BY <1>4, <3>1, <3>2
  <2>2. /\ sbCall' \in [SbCall -> SbCallRow] /\ sbCall'[c].pc = "idle" /\ sbCall'[c].op = "none"
        /\ \A d \in SbCall : d # c => sbCall'[d] = sbCall[d]
    BY <1>1, <1>4, SbEnds
  <2>3. SbTypes' /\ Len(sess) \in Nat
    BY <1>1, <1>2, <1>4, <2>1, <2>2 DEF SbTypes
  <2>4. /\ \A s \in 1..Len(sess') : sess'[s].stop = "stopped" => SaysStopped
        /\ lease' = "stopped" => LeaseIsEnding
    BY <1>4 DEF SaysStopped, LeaseIsEnding
  <2>5. QED
    BY <1>1, <1>2, <1>4, <2>1, <2>2, <2>3, <2>4, SbStepInv DEF OpeningPlace, SessionPlace
<1>5. QED
  BY <1>3, <1>4 DEF CreateLease

\* A reconnect: it finds the sandbox as it is, or starts it.
LEMMA SbConnectTo ==
    ASSUME SbInv, NEW c \in SbCall, NEW m \in {machine, "running"}, ConnectTo(c, m)
    PROVE  SbInv'
<1>1. sbCall[c].pc = "connect" /\ SbTypes /\ {"stop", "probe"} \subseteq SbPlace
  BY DEF ConnectTo, SbAt, SbInv, SbPlace, SessionPlace
<1>2. /\ machine # "absent" /\ UNCHANGED <<lease, preview>> /\ ProcOf(c) \in SbProc
      /\ NewSession(ProcOf(c)) /\ machine' = m
  BY <1>1, SbPresent DEF ConnectTo, rows, Box, SbTypes, SbCallRow, ProcOf
<1>3. /\ sess' \in Seq(SessionType) /\ Len(sess') = Len(sess) + 1 /\ Len(sess) \in Nat
      /\ \A s \in 1..Len(sess') : sess'[s].stop = "stopped" => SaysStopped
  BY <1>1, <1>2, SbJoins
<1>4. PICK x \in {"stop", "probe"} : SbWith(c, x, Len(sess) + 1)
  BY DEF ConnectTo
<1>5. Len(sess) + 1 \in Nat
  BY <1>3
<1>6. /\ sbCall' \in [SbCall -> SbCallRow] /\ sbCall'[c].pc = x
      /\ sbCall'[c].op = sbCall[c].op /\ sbCall'[c].s = Len(sess) + 1
      /\ \A d \in SbCall : d # c => sbCall'[d] = sbCall[d]
  BY <1>1, <1>4, <1>5, SbWiths
<1>7. tracked' \in [SbProc -> 0..Len(sess')]
  <2>1. tracked' = [tracked EXCEPT ![ProcOf(c)] = Len(sess) + 1]
    BY DEF ConnectTo, Track
  <2>2. Len(sess) + 1 \in 0..Len(sess') /\ tracked \in [SbProc -> 0..Len(sess')]
    BY <1>1, <1>3 DEF SbTypes
  <2>3. QED
    BY <2>1, <2>2
<1>8. /\ revived' \in BOOLEAN /\ strayed' \in BOOLEAN
      /\ (revived => revived') /\ (strayed => strayed')
      /\ m # machine => revived' /\ strayed'
  BY <1>1 DEF ConnectTo, SbTypes
<1>9. SbTypes'
  BY <1>1, <1>2, <1>3, <1>6, <1>7, <1>8 DEF SbTypes
<1>10. /\ preview'.status = "stopped" => SaysStopped
       /\ lease' = "stopped" => LeaseIsEnding
  BY <1>2 DEF SaysStopped, LeaseIsEnding
<1>11. machine' \in {machine, "gone"} \/ (machine' = "running" /\ revived' /\ strayed')
  BY <1>2, <1>8
<1>12. QED
  BY <1>1, <1>2, <1>3, <1>4, <1>6, <1>8, <1>9, <1>10, <1>11, SbStepInv DEF OpeningPlace

\* An operation in the sandbox: it may end it, or start it again with a mark.
LEMMA SbOperates ==
    ASSUME SbInv, machine # "absent", NEW c \in SbCall, NEW m \in {machine, "running", "gone"},
           machine' = m, revived' \in BOOLEAN, strayed' \in BOOLEAN,
           revived => revived', strayed => strayed',
           m = "running" /\ machine = "gone" => revived' /\ strayed',
           UNCHANGED <<lease, preview, sess, tracked>>,
           sbCall' \in [SbCall -> SbCallRow],
           \A d \in SbCall : d # c => sbCall'[d] = sbCall[d],
           sbCall'[c].op \in {sbCall[c].op, "none"},
           sbCall'[c].pc \in {"idle", "ready", "stop"}, sbCall[c].pc # "lease",
           sbCall'[c].pc \in SessionPlace => sbCall'[c].s \in 1..Len(sess)
    PROVE  SbInv'
<1>1. SbTypes /\ Len(sess) \in Nat /\ machine \in {"running", "gone"}
  BY DEF SbInv, SbTypes
<1>2. SbTypes'
  BY <1>1 DEF SbTypes
<1>3. /\ \A s \in 1..Len(sess') : sess'[s].stop = "stopped" => SaysStopped
      /\ preview'.status = "stopped" => SaysStopped
      /\ lease' = "stopped" => LeaseIsEnding
  BY DEF SaysStopped, LeaseIsEnding
<1>4. machine' \in {machine, "gone"} \/ (machine' = "running" /\ revived' /\ strayed')
  BY <1>1
<1>5. QED
  BY <1>1, <1>2, <1>3, <1>4, SbStepInv DEF OpeningPlace, SessionPlace

LEMMA SbExecute ==
    ASSUME SbInv, NEW c \in SbCall, NEW after \in SUBSET {machine, "running", "gone"},
           Execute(c, after)
    PROVE  SbInv'
<1>1. sbCall[c].pc = "execute" /\ SbTypes /\ SbEnd(c)
  BY DEF Execute, SbAt, SbInv
<1>2. machine # "absent" /\ UNCHANGED <<lease, preview, sess, tracked>>
  BY <1>1, SbPresent DEF Execute, rows, handles
<1>3. PICK m \in after :
        /\ Box(m) /\ revived' = (revived \/ (m = "running" /\ machine = "gone"))
        /\ strayed' = (strayed \/ (m = "running" /\ machine = "gone"))
  BY DEF Execute
<1>4. /\ m \in {machine, "running", "gone"} /\ machine' = m
      /\ revived' \in BOOLEAN /\ strayed' \in BOOLEAN
      /\ (revived => revived') /\ (strayed => strayed')
      /\ m = "running" /\ machine = "gone" => revived' /\ strayed'
  BY <1>1, <1>3 DEF Box, SbTypes
<1>5. /\ sbCall' \in [SbCall -> SbCallRow]
      /\ sbCall'[c].pc = "idle" /\ sbCall'[c].op = "none"
      /\ \A d \in SbCall : d # c => sbCall'[d] = sbCall[d]
  BY <1>1, SbEnds
<1>6. QED
  BY <1>1, <1>2, <1>4, <1>5, SbOperates DEF SessionPlace

LEMMA SbProbe == ASSUME SbInv, NEW c \in SbCall, Probe(c) PROVE SbInv'
<1>1. sbCall[c].pc = "probe" /\ SbTypes /\ {"ready", "stop"} \subseteq SbPlace
  BY DEF Probe, SbAt, SbInv, SbPlace, SessionPlace
<1>2. /\ machine # "absent" /\ sbCall[c].s \in 1..Len(sess)
      /\ UNCHANGED <<lease, preview, sess, tracked>>
  BY <1>1, SbPresent DEF Probe, rows, handles, SbInv, SessionsExist, SessionOf, SessionPlace
<1>3. PICK m \in {machine, "running"} :
        /\ machine' = m /\ revived' \in BOOLEAN /\ strayed' \in BOOLEAN
        /\ (revived => revived') /\ (strayed => strayed')
        /\ m = "running" /\ machine = "gone" => revived' /\ strayed'
  <2>1. CASE UNCHANGED <<box, revived, strayed>>
    BY <1>1, <2>1 DEF box, SbTypes
  <2>2. CASE /\ Box("running") /\ revived' = (revived \/ machine = "gone")
             /\ strayed' = (strayed \/ machine = "gone")
    BY <1>1, <2>2 DEF Box, SbTypes
  <2>3. QED
    BY <2>1, <2>2 DEF Probe
<1>4. CASE SbEnd(c)
  BY <1>1, <1>2, <1>3, <1>4, SbEnds, SbOperates DEF SessionPlace
<1>5. ASSUME NEW x \in {"ready", "stop"}, SbGo(c, x) PROVE SbInv'
  BY <1>1, <1>2, <1>3, <1>5, SbGoes, SbOperates
<1>6. QED
  BY <1>4, <1>5 DEF Probe

LEMMA SbBegins ==
    ASSUME SbTypes, NEW c \in SbCall, NEW p \in SbProc, NEW op \in SbOperation, NEW x \in SbPlace,
           NEW s \in Nat, SbBegin(c, p, op, x, s)
    PROVE  /\ sbCall[c].pc = "idle"
           /\ sbCall' \in [SbCall -> SbCallRow]
           /\ sbCall'[c].pc = x /\ sbCall'[c].op = op /\ sbCall'[c].s = s
           /\ \A d \in SbCall : d # c => sbCall'[d] = sbCall[d]
<1>1. PICK r : r = [pc |-> x, proc |-> p, op |-> op, s |-> s]
  OBVIOUS
<1>2. r \in SbCallRow /\ r.pc = x /\ r.op = op /\ r.s = s
  BY <1>1 DEF SbCallRow
<1>3. sbCall' = [sbCall EXCEPT ![c] = r] /\ sbCall \in [SbCall -> SbCallRow]
  BY <1>1 DEF SbBegin, SbTypes
<1>4. QED
  BY <1>2, <1>3 DEF SbBegin, SbAt

LEMMA SbVisit == ASSUME SbInv, NEW c \in SbCall, NEW p \in SbProc, Visit(c, p) PROVE SbInv'
<1>1. SbTypes /\ "get" \in SbPlace /\ 0 \in Nat
  BY DEF SbInv, SbPlace
<1>2. /\ machine # "absent"
      /\ UNCHANGED <<machine, revived, strayed, lease, preview, sess>>
      /\ tracked' \in [SbProc -> 0..Len(sess)]
  BY <1>1 DEF Visit, box, rows, marks, handles, SbTypes, SbInv, NothingYet
<1>3. PICK op \in {"get", "retarget", "reconnect", "stop"} : SbBegin(c, p, op, "get", 0)
  BY DEF Visit
<1>4. op \in SbOperation
  BY DEF SbOperation
<1>5. QED
  BY <1>1, <1>2, <1>3, <1>4, SbBegins, SbCalmInv DEF OpeningPlace, SessionPlace

LEMMA SbCleanup == ASSUME SbInv, NEW c \in SbCall, NEW p \in SbProc, Cleanup(c, p) PROVE SbInv'
<1>1. SbTypes /\ {"stop", "close"} \subseteq SbPlace /\ "cleanup" \in SbOperation
  BY DEF SbInv, SbPlace, SessionPlace, SbOperation
<1>2. /\ machine # "absent" /\ Len(sess) \in Nat
      /\ UNCHANGED <<machine, revived, strayed, lease, preview, sess>>
      /\ tracked' \in [SbProc -> 0..Len(sess)]
  BY <1>1 DEF Cleanup, box, rows, marks, handles, SbTypes, SbInv, NothingYet, PreviewLive
<1>3. PICK s \in 0..Len(sess) : s = tracked[p]
  BY <1>1 DEF SbTypes
<1>4. PICK x \in {"stop", "close"} :
        SbBegin(c, p, "cleanup", x, s) /\ (x = "stop" => s # 0)
  BY <1>3 DEF Cleanup
<1>5. s \in Nat /\ (x = "stop" => s \in 1..Len(sess))
  BY <1>2, <1>4
<1>6. QED
  BY <1>1, <1>2, <1>4, <1>5, SbBegins, SbCalmInv DEF OpeningPlace, SessionPlace

\* A call with a session that was not stopped: its owner ends it, or a command asks leave.
LEMMA SbUses ==
    ASSUME SbInv, NEW c \in SbCall, NEW s \in DOMAIN sess, EndSandbox(c, s) \/ Command(c, s)
    PROVE  SbInv'
<1>1. SbTypes /\ {"stop", "authorize"} \subseteq SbPlace /\ {"end", "use"} \subseteq SbOperation
  BY DEF SbInv, SbPlace, SessionPlace, SbOperation
<1>2. /\ Len(sess) \in Nat /\ s \in 1..Len(sess) /\ sess[s].proc \in SbProc
  <2>1. sess \in Seq(SessionType) /\ DOMAIN sess = 1..Len(sess) /\ Len(sess) \in Nat
    BY <1>1 DEF SbTypes
  <2>2. sess[s] \in SessionType
    BY <2>1
  <2>3. QED
    BY <2>1, <2>2 DEF SessionType
<1>3. /\ machine # "absent"
      /\ UNCHANGED <<machine, revived, strayed, lease, preview, sess>>
      /\ tracked' \in [SbProc -> 0..Len(sess)]
  BY <1>1, <1>2 DEF EndSandbox, Command, box, rows, marks, handles, SbTypes, SbInv, NothingYet
<1>4. PICK x \in {"stop", "authorize"}, op \in {"end", "use"} : SbBegin(c, sess[s].proc, op, x, s)
  BY DEF EndSandbox, Command
<1>5. PICK p \in SbProc : p = sess[s].proc
  BY <1>2
<1>6. s \in Nat /\ SbBegin(c, p, op, x, s)
  BY <1>2, <1>4, <1>5
<1>7. QED
  BY <1>1, <1>2, <1>3, <1>4, <1>6, SbBegins, SbCalmInv DEF OpeningPlace

LEMMA SbOpenPreview ==
    ASSUME SbInv, NEW c \in SbCall, NEW p \in SbProc, OpenPreview(c, p) PROVE SbInv'
<1>1. /\ SbTypes /\ "create" \in SbPlace /\ "open" \in SbOperation /\ 0 \in Nat
  BY DEF SbInv, SbPlace, OpeningPlace, SbOperation
<1>2. /\ machine = "absent" /\ \A d \in SbCall : sbCall[d].op # "open"
      /\ UNCHANGED <<machine, revived, strayed, lease, preview, sess, tracked>>
      /\ SbBegin(c, p, "open", "create", 0)
  BY DEF OpenPreview, box, rows, marks, handles
<1>3. /\ sbCall' \in [SbCall -> SbCallRow]
      /\ sbCall'[c].pc = "create" /\ sbCall'[c].op = "open"
      /\ \A d \in SbCall : d # c => sbCall'[d] = sbCall[d]
  BY <1>1, <1>2, SbBegins
<1>4. /\ lease = "none" /\ preview.status = "none" /\ Len(sess) = 0
      /\ \A d \in SbCall : sbCall[d].pc = "idle"
  <2>1. \A d \in SbCall : sbCall[d].pc # "create"
    BY <1>2 DEF SbInv, OpensOnce, OpeningPlace
  <2>2. QED
    BY <1>2, <2>1 DEF SbInv, NothingYet
<1>5. SbTypes'
  BY <1>1, <1>2, <1>3 DEF SbTypes
<1>6. NothingYet' /\ OpensOnce' /\ SessionsExist'
  BY <1>2, <1>3, <1>4 DEF NothingYet, OpensOnce, SessionsExist, SbAt, OpeningPlace, SessionPlace
<1>7. StoppedIsGone' /\ LeaseTellsTrue'
  BY <1>2, <1>3, <1>4
     DEF StoppedIsGone, SaysStopped, LeaseTellsTrue, LeaseIsEnding, SbAt, SbOp
<1>8. QED
  BY <1>5, <1>6, <1>7 DEF SbInv

LEMMA SbCreate == ASSUME SbInv, NEW c \in SbCall, NEW cleans, Create(c, cleans) PROVE SbInv'
<1>1. /\ SbTypes /\ "lease" \in SbPlace /\ sbCall[c].pc = "create" /\ sbCall[c].op = "open"
      /\ UNCHANGED <<revived, lease, preview, sess, tracked>>
  BY DEF SbInv, SbPlace, OpeningPlace, Create, SbOp, SbAt, rows, handles
<1>2. /\ machine = "absent" /\ lease = "none" /\ preview.status = "none" /\ Len(sess) = 0
      /\ \A d \in SbCall : d # c => sbCall[d].pc = "idle" /\ sbCall[d].op # "open"
  <2>1. machine = "absent"
    BY <1>1 DEF SbInv, OpensOnce, SbAt
  <2>2. ASSUME NEW d \in SbCall, d # c PROVE sbCall[d].op # "open"
    BY <1>1, <2>2 DEF SbInv, OpensOnce
  <2>3. ASSUME NEW d \in SbCall, d # c PROVE sbCall[d].pc # "create"
    BY <2>2, <2>3 DEF SbInv, OpensOnce, OpeningPlace
  <2>4. QED
    BY <2>1, <2>2, <2>3 DEF SbInv, NothingYet
<1>3. PICK m \in {"absent", "running", "gone"} :
        /\ machine' = m /\ strayed' \in BOOLEAN
        /\ \/ m = "running" /\ SbGo(c, "lease")
           \/ SbEnd(c) /\ (m = "running" => strayed')
  <2>1. CASE Box("running") /\ SbGo(c, "lease") /\ UNCHANGED <<strayed, sbFaults>>
    BY <1>1, <2>1 DEF Box, SbTypes
  <2>2. CASE SbEnd(c) /\ UNCHANGED <<box, strayed, sbFaults>>
    BY <1>1, <1>2, <2>2 DEF box, SbTypes
  <2>3. CASE SbEnd(c) /\ Box("gone") /\ UNCHANGED <<strayed, sbFaults>>
    BY <1>1, <2>3 DEF Box, SbTypes
  <2>4. CASE SbEnd(c) /\ Box("running") /\ strayed' = TRUE
    BY <1>1, <2>4 DEF Box
  <2>5. QED
    BY <2>1, <2>2, <2>3, <2>4 DEF Create
<1>4. /\ sbCall' \in [SbCall -> SbCallRow]
      /\ \/ sbCall'[c].pc = "lease" /\ sbCall'[c].op = "open" /\ m = "running"
         \/ sbCall'[c].pc = "idle" /\ sbCall'[c].op = "none" /\ (m = "running" => strayed')
      /\ \A d \in SbCall : d # c => sbCall'[d] = sbCall[d]
  <2>1. CASE m = "running" /\ SbGo(c, "lease")
    BY <1>1, <2>1, SbGoes
  <2>2. CASE SbEnd(c) /\ (m = "running" => strayed')
    BY <1>1, <2>2, SbEnds
  <2>3. QED
    BY <1>3, <2>1, <2>2
<1>5. SbTypes'
  BY <1>1, <1>3, <1>4 DEF SbTypes
<1>6. NothingYet' /\ OpensOnce' /\ SessionsExist'
  BY <1>1, <1>2, <1>3, <1>4
     DEF NothingYet, OpensOnce, SessionsExist, SbAt, OpeningPlace, SessionPlace
<1>7. StoppedIsGone' /\ LeaseTellsTrue'
  BY <1>1, <1>2, <1>3, <1>4
     DEF StoppedIsGone, SaysStopped, LeaseTellsTrue, LeaseIsEnding, SbAt, SbOp
<1>8. QED
  BY <1>5, <1>6, <1>7 DEF SbInv

LEMMA SbStutters ==
    ASSUME SbInv, UNCHANGED <<machine, revived, strayed, lease, preview, sess, tracked, sbCall>>
    PROVE  SbInv'
<1>1. SbTypes' /\ NothingYet' /\ OpensOnce' /\ SessionsExist'
  BY DEF SbInv, SbTypes, NothingYet, OpensOnce, SbAt, SessionsExist, SessionOf
<1>2. StoppedIsGone' /\ LeaseTellsTrue'
  BY DEF SbInv, StoppedIsGone, SaysStopped, LeaseTellsTrue, LeaseIsEnding, SbAt, SbOp
<1>3. QED
  BY <1>1, <1>2 DEF SbInv

LEMMA SbProviderExpires == ASSUME SbInv, ProviderExpires PROVE SbInv'
<1>1. /\ machine = "running" /\ machine' = "gone"
      /\ UNCHANGED <<revived, strayed, lease, preview, sess, tracked, sbCall>>
  BY DEF ProviderExpires, Box, rows, handles, marks
<1>2. SbTypes' /\ NothingYet' /\ OpensOnce' /\ SessionsExist'
  BY <1>1 DEF SbInv, SbTypes, NothingYet, OpensOnce, SbAt, SessionsExist, SessionOf
<1>3. StoppedIsGone' /\ LeaseTellsTrue'
  BY <1>1 DEF StoppedIsGone, LeaseTellsTrue
<1>4. QED
  BY <1>2, <1>3 DEF SbInv

\* A crash takes the calls and the sessions of a process, and marks what it may leave.
LEMMA SbCrashProc == ASSUME SbInv, NEW p \in SbProc, CrashProc(p) PROVE SbInv'
<1>1. /\ strayed' = TRUE /\ UNCHANGED <<machine, revived, lease, preview>> /\ SbTypes
      /\ sbCall' = [c \in SbCall |-> IF ProcOf(c) = p THEN IdleSb ELSE sbCall[c]]
      /\ tracked' = [tracked EXCEPT ![p] = 0]
      /\ sess' = [s \in DOMAIN sess |-> IF sess[s].proc = p THEN [sess[s] EXCEPT !.stop = "lost"]
                                                            ELSE sess[s]]
  BY DEF CrashProc, box, rows, Track, SbInv
<1>2. /\ sbCall' \in [SbCall -> SbCallRow]
      /\ \A c \in SbCall : sbCall'[c] = sbCall[c] \/ (sbCall'[c].pc = "idle" /\ sbCall'[c].op = "none")
  <2>1. IdleSb \in SbCallRow /\ IdleSb.pc = "idle" /\ IdleSb.op = "none"
    BY DEF IdleSb, SbCallRow, SbPlace, SbOperation
  <2>2. QED
    BY <1>1, <2>1 DEF SbTypes
<1>3. /\ sess' \in Seq(SessionType) /\ Len(sess') = Len(sess) /\ Len(sess) \in Nat
      /\ \A s \in 1..Len(sess) : sess'[s].stop \in {sess[s].stop, "lost"}
  <2>1. /\ Len(sess) \in Nat /\ DOMAIN sess = 1..Len(sess)
        /\ \A s \in 1..Len(sess) : sess[s] \in SessionType
    BY <1>1 DEF SbTypes
  <2>2. ASSUME NEW s \in 1..Len(sess)
        PROVE  sess'[s] \in SessionType /\ sess'[s].stop \in {sess[s].stop, "lost"}
    BY <1>1, <2>1, <2>2 DEF SessionType
  <2>3. sess' \in [1..Len(sess) -> SessionType]
    BY <1>1, <2>1, <2>2
  <2>4. sess' \in Seq(SessionType) /\ Len(sess') = Len(sess)
    BY <2>1, <2>3
  <2>5. QED
    BY <2>1, <2>2, <2>4
<1>4. tracked' \in [SbProc -> 0..Len(sess')]
  BY <1>1, <1>3 DEF SbTypes
<1>5. SbTypes'
  BY <1>1, <1>2, <1>3, <1>4 DEF SbTypes
<1>6. NothingYet' /\ SessionsExist'
  BY <1>1, <1>2, <1>3 DEF SbInv, NothingYet, SessionsExist, SessionOf, SessionPlace
<1>7. OpensOnce'
  <2>1. ASSUME NEW c \in SbCall, sbCall'[c].pc = "create" PROVE machine' = "absent"
    BY <1>1, <1>2, <2>1 DEF SbInv, OpensOnce, SbAt
  <2>2. ASSUME NEW c \in SbCall, sbCall'[c].pc \in OpeningPlace
        PROVE  sbCall'[c].op = "open" /\ preview'.status = "none"
    BY <1>1, <1>2, <2>2 DEF SbInv, OpensOnce, OpeningPlace
  <2>3. ASSUME NEW c \in SbCall, NEW d \in SbCall, sbCall'[c].op = "open", sbCall'[d].op = "open"
        PROVE  c = d
    <3>1. sbCall[c].op = "open" /\ sbCall[d].op = "open"
      BY <1>2, <2>3
    <3>2. QED
      BY <3>1 DEF SbInv, OpensOnce
  <2>4. QED
    BY <2>1, <2>2, <2>3 DEF OpensOnce, SbAt
<1>8. StoppedIsGone' /\ LeaseTellsTrue'
  <2>1. SaysStopped' => SaysStopped
    BY <1>1, <1>2, <1>3 DEF SaysStopped, SbAt, SbOp
  <2>2. QED
    BY <1>1, <2>1 DEF SbInv, StoppedIsGone, LeaseTellsTrue
<1>9. QED
  BY <1>5, <1>6, <1>7, <1>8 DEF SbInv

LEMMA SbNextInv == ASSUME SbInv, [SbNext]_sbVars PROVE SbInv'
<1>1. CASE UNCHANGED sbVars \/ Deadline
  BY <1>1, SbStutters DEF sbVars, Deadline, box, rows, handles, marks
<1>2. CASE \E p \in SbProc : CrashProc(p)
  BY <1>2, SbCrashProc
<1>3. CASE \E p \in SbProc, c \in SbCall : OpenPreview(c, p) \/ Visit(c, p) \/ Cleanup(c, p)
  BY <1>3, SbOpenPreview, SbVisit, SbCleanup
<1>4. CASE \E c \in SbCall, s \in DOMAIN sess : EndSandbox(c, s) \/ Command(c, s)
  BY <1>4, SbUses
<1>5. ASSUME NEW c \in SbCall,
             \/ DockerCreate(c) \/ E2BCreate(c) \/ VercelCreate(c) \/ CloudflareCreate(c)
             \/ DaytonaCreate(c) \/ ModalCreate(c)
             \/ DockerStop(c) \/ E2BStop(c) \/ VercelStop(c) \/ CloudflareStop(c)
             \/ DaytonaStop(c) \/ ModalStop(c)
      PROVE  SbInv'
  <2>1. CASE \E cleans : Create(c, cleans)
    BY <2>1, SbCreate
  <2>2. CASE ProviderStop(c)
    BY <2>2, SbProviderStop
  <2>3. QED
    BY <1>5, <2>1, <2>2
       DEF DockerCreate, E2BCreate, VercelCreate, CloudflareCreate, DaytonaCreate, ModalCreate,
           DockerStop, E2BStop, VercelStop, CloudflareStop, DaytonaStop, ModalStop
<1>6. ASSUME NEW c \in SbCall,
             \/ DockerExecute(c) \/ E2BExecute(c) \/ VercelExecute(c)
             \/ CloudflareExecute(c) \/ DaytonaExecute(c) \/ ModalExecute(c)
             \/ E2BConnect(c) \/ VercelConnect(c) \/ CloudflareConnect(c)
      PROVE  SbInv'
  <2>1. CASE \E after \in SUBSET {machine, "running", "gone"} : Execute(c, after)
    BY <2>1, SbExecute
  <2>2. CASE \E m \in {machine, "running"} : ConnectTo(c, m)
    BY <2>2, SbConnectTo
  <2>3. {{machine}, {"running", "gone"}, {machine, "gone"}} \subseteq SUBSET {machine, "running", "gone"}
    OBVIOUS
  <2>4. QED
    BY <1>6, <2>1, <2>2, <2>3
       DEF DockerExecute, E2BExecute, VercelExecute, CloudflareExecute, DaytonaExecute, ModalExecute,
           E2BConnect, VercelConnect, CloudflareConnect
<1>7. ASSUME NEW c \in SbCall,
             \/ CreateLease(c) \/ Materialize(c) \/ CreatePreview(c) \/ Launch(c) \/ Await(c)
             \/ Ready(c) \/ FailCall(c)
      PROVE  SbInv'
  BY <1>7, SbCreateLease, SbMaterialize, SbCreatePreview, SbLaunch, SbAwait, SbReady, SbFailCall
<1>8. ASSUME NEW c \in SbCall,
             \/ StopBegins(c) \/ StopSettles(c) \/ StopReturns(c) \/ Close(c)
             \/ GetPreview(c) \/ Retarget(c) \/ FindSession(c) \/ ReadLease(c) \/ ExpirePreview(c)
             \/ ConnectFails(c) \/ Probe(c) \/ Authorize(c)
      PROVE  SbInv'
  BY <1>8, SbStopBegins, SbStopSettles, SbStopReturns, SbClose, SbGetPreview, SbRetarget,
     SbFindSession, SbReadLease, SbExpirePreview, SbConnectFails, SbProbe, SbAuthorize
<1>9. QED
  BY <1>1, <1>2, <1>3, <1>4, <1>5, <1>6, <1>7, <1>8, SbProviderExpires DEF SbNext

LEMMA SbInvAlways == SbSpec => []SbInv
<1>1. SbInit => SbInv
  BY SbInitInv
<1>2. SbInv /\ [SbNext]_sbVars => SbInv'
  BY SbNextInv
<1>3. QED
  BY <1>1, <1>2, PTL DEF SbSpec

\* A sandbox that runs is accounted for: while its preview is recorded "stopped" it runs only
\* because a reconnect started it again, and once no call is in progress it has a lease that was
\* not stopped, or a crash or a failed provider call may have left it (SandboxRegistry.open,
\* SandboxSession.stop, PreviewRegistry).
THEOREM SandboxesAreAccountedFor == SbSpec => []RunningIsAccountedFor
<1>1. ASSUME SbInv PROVE RunningIsAccountedFor
  <2>1. ASSUME machine = "running", preview.status = "stopped" PROVE revived
    BY <1>1, <2>1 DEF SbInv, StoppedIsGone, SaysStopped
  <2>2. ASSUME machine = "running", \A c \in SbCall : SbAt(c, "idle")
        PROVE  lease \in {"active", "expired"} \/ strayed
    <3>1. lease # "stopped" \/ strayed
      BY <1>1, <2>2 DEF SbInv, LeaseTellsTrue, LeaseIsEnding
    <3>2. lease # "none" \/ strayed
      BY <1>1, <2>2 DEF SbInv, LeaseTellsTrue, SbAt
    <3>3. QED
      BY <1>1, <3>1, <3>2 DEF SbInv, SbTypes
  <2>3. QED
    BY <2>1, <2>2 DEF RunningIsAccountedFor
<1>2. QED
  BY <1>1, SbInvAlways, PTL

\* A preview that is over is a record that no call of any process changes again
\* (markPreviewReady, failPreviewSession, closePreviewSession, retargetPreviewSession).
THEOREM OverPreviewsAreFinal == SbSpec => OverPreviewsStayOver
<1>1. ASSUME SbInv, [SbNext]_sbVars, preview.status \in PreviewOver PROVE preview' = preview
  <2>1. preview.status \notin PreviewLive /\ preview.status # "none"
    BY <1>1 DEF PreviewOver, PreviewLive
  <2>2. ASSUME NEW st, ClosePreview(st) PROVE preview' = preview
    BY <2>1, <2>2 DEF ClosePreview
  <2>3. ASSUME NEW c \in SbCall PROVE ~CreatePreview(c)
    BY <1>1, <2>1 DEF SbInv, OpensOnce, OpeningPlace, CreatePreview, SbAt
  <2>4. CASE UNCHANGED sbVars \/ Deadline \/ ProviderExpires \/ \E p \in SbProc : CrashProc(p)
    BY <2>4 DEF sbVars, Deadline, ProviderExpires, CrashProc, rows
  <2>5. CASE \E p \in SbProc, c \in SbCall : OpenPreview(c, p) \/ Visit(c, p) \/ Cleanup(c, p)
    BY <2>5 DEF OpenPreview, Visit, Cleanup, rows
  <2>6. CASE \E c \in SbCall, s \in DOMAIN sess : EndSandbox(c, s) \/ Command(c, s)
    BY <2>6 DEF EndSandbox, Command, rows
  <2>7. CASE \E c \in SbCall : \/ (\E cleans : Create(c, cleans)) \/ (\E after : Execute(c, after))
                               \/ (\E m : ConnectTo(c, m)) \/ ProviderStop(c)
    BY <2>7 DEF Create, Execute, ConnectTo, ProviderStop, rows
  <2>8. CASE \E c \in SbCall : \/ CreateLease(c) \/ Materialize(c) \/ Launch(c) \/ Await(c)
                               \/ StopBegins(c) \/ StopSettles(c) \/ StopReturns(c) \/ FindSession(c)
                               \/ ReadLease(c) \/ ConnectFails(c) \/ Probe(c) \/ Authorize(c)
    BY <2>8 DEF CreateLease, Materialize, Launch, Await, StopBegins, StopSettles, StopReturns,
                FindSession, ReadLease, ConnectFails, Probe, Authorize, rows
  <2>9. CASE \E c \in SbCall : Ready(c) \/ Retarget(c)
    BY <2>1, <2>9 DEF Ready, MarkReady, Retarget
  <2>10. CASE \E c \in SbCall : FailCall(c) \/ Close(c) \/ GetPreview(c) \/ ExpirePreview(c)
    BY <2>2, <2>10 DEF FailCall, FailPreview, Close, GetPreview, ExpirePreview
  <2>11. QED
    <3>1. ASSUME NEW c \in SbCall,
                 \/ DockerCreate(c) \/ E2BCreate(c) \/ VercelCreate(c) \/ CloudflareCreate(c)
                 \/ DaytonaCreate(c) \/ ModalCreate(c)
          PROVE  \E cleans : Create(c, cleans)
      BY <3>1 DEF DockerCreate, E2BCreate, VercelCreate, CloudflareCreate, DaytonaCreate, ModalCreate
    <3>2. ASSUME NEW c \in SbCall,
                 \/ DockerExecute(c) \/ E2BExecute(c) \/ VercelExecute(c)
                 \/ CloudflareExecute(c) \/ DaytonaExecute(c) \/ ModalExecute(c)
          PROVE  \E after : Execute(c, after)
      BY <3>2 DEF DockerExecute, E2BExecute, VercelExecute, CloudflareExecute, DaytonaExecute,
                  ModalExecute
    <3>3. ASSUME NEW c \in SbCall, E2BConnect(c) \/ VercelConnect(c) \/ CloudflareConnect(c)
          PROVE  \E m : ConnectTo(c, m)
      BY <3>3 DEF E2BConnect, VercelConnect, CloudflareConnect
    <3>4. ASSUME NEW c \in SbCall,
                 \/ DockerStop(c) \/ E2BStop(c) \/ VercelStop(c) \/ CloudflareStop(c)
                 \/ DaytonaStop(c) \/ ModalStop(c)
          PROVE  ProviderStop(c)
      BY <3>4 DEF DockerStop, E2BStop, VercelStop, CloudflareStop, DaytonaStop, ModalStop
    <3>5. QED
      BY <1>1, <2>3, <2>4, <2>5, <2>6, <2>7, <2>8, <2>9, <2>10, <3>1, <3>2, <3>3, <3>4 DEF SbNext
<1>2. (SbInv /\ [SbNext]_sbVars) => [preview.status \in PreviewOver => preview' = preview]_sbVars
  BY <1>1
<1>3. QED
  BY <1>2, SbInvAlways, PTL DEF SbSpec, OverPreviewsStayOver

=============================================================================
