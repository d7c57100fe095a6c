--------------------------- MODULE RepositoryPush ---------------------------
(***************************************************************************)
(* Version.push, pull-request merging and source import through a          *)
(* connected repository integration: the durable history row (client.ts,   *)
(* postgres-repository.ts), the provider-neutral workflow                  *)
(* (repository-integrations.ts) and the GitHub, GitLab and Bitbucket       *)
(* adapters.  Every request to the provider is a step of its own, since    *)
(* other people commit to the same repository between any two of them, a   *)
(* second host call may carry the same idempotency key, and a process may  *)
(* die or lose an answer at any await.                                     *)
(*                                                                         *)
(* The provider's repository is external: commits with their parents and   *)
(* trees, branch heads, one pull request from "work" to "main".            *)
(***************************************************************************)
EXTENDS Integers, Sequences

CONSTANTS
    PushCall,       \* host calls
    PushKey,        \* idempotency keys
    MaxCommits,     \* bound: commits of the repository
    MaxForeign,     \* bound: commits made by others
    MaxPushFaults   \* bound: crashes and failed requests

Provider == {"github", "gitlab", "bitbucket"}
Branch   == {"main", "work"}           \* "main" is the default branch
Path     == {"page", "notes", ".gitkeep"}
NoFile   == "none"

\* The complete source snapshot of the immutable version.
EmptyTree == [p \in Path |-> NoFile]
Snapshot  == [EmptyTree EXCEPT !["page"] = "one"]

VARIABLES
    provider,   \* which adapter the handle uses
    exists,     \* the remote repository exists
    commits,    \* its commits, as [parents, tree]
    heads,      \* head commit of each branch, 0 while the branch does not exist
    pull,       \* the pull request from "work" to "main"
    pushRow,    \* repository_pushes, by idempotency key
    pushCall,   \* host calls
    merged,     \* bookkeeping: merges done for a call, as [expected, head]
    foreign, pushFaults

atHost   == <<provider, exists, commits, heads, pull>>
pushVars == <<atHost, pushRow, pushCall, merged, foreign, pushFaults>>

NoRow == [status |-> "absent"]
Idle  == [pc |-> "idle"]
Done  == [pc |-> "done"]

At(c, pc)  == pushCall[c].pc = pc
In(c)      == pushCall[c].input
Set(c, r)  == pushCall' = [pushCall EXCEPT ![c] = r]
Go(c, pc)  == Set(c, [pushCall[c] EXCEPT !.pc = pc])

TreeOf(h)  == IF h = 0 THEN EmptyTree ELSE commits[h].tree

\* The commits reachable from h, h included: the least set with h that holds every parent.
WithParents(S) == \A n \in S : commits[n].parents \subseteq S
History(h) ==
    {n \in 1..Len(commits) : \A S \in SUBSET (1..Len(commits)) :
        h \in S \cup {0} /\ WithParents(S) => n \in S}

\* A new commit on a branch, with the branch moved to it.
AddCommit(branch, parents, tree) ==
    /\ Len(commits) < MaxCommits
    /\ commits' = Append(commits, [parents |-> parents \ {0}, tree |-> tree])
    /\ heads' = [heads EXCEPT ![branch] = Len(commits) + 1]

----------------------------------------------------------------------------
(* The provider, which others use too *)

\* Another person commits a file to a branch.
ForeignCommit(branch) ==
    /\ foreign < MaxForeign /\ heads[branch] # 0
    /\ \E p \in {"page", "notes"} :
        AddCommit(branch, {heads[branch]}, [TreeOf(heads[branch]) EXCEPT ![p] = "other"])
    /\ foreign' = foreign + 1
    /\ UNCHANGED <<provider, exists, pull, pushRow, pushCall, merged, pushFaults>>

----------------------------------------------------------------------------
(* Durable history *)

\* beginRepositoryPush inserts a pending row unless the key has one.
BeginRow(key, branch, wantsPull) ==
    pushRow' = IF pushRow[key] = NoRow
               THEN [pushRow EXCEPT ![key] = [status |-> "pending", branch |-> branch,
                                              pull |-> wantsPull, commit |-> 0]]
               ELSE pushRow

\* A settled row answers the call without another effect.
Replays(key) == pushRow[key] # NoRow /\ pushRow[key].status \in {"pushed", "conflict"}

\* completeRepositoryPush overwrites whatever the row says.
CompleteRow(key, result) ==
    pushRow' = [pushRow EXCEPT ![key].status = result.status, ![key].commit = result.commit]

\* failRepositoryPush marks a pending row only.
FailRow(key) ==
    pushRow' = IF pushRow[key].status = "pending"
               THEN [pushRow EXCEPT ![key].status = "failed"] ELSE pushRow

----------------------------------------------------------------------------
(* Version.push *)

\* What a host may ask: the target branch, where a missing branch starts, and the head it
\* expects (0 for none).  The key is derived from the version, the branch and the pull request,
\* and from neither the expected head nor the base.
PushInput ==
    {i \in [key : PushKey, branch : Branch, from : {"main", "none"},
            create : BOOLEAN, expected : {0, 1}, pull : BOOLEAN] :
        /\ i.branch = "main" => i.from = "none" /\ ~i.pull
        /\ ~i.create => i.from = "none"}

Begin(c, i) ==
    /\ At(c, "idle")
    /\ pushRow[i.key] # NoRow =>
          i.branch = pushRow[i.key].branch /\ i.pull = pushRow[i.key].pull
    /\ BeginRow(i.key, i.branch, i.pull)
    /\ Set(c, IF Replays(i.key) THEN Done
              ELSE [pc |-> "ensure", input |-> i, head |-> 0, commit |-> 0, creates |-> FALSE])
    /\ UNCHANGED <<atHost, merged, foreign, pushFaults>>

\* ensureRepository: read, then create if repository.createIfMissing says so.
Ensure(c) ==
    /\ At(c, "ensure")
    /\ IF exists THEN Go(c, "target") ELSE Go(c, "create") \/ Go(c, "fail")
    /\ UNCHANGED <<atHost, pushRow, merged, foreign, pushFaults>>

\* The provider refuses a name that is taken.
CreateRepository(c) ==
    /\ At(c, "create")
    /\ exists' = TRUE
    /\ Go(c, IF exists THEN "fail" ELSE "target")
    /\ UNCHANGED <<provider, commits, heads, pull, pushRow, merged, foreign, pushFaults>>

\* The head the commit will have as parent is known: compare it with the expected one.
Target(c, head) ==
    Set(c, [pushCall[c] EXCEPT
        !.head = head,
        !.creates = heads[In(c).branch] = 0 /\ ~(At(c, "initialize") /\ In(c).branch = "main"),
        !.commit = IF In(c).expected \notin {0, head} THEN head ELSE 0,
        !.pc = CASE In(c).expected \in {0, head} -> "commit"
                 [] head = 0 /\ provider # "github" -> "fail"
                 [] OTHER -> "conflict"])

\* GitHub: the branch, or the base for a missing one, or the first commit of an empty repository.
GitHubTarget(c) ==
    /\ provider = "github"
    /\ At(c, "target") \/ At(c, "base")
    /\ LET i == In(c)
           wanted == IF At(c, "base") THEN "main" ELSE i.branch IN
       CASE heads[wanted] # 0 -> Target(c, heads[wanted])
         [] heads[wanted] = 0 /\ ~i.create -> Go(c, "fail")
         [] heads[wanted] = 0 /\ i.create /\ At(c, "target") /\ i.from = "main" -> Go(c, "base")
         [] OTHER -> Go(c, "initialize")
    /\ UNCHANGED <<atHost, pushRow, merged, foreign, pushFaults>>

\* PUT contents: one file on the default branch, whatever the branch of the push;
\* refused when the file is there.
InitializeEmptyRepository(c) ==
    LET i == In(c)
        file == IF i.branch = "main" THEN "page" ELSE ".gitkeep" IN
    /\ provider = "github" /\ At(c, "initialize")
    /\ IF TreeOf(heads["main"])[file] # NoFile
       THEN Go(c, "fail") /\ UNCHANGED <<commits, heads>>
       ELSE /\ AddCommit("main", {heads["main"]},
                         [TreeOf(heads["main"]) EXCEPT ![file] = Snapshot["page"]])
            /\ Target(c, Len(commits) + 1)
    /\ UNCHANGED <<provider, exists, pull, pushRow, merged, foreign, pushFaults>>

\* A commit on the head that was read, and a reference that is created or fast-forwarded to it.
\* mutant: the reference is forced
GitHubForced(c) ==
    LET i == In(c) IN
    /\ provider = "github" /\ At(c, "commit")
    /\ AddCommit(i.branch, {pushCall[c].head}, Snapshot)
    /\ Set(c, [pushCall[c] EXCEPT !.commit = Len(commits) + 1, !.pc = "pull"])
    /\ UNCHANGED <<provider, exists, pull, pushRow, merged, foreign, pushFaults>>

GitHubCommit(c) ==
    LET branch == In(c).branch
        head == pushCall[c].head IN
    /\ provider = "github" /\ At(c, "commit")
    /\ IF heads[branch] = (IF pushCall[c].creates THEN 0 ELSE head)
       THEN /\ AddCommit(branch, {head}, Snapshot)
            /\ Set(c, [pushCall[c] EXCEPT !.commit = Len(commits) + 1, !.pc = "pull"])
       ELSE Go(c, "reread") /\ UNCHANGED <<commits, heads>>
    /\ UNCHANGED <<provider, exists, pull, pushRow, merged, foreign, pushFaults>>

\* GitLab: a missing branch is created from the base before anything is compared.
GitLabTarget(c) ==
    LET i == In(c)
        head == heads[i.branch] IN
    /\ provider = "gitlab"
    /\ \/ /\ At(c, "target")
          /\ IF head # 0 \/ (i.from = "none" /\ i.create)
             THEN Target(c, head)
             ELSE Go(c, IF i.create THEN "base" ELSE "fail")
          /\ UNCHANGED heads
       \/ /\ At(c, "base")
          /\ IF head = 0 /\ heads[i.from] # 0
             THEN /\ heads' = [heads EXCEPT ![i.branch] = heads[i.from]]
                  /\ Target(c, heads[i.from])
             ELSE Go(c, "fail") /\ UNCHANGED heads
    /\ UNCHANGED <<provider, exists, commits, pull, pushRow, merged, foreign, pushFaults>>

\* Files to write and to delete, as sourceChanges and gitlabCommitActions compare them.
Changed(from, to) == {p \in Path : from[p] # to[p]}
Applies(from, to, actual) ==   \* create needs no file; update and delete need one
    \A p \in Changed(from, to) : (from[p] = NoFile) = (actual[p] = NoFile)
Overlay(from, to, actual) ==
    [p \in Path |-> IF p \in Changed(from, to) THEN to[p] ELSE actual[p]]

\* The commit is not conditioned on the head that was compared: its actions apply to the
\* branch as it is now.
GitLabCommit(c) ==
    LET i == In(c)
        from == TreeOf(pushCall[c].head)
        to == Snapshot
        now == heads[i.branch]
        accepted == (now # 0 \/ heads["main"] = 0) /\ Applies(from, to, TreeOf(now)) IN
    /\ provider = "gitlab" /\ At(c, "commit")
    /\ CASE Changed(from, to) = {} ->
              /\ Set(c, [pushCall[c] EXCEPT !.commit = pushCall[c].head, !.pc = "pull"])
              /\ UNCHANGED <<commits, heads>>
         [] Changed(from, to) # {} /\ accepted ->
              /\ AddCommit(i.branch, {now}, Overlay(from, to, TreeOf(now)))
              /\ Set(c, [pushCall[c] EXCEPT !.commit = Len(commits) + 1, !.pc = "pull"])
         [] OTHER -> Go(c, "reread") /\ UNCHANGED <<commits, heads>>
    /\ UNCHANGED <<provider, exists, pull, pushRow, merged, foreign, pushFaults>>

\* Bitbucket: the base is only read; the commit will make the branch.
BitbucketTarget(c) ==
    LET i == In(c) IN
    /\ provider = "bitbucket"
    /\ \/ /\ At(c, "target")
          /\ IF heads[i.branch] # 0 \/ (i.from = "none" /\ i.create)
             THEN Target(c, heads[i.branch])
             ELSE Go(c, IF i.create THEN "base" ELSE "fail")
       \/ /\ At(c, "base")
          /\ IF heads[i.from] # 0 THEN Target(c, heads[i.from]) ELSE Go(c, "fail")
    /\ UNCHANGED <<atHost, pushRow, merged, foreign, pushFaults>>

\* The observed parent goes with the commit, and the provider refuses another one on a
\* branch that exists; without a parent the commit extends the main branch's.
BitbucketCommit(c) ==
    LET i == In(c)
        head == pushCall[c].head
        from == TreeOf(head)
        to == Snapshot
        parent == IF head # 0 THEN head ELSE heads["main"] IN
    /\ provider = "bitbucket" /\ At(c, "commit")
    /\ CASE Changed(from, to) = {} ->
              /\ Set(c, [pushCall[c] EXCEPT !.commit = head, !.pc = "pull"])
              /\ UNCHANGED <<commits, heads>>
         [] Changed(from, to) # {} /\ heads[i.branch] \in {0, parent} ->
              /\ AddCommit(i.branch, {parent}, Overlay(from, to, TreeOf(parent)))
              /\ Set(c, [pushCall[c] EXCEPT !.commit = Len(commits) + 1, !.pc = "pull"])
         [] OTHER -> Go(c, "reread") /\ UNCHANGED <<commits, heads>>
    /\ UNCHANGED <<provider, exists, pull, pushRow, merged, foreign, pushFaults>>

\* mutant: a refused commit is a conflict, whatever the branch says
RereadNothing(c) ==
    /\ At(c, "reread")
    /\ Set(c, [pushCall[c] EXCEPT !.commit = pushCall[c].head, !.pc = "conflict"])
    /\ UNCHANGED <<atHost, pushRow, merged, foreign, pushFaults>>

\* After a refusal the head is read again: a conflict only if it is another one.
Reread(c) ==
    LET actual == heads[In(c).branch] IN
    /\ At(c, "reread")
    /\ Set(c, [pushCall[c] EXCEPT
                 !.commit = actual,
                 !.pc = IF actual \in {0, pushCall[c].head} THEN "fail" ELSE "conflict"])
    /\ UNCHANGED <<atHost, pushRow, merged, foreign, pushFaults>>

\* The pull request, if asked for; refused without its branches or when one is open.
CreatePullRequest(c) ==
    LET possible == heads["main"] # 0 /\ heads["work"] # 0 /\ pull # "open" IN
    /\ At(c, "pull") /\ In(c).pull
    /\ pull' = IF possible THEN "open" ELSE pull
    /\ Go(c, IF possible THEN "pushed" ELSE "fail")
    /\ UNCHANGED <<provider, exists, commits, heads, pushRow, merged, foreign, pushFaults>>

\* The workflow settles the row it began or met.
Complete(c) ==
    /\ \/ At(c, "conflict") \/ At(c, "pushed") \/ (At(c, "pull") /\ ~In(c).pull)
    /\ CompleteRow(In(c).key,
                   [status |-> IF At(c, "conflict") THEN "conflict" ELSE "pushed",
                    commit |-> pushCall[c].commit])
    /\ Set(c, Done)
    /\ UNCHANGED <<atHost, merged, foreign, pushFaults>>

Fail(c) ==
    /\ At(c, "fail")
    /\ FailRow(In(c).key)
    /\ Set(c, Done)
    /\ UNCHANGED <<atHost, merged, foreign, pushFaults>>

\* The process dies, or a request fails before the provider acts on it; the caller of a
\* failed one marks the row, a dead process marks nothing.
Interrupted(c) ==
    /\ pushCall[c].pc \notin {"idle", "done", "fail", "merging", "importing", "imported"}
    /\ pushFaults < MaxPushFaults
    /\ pushFaults' = pushFaults + 1
    /\ Set(c, Done) \/ Go(c, "fail")
    /\ UNCHANGED <<atHost, pushRow, merged, foreign>>

----------------------------------------------------------------------------
(* Merging the pull request: read, compare, merge *)

BeginMerge(c, expected) ==
    /\ At(c, "idle") /\ pull \in {"open", "merged"}
    /\ Set(c, IF pull = "merged" \/ expected \notin {0, heads["work"]} THEN Done
              ELSE [pc |-> "merging", expected |-> expected, head |-> heads["work"]])
    /\ UNCHANGED <<atHost, pushRow, merged, foreign, pushFaults>>

\* The head the provider is told to merge, 0 for whatever the branch has.
GitHubBinds(c)    == pushCall[c].expected
GitLabBinds(c)    == pushCall[c].head
BitbucketBinds(c) == 0

Binds(c) == CASE provider = "github" -> GitHubBinds(c)
              [] provider = "gitlab" -> GitLabBinds(c)
              [] provider = "bitbucket" -> BitbucketBinds(c)

Merge(c) ==
    LET head == heads["work"] IN
    /\ At(c, "merging")
    /\ IF pull = "open" /\ Binds(c) \in {0, head}
       THEN /\ AddCommit("main", {heads["main"], head}, TreeOf(head))
            /\ pull' = "merged"
            /\ merged' = merged \cup {[expected |-> pushCall[c].expected, head |-> head]}
       ELSE UNCHANGED <<commits, heads, pull, merged>>
    /\ Set(c, Done)
    /\ UNCHANGED <<provider, exists, pushRow, foreign, pushFaults>>

----------------------------------------------------------------------------
(* Source import: a reference is resolved once, and the files are those of that commit *)

\* mutant: the files are read from the branch
ReadFilesOf(branch, commit) == TreeOf(heads[branch])
FilesOf(branch, commit) == TreeOf(commit)

BeginImport(c, branch) ==
    /\ At(c, "idle") /\ exists /\ heads[branch] # 0
    /\ Set(c, [pc |-> "importing", branch |-> branch, commit |-> heads[branch]])
    /\ UNCHANGED <<atHost, pushRow, merged, foreign, pushFaults>>

\* The files are downloaded one request each, all of the commit.
Download(c) ==
    /\ At(c, "importing")
    /\ Set(c, [pc |-> "imported", commit |-> pushCall[c].commit,
               files |-> FilesOf(pushCall[c].branch, pushCall[c].commit)])
    /\ UNCHANGED <<atHost, pushRow, merged, foreign, pushFaults>>

GitHubReadSource(c)    == provider = "github" /\ Download(c)
GitLabReadSource(c)    == provider = "gitlab" /\ Download(c)
BitbucketReadSource(c) == provider = "bitbucket" /\ Download(c)

----------------------------------------------------------------------------
PushIdle ==
    /\ provider = "github" /\ exists = FALSE /\ commits = <<>>
    /\ heads = [b \in Branch |-> 0] /\ pull = "absent"
    /\ pushRow = [k \in PushKey |-> NoRow] /\ pushCall = [c \in PushCall |-> Done]
    /\ merged = {} /\ foreign = 0 /\ pushFaults = 0

\* No repository, an empty one, or one with a first commit and perhaps the work branch.
PushInit ==
    /\ provider \in Provider
    /\ \E n \in {0, 1}, work \in BOOLEAN :
        /\ exists \in IF n = 1 THEN {TRUE} ELSE BOOLEAN
        /\ work => n = 1
        /\ commits = IF n = 0 THEN <<>>
                     ELSE <<[parents |-> {}, tree |-> [EmptyTree EXCEPT !["page"] = "old"]]>>
        /\ heads = [b \in Branch |-> IF b = "main" \/ work THEN n ELSE 0]
        /\ pull \in IF work THEN {"absent", "open"} ELSE {"absent"}
    /\ pushRow = [k \in PushKey |-> NoRow] /\ pushCall = [c \in PushCall |-> Idle]
    /\ merged = {} /\ foreign = 0 /\ pushFaults = 0

PushNext ==
    \/ \E b \in Branch : ForeignCommit(b)
    \/ \E c \in PushCall :
        \/ \E i \in PushInput : Begin(c, i)
        \/ Ensure(c) \/ CreateRepository(c)
        \/ GitHubTarget(c) \/ InitializeEmptyRepository(c) \/ GitHubCommit(c)
        \/ GitLabTarget(c) \/ GitLabCommit(c)
        \/ BitbucketTarget(c) \/ BitbucketCommit(c)
        \/ Reread(c) \/ CreatePullRequest(c) \/ Complete(c) \/ Fail(c) \/ Interrupted(c)
        \/ \E e \in {0, 1} : BeginMerge(c, e)
        \/ Merge(c)
        \/ \E b \in Branch : BeginImport(c, b)
        \/ GitHubReadSource(c) \/ GitLabReadSource(c) \/ BitbucketReadSource(c)

PushSpec == PushInit /\ [][PushNext]_pushVars

----------------------------------------------------------------------------
(* Properties *)

\* Nobody's commit is lost: a branch only moves to a commit that has its old head in its
\* history, whatever pushes, merges and other people's commits interleave.
BranchesOnlyGrow ==
    [][\A b \in Branch : heads[b] # heads'[b] => heads[b] = 0 \/ heads[b] \in History(heads[b])'
      ]_pushVars

\* A settled row is true of the repository, though the answers behind it are older than it: a
\* pushed commit is in the history of the branch it was pushed to, and on GitHub it carries
\* exactly the version's files.  (Bitbucket reports an unchanged base as pushed and leaves the
\* missing branch missing.)  A conflict names a head that was the repository's, and differs from
\* the one the call expected or built on.
RowIsTrue(row) ==
    /\ row.status \in {"pushed", "conflict"} => row.commit \in 1..Len(commits)
    /\ row.status = "conflict" => \E b \in Branch : row.commit \in History(heads[b])
    /\ row.status = "pushed" =>
        /\ \/ row.commit \in History(heads[row.branch])
           \/ provider = "bitbucket" /\ commits[row.commit].tree = Snapshot
        /\ provider = "github" => commits[row.commit].tree = Snapshot

\* A merge with an expected head merges that head, although the head was compared in an earlier
\* request; Bitbucket is told no head.  An import holds the files of the one commit it names,
\* however the branch moves while they are downloaded.
BoundToOneCommit ==
    /\ provider # "bitbucket" => \A m \in merged : m.expected \in {0, m.head}
    /\ \A c \in PushCall : At(c, "imported") => pushCall[c].files = TreeOf(pushCall[c].commit)

\* What Viby says of the repository's history (pushes, merges, imports).
HistoryIsTrue ==
    /\ \A k \in PushKey : pushRow[k] # NoRow => RowIsTrue(pushRow[k])
    /\ \A c \in PushCall : At(c, "conflict") =>
        pushCall[c].commit # (IF In(c).expected # 0 THEN In(c).expected ELSE pushCall[c].head)
    /\ BoundToOneCommit

\* A push that is given an expected head commits on that head (README.md: "expectedHead
\* provides portable optimistic concurrency").  GitLab does not: violated.
ExpectedHeadIsKept ==
    [][\A c \in PushCall :
         At(c, "commit") /\ At(c, "pull")' /\ In(c).expected # 0
           => heads[In(c).branch] \in {0, In(c).expected}]_pushVars

=============================================================================
