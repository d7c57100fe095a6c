------------------------------ MODULE Sources ------------------------------
(* How the source of a version comes about: an import, a list of changes,   *)
(* an agent's workspace, a generation with its quality commands, a fork or  *)
(* a restoration.  A version is immutable; each way to make one starts from *)
(* its parent and must keep what the parent locks.                          *)
(* Versions are kept in one log, whatever chat they belong to.  Media type, *)
(* size and checksum of an entry follow its content and are left out.       *)
EXTENDS Naturals, Sequences, FiniteSets, Functions

CONSTANTS
    SrcPath,      \* paths of source entries
    SrcText,      \* texts a source entry can hold
    MaxSources,   \* bound: nothing new begins when so many versions exist
    MaxChanges,   \* bound: changes in one list
    MaxAnswered,  \* bound: changes a generator answers with
    CheckConcurrency \* generation.quality.checkConcurrency

ASSUME SourcesAssumption == MaxChanges \in Nat /\ MaxAnswered \in Nat

VARIABLES
    sources,      \* the versions, in the order they were stored
    host,         \* the configuration of `generation.quality` and `workspace`
    job           \* the workspace or the attempt that is under way
srcVars == <<sources, host, job>>

\* Bytes that are no text: an entry whose content is in the artifact store.
Binary  == "binary"
Content == SrcText \cup {Binary}
Entry   == [content : Content, locked : BOOLEAN]
Partial(S, T) == UNION {[D -> T] : D \in SUBSET S}
Plain(x) == [content |-> x, locked |-> FALSE]

(***************************************************************************)
(* Changes.  What a change makes of a tree is a set: of one tree, or of    *)
(* none when the change is refused.                                        *)
(***************************************************************************)
SourceChange ==
    [type : {"write"}, path : SrcPath, content : SrcText]
      \cup [type : {"delete"}, path : SrcPath]
      \cup {c \in [type : {"move"}, from : SrcPath, to : SrcPath] : c.from # c.to}

ChangeLists(max) == UNION {[1..n -> SourceChange] : n \in 1..max}

Without(tree, path) == Restrict(tree, DOMAIN tree \ {path})
Overlay(f, g) == [p \in DOMAIN f \cup DOMAIN g |-> IF p \in DOMAIN f THEN f[p] ELSE g[p]]
At(path, x) == [p \in {path} |-> x]
Unlocked(tree, path) == path \in DOMAIN tree => ~tree[path].locked

AfterChange(tree, c) ==
    CASE c.type = "write" ->
           {Overlay(At(c.path, Plain(c.content)), tree) : p \in {q \in {c.path} : Unlocked(tree, q)}}
      [] c.type = "delete" ->
           {Without(tree, p) : p \in {q \in {c.path} \cap DOMAIN tree : Unlocked(tree, q)}}
      [] c.type = "move" ->
           {Overlay(At(c.to, tree[p]), Without(tree, p)) :
               p \in {q \in {c.from} \cap DOMAIN tree :
                         Unlocked(tree, q) /\ c.to \notin DOMAIN tree}}

\* The entries must be some; only the end of a list is looked at.
NonEmpty(trees) == {t \in trees : DOMAIN t # {}}

\* One change after the other.
AfterEach(tree, changes) ==
    LET after[n \in 0..Len(changes)] ==
          IF n = 0 THEN {tree} ELSE UNION {AfterChange(t, changes[n]) : t \in after[n - 1]}
    IN after

ApplyChanges(tree, changes) == NonEmpty(AfterEach(tree, changes)[Len(changes)])

\* A generator that answers with a whole project: its files are texts, the
\* artifacts of the base that it does not name stay, and what the base locks
\* must be among them as it was.
Kept(base, files) ==
    Overlay([p \in DOMAIN files |-> Plain(files[p])],
         Restrict(base, {p \in DOMAIN base : base[p].content = Binary}))

PreserveLocked(base, next) ==
    LET held == {p \in DOMAIN base : base[p].locked}
    IN {[p \in DOMAIN t |-> IF p \in held THEN base[p] ELSE t[p]] :
           t \in {u \in NonEmpty({next}) :
                     \A p \in held : p \in DOMAIN u /\ u[p].content = base[p].content}}

MergeGenerated(base, files) == PreserveLocked(base, Kept(base, files))

(***************************************************************************)
(* Imports                                                                 *)
(***************************************************************************)
\* An archive entry has bytes and the media type its name suggests; the
\* directory of the archive may already disqualify it.
ZipFault   == {"encrypted", "symlink", "zip64", "disks", "malformed", "oversized"}
ZipEntry   == [content : Content, media : {"text", "binary", "unknown"}]
FilesInput == [type : {"files"}, entries : Partial(SrcPath, Entry)]
ZipInput   == [type : {"zip"}, entries : Partial(SrcPath, ZipEntry),
               fault : ZipFault \cup {"none"}]
LockPolicy == [locked : {"unset", "all", "paths"}, paths : SUBSET SrcPath]

DecodeSource(x) ==
    CASE x.media = "binary" -> {Binary}
      [] x.media = "text"   -> {x.content} \ {Binary}
      [] OTHER              -> {x.content}

UnzippedEntries(input) ==
    {[p \in DOMAIN input.entries |-> Plain(CHOOSE c \in DecodeSource(input.entries[p]) : TRUE)] :
        i \in {j \in {input} : /\ j.fault = "none"
                               /\ \A p \in DOMAIN j.entries : DecodeSource(j.entries[p]) # {}}}

InputEntries(input) ==
    NonEmpty(IF input.type = "files" THEN {input.entries} ELSE UnzippedEntries(input))

ImportFilePolicy(tree, policy) ==
    LET locks(S) == [p \in DOMAIN tree |-> [tree[p] EXCEPT !.locked = @ \/ p \in S]]
    IN CASE policy.locked = "unset" -> {tree}
         [] policy.locked = "all"   -> {locks(DOMAIN tree)}
         [] OTHER -> {locks(S) : S \in {T \in {policy.paths} : T \subseteq DOMAIN tree}}

ImportProjectFiles(input, policy) ==
    UNION {ImportFilePolicy(t, policy) : t \in InputEntries(input)}

(***************************************************************************)
(* State                                                                   *)
(***************************************************************************)
Idle == [kind |-> "none"]
\* The commands a host configures: one that prepares, and two checks.
Checks   == <<"lint", "test">>
Commands == {"install", "lint", "test"}

\* Without captureSourceChanges nobody reads the sandbox again: what is in it,
\* and whether it held the base before, is then left out.
Hosts == [quality : {"none", "check", "capture"}, eager : BOOLEAN]

SourcesInit ==
    /\ sources = <<>>
    /\ host \in {h \in Hosts : h.eager => h.quality = "capture"}
    /\ job = Idle

\* Nothing moves here while another component does.
SourcesIdle ==
    /\ sources = <<>> /\ job = Idle
    /\ host = [quality |-> "none", eager |-> FALSE]

SourceIds == 1..Len(sources)
NoFiles == [p \in {} |-> p]
TreeOf(v) == IF v = 0 THEN NoFiles ELSE sources[v].tree
MayBegin  == job = Idle /\ Len(sources) < MaxSources

\* The row of a version.  `changes` is empty where the column is null;
\* `passed` and `captured` are not stored: they say how its source was verified.
Version(origin, parent, tree, changes) ==
    [origin |-> origin, parent |-> parent, tree |-> tree, changes |-> changes,
     passed |-> {}, captured |-> FALSE]

Import ==
    /\ MayBegin
    /\ \E input \in FilesInput \cup ZipInput, policy \in LockPolicy :
         \E tree \in ImportProjectFiles(input, policy) :
            sources' = Append(sources, Version("imported", 0, tree, <<>>))
    /\ UNCHANGED <<host, job>>

ApplyToVersion ==
    /\ MayBegin
    /\ \E v \in SourceIds, changes \in ChangeLists(MaxChanges) :
         \E tree \in ApplyChanges(TreeOf(v), changes) :
            sources' = Append(sources, Version("edited", v, tree, changes))
    /\ UNCHANGED <<host, job>>

\* Both copy the rows of the entries, locks included.
CopyVersion ==
    /\ MayBegin
    /\ \E v \in SourceIds, origin \in {"forked", "restored"} :
         sources' = Append(sources, Version(origin, v, TreeOf(v), <<>>))
    /\ UNCHANGED <<host, job>>

(***************************************************************************)
(* An agent's workspace.  `persisting` counts the calls of Version.apply   *)
(* that are under way, `made` the versions stored for it and `lost` the    *)
(* calls that stored one but answered with an error.                       *)
(***************************************************************************)
OpenWorkspace ==
    /\ MayBegin
    /\ \E v \in SourceIds :
         job' = [kind |-> "workspace", base |-> v, tree |-> TreeOf(v), changes |-> <<>>,
                 persisting |-> 0, committed |-> FALSE, made |-> 0, lost |-> 0]
    /\ UNCHANGED <<sources, host>>

InWorkspace == job.kind = "workspace"

\* Every change is applied with those before it to the base; one that is
\* refused leaves the workspace as it was.
Staged(w, c) ==
    {[w EXCEPT !.tree = tree, !.changes = Append(@, c)] :
        tree \in ApplyChanges(TreeOf(w.base), Append(w.changes, c))}

StageChange ==
    /\ InWorkspace /\ ~job.committed /\ job.persisting = 0
    /\ Len(job.changes) < MaxChanges
    /\ \E c \in SourceChange : job' \in Staged(job, c)
    /\ UNCHANGED <<sources, host>>

\* A caller who finds a commit under way waits for the same promise.
StartsCommit == ~job.committed /\ job.changes # <<>> /\ job.persisting = 0

CommitWorkspace ==
    /\ InWorkspace /\ StartsCommit
    /\ job' = [job EXCEPT !.persisting = @ + 1]
    /\ UNCHANGED <<sources, host>>

\* The version is stored, the answer may be lost on the way, or nothing happens.
CommitEnds ==
    /\ InWorkspace /\ job.persisting > 0
    /\ \/ \E tree \in ApplyChanges(TreeOf(job.base), job.changes), answered \in BOOLEAN :
            /\ answered \/ Len(sources) < MaxSources
            /\ sources' = Append(sources, Version("edited", job.base, tree, job.changes))
            /\ job' = [job EXCEPT !.persisting = @ - 1, !.made = @ + 1,
                                  !.committed = @ \/ answered,
                                  !.lost = IF answered THEN @ ELSE @ + 1]
       \/ /\ job' = [job EXCEPT !.persisting = @ - 1]
          /\ UNCHANGED sources
    /\ UNCHANGED host

LeaveWorkspace ==
    /\ InWorkspace /\ job.persisting = 0
    /\ job' = Idle
    /\ UNCHANGED <<sources, host>>

(***************************************************************************)
(* An attempt of a generation, from the generator's answer to the stored   *)
(* version.  `sandbox` is what the commands see and may change.            *)
(***************************************************************************)
NothingRan == [c \in Commands |-> "waiting"]

Attempt(v) ==
    [kind |-> "attempt", base |-> v, phase |-> "generate", tree |-> NoFiles, changes |-> <<>>,
     sandbox |-> NoFiles, ran |-> NothingRan, touched |-> FALSE]

BeginAttempt ==
    /\ MayBegin
    /\ \E v \in SourceIds \cup {0} : job' = Attempt(v)
    /\ UNCHANGED <<sources, host>>

In(phase) == job.kind = "attempt" /\ job.phase = phase

ChangesOutputs == [kind : {"changes"}, changes : ChangeLists(MaxAnswered)]
ProjectOutputs == [kind : {"project"}, files : Partial(SrcPath, SrcText)]
Outputs == ChangesOutputs \cup ProjectOutputs

Candidates(base, output) ==
    IF output.kind = "changes" THEN ApplyChanges(base, output.changes)
                               ELSE MergeGenerated(base, output.files)

Materialize(tree) == [p \in DOMAIN tree |-> tree[p].content]

\* A workspace that is made before the generator runs holds the base, and what
\* the agent's tool wrote, the last of it for each path; files are only ever
\* written to it, never removed.
AgentWrites(changes) ==
    LET writes(p) == {i \in DOMAIN changes : changes[i].type = "write" /\ changes[i].path = p}
        last(p)   == CHOOSE i \in writes(p) : \A j \in writes(p) : j <= i
    IN [p \in {q \in SrcPath : writes(q) # {}} |-> changes[last(p)].content]

SandboxWith(v, changes, tree) ==
    IF host.eager /\ v # 0
    THEN Overlay(Materialize(tree), Overlay(AgentWrites(changes), Materialize(TreeOf(v))))
    ELSE Materialize(tree)

ChangesOf(output) == IF output.kind = "changes" THEN output.changes ELSE <<>>

\* The generator answers; an answer that cannot be applied fails the attempt.
GeneratorAnswers ==
    /\ In("generate")
    /\ \E output \in Outputs :
         LET found == Candidates(TreeOf(job.base), output)
         IN \/ /\ found = {}
               /\ job' = Idle
            \/ \E tree \in found :
                 job' = [job EXCEPT
                           !.phase = IF host.quality = "none" THEN "store" ELSE "prepare",
                           !.tree = tree,
                           !.changes = ChangesOf(output),
                           !.sandbox = IF host.quality # "capture" THEN NoFiles
                                       ELSE SandboxWith(job.base, ChangesOf(output), tree)]
    /\ UNCHANGED <<sources, host>>

\* A command may write or remove files; one command of an attempt does.
Rewritten(files) ==
    {Overlay(At(p, x), files) : p \in SrcPath, x \in Content}
      \cup {Without(files, p) : p \in DOMAIN files}

Touches(j) ==
    {j} \cup {[j EXCEPT !.touched = TRUE, !.sandbox = files] :
                 files \in {f \in Rewritten(j.sandbox) : ~j.touched /\ host.quality = "capture"}}

\* A quality command failed: the attempt is repaired by another, or fails
\* (GenerationLifecycle counts the repairs).
QualityFails == job' \in {Attempt(job.base), Idle}

RunPrepare ==
    /\ In("prepare")
    /\ \/ \E j \in Touches(job) :
            job' = [j EXCEPT !.phase = "check", !.ran["install"] = "passed"]
       \/ QualityFails
    /\ UNCHANGED <<sources, host>>

Running  == {c \in Commands : job.ran[c] = "running"}
NextCheck == {i \in DOMAIN Checks : /\ job.ran[Checks[i]] = "waiting"
                                    /\ \A k \in 1..i - 1 : job.ran[Checks[k]] # "waiting"}

\* The checks are taken in order, `concurrency` of them at a time; one that
\* fails does not keep the others from running.
StartCheck ==
    /\ In("check") /\ Cardinality(Running) < CheckConcurrency
    /\ \E i \in NextCheck : job' = [job EXCEPT !.ran[Checks[i]] = "running"]
    /\ UNCHANGED <<sources, host>>

FinishCheck ==
    /\ In("check")
    /\ \E c \in Running, status \in {"passed", "failed"}, j \in Touches(job) :
         job' = [j EXCEPT !.ran[c] = status]
    /\ UNCHANGED <<sources, host>>

ChecksAreOver == \A i \in DOMAIN Checks : job.ran[Checks[i]] \notin {"waiting", "running"}
ChecksFailed  == \E i \in DOMAIN Checks : job.ran[Checks[i]] = "failed"

\* Every text of the candidate is read back, locked ones too, as text.
CanCapture(j) ==
    \A p \in DOMAIN j.tree :
       j.tree[p].content # Binary => p \in DOMAIN j.sandbox /\ j.sandbox[p] # Binary

\* A plausible bug: captured files replace locked entries too.
CapturedOverLocks(j) ==
    [p \in DOMAIN j.tree |->
        IF j.tree[p].content # Binary THEN [j.tree[p] EXCEPT !.content = j.sandbox[p]]
        ELSE j.tree[p]]

CapturedEntries(j) ==
    [p \in DOMAIN j.tree |->
        IF j.tree[p].content # Binary /\ ~j.tree[p].locked
        THEN Plain(j.sandbox[p]) ELSE j.tree[p]]

VerifyQuality ==
    /\ In("check") /\ ChecksAreOver
    /\ \/ /\ ChecksFailed
          /\ QualityFails
       \/ /\ ~ChecksFailed
          /\ host.quality = "check"
          /\ job' = [job EXCEPT !.phase = "store"]
       \/ /\ ~ChecksFailed
          /\ host.quality = "capture"
          /\ IF CanCapture(job)
             THEN job' = [job EXCEPT !.phase = "store", !.tree = CapturedEntries(job)]
             ELSE QualityFails
    /\ UNCHANGED <<sources, host>>

StoreVersion ==
    /\ In("store")
    /\ sources' = Append(sources,
         [Version("generated", job.base, job.tree, job.changes) EXCEPT
            !.passed = {c \in Commands : job.ran[c] = "passed"},
            !.captured = host.quality = "capture"])
    /\ job' = Idle
    /\ UNCHANGED host

\* The lease is lost, the generation cancelled or the process gone.
AttemptEnds ==
    /\ job.kind = "attempt"
    /\ job' = Idle
    /\ UNCHANGED <<sources, host>>

SourcesNext ==
    \/ Import \/ ApplyToVersion \/ CopyVersion
    \/ OpenWorkspace \/ StageChange \/ CommitWorkspace \/ CommitEnds \/ LeaveWorkspace
    \/ BeginAttempt \/ GeneratorAnswers \/ RunPrepare \/ StartCheck \/ FinishCheck
    \/ VerifyQuality \/ StoreVersion \/ AttemptEnds

SourcesSpec == SourcesInit /\ [][SourcesNext]_srcVars

(***************************************************************************)
(* Properties                                                              *)
(***************************************************************************)
\* What a version locks is in each of its children as it was, however the child
\* was made: no list of changes, project, workspace, captured file or copy
\* writes, removes, moves or unlocks it.
LocksHold ==
    \A v \in SourceIds :
       \A p \in DOMAIN TreeOf(sources[v].parent) :
          TreeOf(sources[v].parent)[p].locked =>
             p \in DOMAIN TreeOf(v) /\ TreeOf(v)[p] = TreeOf(sources[v].parent)[p]

\* The changes recorded with a version, applied to its parent, give its entries;
\* where quality commands may rewrite files, they give the entries but for the
\* texts that are not locked.
ChangesProduce ==
    \A v \in SourceIds : sources[v].changes # <<>> =>
       \E tree \in ApplyChanges(TreeOf(sources[v].parent), sources[v].changes) :
          IF sources[v].captured
          THEN /\ DOMAIN tree = DOMAIN TreeOf(v)
               /\ \A p \in DOMAIN tree : tree[p] # TreeOf(v)[p] =>
                     ~tree[p].locked /\ tree[p].content # Binary
          ELSE tree = TreeOf(v)

\* A workspace stores one version, however many callers commit it; only a
\* commit whose answer was lost and that is called again stores another.
OneVersionPerCommit ==
    InWorkspace =>
       /\ job.made <= job.lost + 1
       /\ job.committed => job.made = job.lost + 1 /\ job.persisting = 0

\* A host that configures quality commands gets no generated version that one
\* of them, whatever ran beside it and in whatever order, has not passed.
QualityHeld ==
    host.quality # "none" =>
       \A v \in SourceIds : sources[v].origin = "generated" => sources[v].passed = Commands

\* A version is what its parent, its changes and its verification make it
\* (Version.apply, AgentWorkspace.commit, completeGeneration, forkVersion,
\* restoreVersion).
SourcesAreKept == LocksHold /\ ChangesProduce /\ OneVersionPerCommit /\ QualityHeld

=============================================================================
