---------------------------- MODULE VaultCommitter ----------------------------
(***************************************************************************)
(* The committer that makes git history of the vault: provision the cached *)
(* git-dir from origin, capture or freeze the .obsidian baseline, stage,   *)
(* guard against a mass deletion, commit, push to every remote, exit.      *)
(*                                                                         *)
(* A run is one process of a CronJob that allows one at a time; it may be  *)
(* killed, or a command of it may fail, anywhere, and the git-dir may be   *)
(* lost between runs.  A git command is one step.  A branch is the         *)
(* sequence of its commits, a missing ref the empty one; two commits of    *)
(* one tree are two commits.  The settings are what the baseline's         *)
(* allowlist takes of .obsidian; the rest of it is never tracked and not   *)
(* modelled.                                                               *)
(***************************************************************************)
EXTENDS Integers, Sequences, FiniteSets

CONSTANTS
  Files,        \* paths of the vault outside .obsidian
  Markdown,     \* those that are notes
  Settings,     \* allowlisted paths under .obsidian
  Contents,
  Absent,       \* no file at the path
  FirstVault,   \* what the vault holds to begin with
  SeededWith,   \* what the editor puts at each of the settings
  Remotes,      \* {"origin"}, or with "nas"
  MergedPaths,  \* where a pull request may change origin
  Num, Den,     \* the largest fraction of deletions let through: Num / Den
  MaxEvents     \* bound: edits of the vault, pull requests merged, kills, failed
                \* commands, bad reads, blank volumes and lost git-dirs, in all

Paths == Files \cup Settings
Holdings == Contents \cup {Absent}
Trees == [Paths -> Holdings]
Empty == [p \in Paths |-> Absent]

ASSUME VaultCommitterAssumption ==
  /\ Absent \notin Contents
  /\ IsFiniteSet(Files) /\ IsFiniteSet(Settings) /\ Files \cap Settings = {}
  /\ Markdown \subseteq Files
  /\ FirstVault \in [Files -> Holdings]
  /\ SeededWith \in [Settings -> Contents]
  /\ "origin" \in Remotes /\ Remotes \subseteq {"origin", "nas"}
  /\ MergedPaths \subseteq Paths
  /\ Num \in Nat /\ Den \in Nat \ {0}
  /\ MaxEvents \in Nat

VARIABLES
  remote,     \* each remote's branch
  local,      \* the git-dir's branch
  fetched,    \* its remote-tracking branch of origin
  index,      \* what its index holds
  indexFile,  \* has it an index at all?
  frozen,     \* the index entries with their skip-worktree bit set
  locked,     \* has a killed run left a lock file in it?
  vault,      \* the work tree
  mount,      \* does the volume show it, or has it come back blank?
  pc,         \* the run: where it is
  resync,     \* is the index to be read from HEAD?
  left,       \* the settings it has not frozen yet
  toPush,     \* the remotes it has not pushed to
  failing,    \* will it exit non-zero?
  events,     \* how many more may come
  \* The rest is observation: no step of the program reads it.
  torn,       \* did a run end with bits set on a baseline not in HEAD?
  minted,     \* how many commits there ever were: each has its number
  merged,     \* has anybody but the committer written to origin?
  orphaned    \* was a git-dir lost with a commit origin does not have?

gitDir == <<local, fetched, index, indexFile, frozen, locked>>
volume == <<vault, mount>>
run == <<pc, resync, left, toPush, failing, torn>>
ghosts == <<minted, merged, orphaned>>
vars == <<remote, gitDir, volume, run, events, ghosts>>

Answers == {"yes", "no"}
Histories == Seq([id : Nat, tree : Trees])
Phases == {"idle", "fetch", "sync", "resync", "baseline", "freeze", "stage", "guard",
           "commit", "push", "finish"}

Tracked(tree) == {p \in Paths : tree[p] # Absent}
SettingsOf(tree) == Tracked(tree) \cap Settings

\* The tree of HEAD; without commits, nothing.
Tip(history) == IF history = <<>> THEN Empty ELSE history[Len(history)].tree

\* git merge-base --is-ancestor, a missing ref being everybody's ancestor.
Within(h, g) == Len(h) <= Len(g) /\ \A i \in 1..Len(h) : h[i] = g[i]

TypeOK ==
  /\ remote \in [Remotes -> Histories]
  /\ local \in Histories /\ fetched \in Histories
  /\ index \in Trees
  /\ indexFile \in {"present", "absent"}
  /\ indexFile = "absent" => index = Empty
  /\ frozen \subseteq SettingsOf(index)
  /\ locked \in Answers
  /\ vault \in Trees
  /\ mount \in {"there", "blank"}
  /\ pc \in Phases
  /\ resync \in Answers
  /\ left \subseteq Settings
  /\ toPush \subseteq Remotes
  /\ failing \in Answers
  /\ events \in Nat
  /\ torn \in Answers /\ minted \in Nat /\ merged \in Answers /\ orphaned \in Answers

Init ==
  /\ remote = [r \in Remotes |-> <<>>]
  /\ local = <<>> /\ fetched = <<>>
  /\ index = Empty /\ indexFile = "absent" /\ frozen = {} /\ locked = "no"
  /\ vault = [p \in Paths |-> IF p \in Files THEN FirstVault[p] ELSE Absent]
  /\ mount = "there"
  /\ pc = "idle" /\ resync = "no" /\ left = {} /\ toPush = {} /\ failing = "no"
  /\ events = MaxEvents
  /\ torn = "no" /\ minted = 0 /\ merged = "no" /\ orphaned = "no"

\* What a process that looks finds on the volume.
Seen == IF mount = "blank" THEN Empty ELSE vault

Baselined == SettingsOf(Tip(local)) # {}

-----------------------------------------------------------------------------
(* The steps of a run that decide something.                               *)

\* Mutant of LocksLeft: only index.lock is looked for.
LocksLeftMutSome(before) == before

\* Every *.lock under the git-dir is removed.
LocksLeft(before) == "no"

\* How the branch compares with the remote's, given what is to be done when
\* there is no branch yet and when it is ahead.
Classified(mine, theirs, rootless, ahead) ==
  IF theirs = <<>> THEN "keep"
  ELSE IF mine = <<>> THEN rootless
  ELSE IF mine = theirs THEN "keep"
  ELSE IF Within(mine, theirs) THEN "advance"
  ELSE IF Within(theirs, mine) THEN ahead
  ELSE "refuse"

\* Mutants of Sync: a branch without a ref is left for the first commit to
\* root; a branch that is ahead is brought to the remote's.
SyncMutRoots(mine, theirs) == Classified(mine, theirs, "keep", "keep")
SyncMutRewinds(mine, theirs) == Classified(mine, theirs, "advance", "advance")

\* The branch is created from the remote's or fast-forwarded to it, left as it
\* is, or the run refuses to guess which side wins.
Sync(mine, theirs) == Classified(mine, theirs, "advance", "keep")

\* Mutant of ReadsHead: only a branch that moved calls for it.
ReadsHeadMutMoved(moved, before) == moved

\* The index follows HEAD only when made to.
ReadsHead(moved, before) == moved \/ before = "absent"

\* Mutant of Captured: what could be read is taken.
CapturedMutPartial(tree, unread) == SettingsOf(tree) \ unread

\* The settings a walk of .obsidian takes: all of them, or none when it could
\* not read everything.
Captured(tree, unread) == IF unread # {} THEN {} ELSE SettingsOf(tree)

\* Mutant of Frozen: only the paths a baseline has just been captured at.
FrozenMutOnce(history, staged) == SettingsOf(staged) \ SettingsOf(Tip(history))

\* The settings whose skip-worktree bit the run sets: those of HEAD, or else
\* those it has just staged.
Frozen(history, staged) ==
  IF SettingsOf(Tip(history)) # {} THEN SettingsOf(Tip(history)) ELSE SettingsOf(staged)

\* Mutant of LeftAlone: the bits are not minded.
LeftAloneMutSparse(unread) == unread \cup (Settings \ SettingsOf(index))

\* What git add --all leaves as it is in the index: what it cannot read, what
\* has its bit set, and under the ignore rule any setting not tracked yet.
LeftAlone(unread) == unread \cup frozen \cup (Settings \ SettingsOf(index))

TooMany(before, after) ==
  Cardinality(Tracked(before) \ Tracked(after)) * Den > Num * Cardinality(Tracked(before))

\* Mutant of LooksLikeALoss: no count of the notes.
LooksLikeALossMutFraction(before, after) ==
  Tracked(before) # {} /\ Num < Den /\ TooMany(before, after)

\* Staged deletions that are a volume come back blank, not an edit.
LooksLikeALoss(before, after) ==
  /\ Tracked(before) # {} /\ Num < Den
  /\ \/ TooMany(before, after)
     \/ Tracked(before) \cap Markdown # {} /\ Tracked(after) \cap Markdown = {}

-----------------------------------------------------------------------------
(* A run.                                                                  *)

\* The run is over, whatever it was about to do.
Exits ==
  /\ pc' = "idle" /\ resync' = "no" /\ left' = {} /\ toPush' = {} /\ failing' = "no"
  /\ torn' = IF ~Baselined /\ frozen # {} THEN "yes" ELSE torn

\* The run can do no more than push what earlier ones committed.
GivesUp ==
  /\ pc' = "push" /\ left' = {} /\ toPush' = Remotes /\ failing' = "yes" /\ UNCHANGED resync
  /\ torn' = IF ~Baselined /\ frozen # {} THEN "yes" ELSE torn

GoesTo(phase) == pc' = phase /\ UNCHANGED <<resync, left, toPush, failing, torn>>

\* Something happens that need not have.
Happens == events > 0 /\ events' = events - 1

\* What a run is started with: known hosts, locks cleared, git init, the ignore
\* rule, the configuration.
Provision ==
  /\ pc = "idle"
  /\ locked' = LocksLeft(locked)
  /\ resync' = IF ReadsHead(FALSE, indexFile) THEN "yes" ELSE "no"
  /\ pc' = "fetch"
  /\ UNCHANGED <<remote, local, fetched, index, indexFile, frozen, volume, left, toPush,
                 failing, torn, events, ghosts>>

Fetch ==
  /\ pc = "fetch" /\ locked = "no"
  /\ fetched' = remote["origin"]
  /\ GoesTo("sync")
  /\ UNCHANGED <<remote, local, index, indexFile, frozen, locked, volume, events, ghosts>>

AdvanceBranch ==
  /\ pc = "sync"
  /\ Sync(local, fetched) = "advance"
  /\ local' = fetched
  /\ resync' = IF ReadsHead(TRUE, indexFile) THEN "yes" ELSE resync
  /\ pc' = "resync"
  /\ UNCHANGED <<remote, fetched, index, indexFile, frozen, locked, volume, left, toPush,
                 failing, torn, events, ghosts>>

\* Origin has no history, or is where the branch is, or is behind it.
KeepBranch ==
  /\ pc = "sync"
  /\ Sync(local, fetched) = "keep"
  /\ GoesTo("resync")
  /\ UNCHANGED <<remote, gitDir, volume, events, ghosts>>

RefuseToGuess ==
  /\ pc = "sync"
  /\ Sync(local, fetched) = "refuse"
  /\ Exits
  /\ UNCHANGED <<remote, gitDir, volume, events, ghosts>>

\* git read-tree HEAD; the entries it makes have no bit set.
ReadHead ==
  /\ pc = "resync"
  /\ IF resync = "yes" /\ local # <<>>
     THEN index' = Tip(local) /\ indexFile' = "present" /\ frozen' = {}
     ELSE UNCHANGED <<index, indexFile, frozen>>
  /\ GoesTo("baseline")
  /\ UNCHANGED <<remote, local, fetched, locked, volume, events, ghosts>>

\* A git command of the provisioning fails, or finds a lock in its way: the
\* run ends there.
ProvisioningFails ==
  /\ pc \in {"fetch", "sync", "resync"}
  /\ IF locked = "yes" THEN UNCHANGED events ELSE Happens
  /\ Exits
  /\ UNCHANGED <<remote, gitDir, volume, ghosts>>

\* HEAD has the baseline: its bits are set again.
ReapplyBaseline ==
  /\ pc = "baseline"
  /\ Baselined
  /\ left' = Frozen(local, index)
  /\ pc' = IF left' = {} THEN "stage" ELSE "freeze"
  /\ UNCHANGED <<remote, gitDir, volume, resync, toPush, failing, torn, events, ghosts>>

\* There is nothing to capture, or not all of it could be read.
SkipBaseline ==
  /\ pc = "baseline"
  /\ ~Baselined
  /\ \E unread \in SUBSET SettingsOf(Seen) :
       /\ Captured(Seen, unread) = {}
       /\ IF unread = {} THEN UNCHANGED events ELSE Happens
  /\ GoesTo("stage")
  /\ UNCHANGED <<remote, gitDir, volume, ghosts>>

\* git add --force of what the walk took.  It stages every path but those
\* whose bit is set, and fails for those.
CaptureBaseline ==
  /\ pc = "baseline"
  /\ ~Baselined
  /\ \E unread \in SUBSET SettingsOf(Seen) :
       LET taken == Captured(Seen, unread) IN
       /\ taken # {}
       /\ IF unread = {} THEN UNCHANGED events ELSE Happens
       /\ index' = [p \in Paths |-> IF p \in taken \ frozen THEN Seen[p] ELSE index[p]]
       /\ indexFile' = "present"
       /\ IF taken \cap frozen = {}
          THEN /\ left' = Frozen(local, index')
               /\ pc' = "freeze"
               /\ UNCHANGED <<resync, toPush, failing, torn>>
          ELSE GivesUp
  /\ UNCHANGED <<remote, local, fetched, frozen, locked, volume, ghosts>>

\* git update-index --skip-worktree; a path the index does not have is fatal.
Freeze(p) ==
  /\ pc = "freeze"
  /\ p \in left
  /\ IF index[p] # Absent
     THEN /\ frozen' = frozen \cup {p}
          /\ left' = left \ {p}
          /\ pc' = IF left = {p} THEN "stage" ELSE "freeze"
          /\ UNCHANGED <<resync, toPush, failing, torn>>
     ELSE GivesUp /\ UNCHANGED frozen
  /\ UNCHANGED <<remote, local, fetched, index, indexFile, locked, volume, events, ghosts>>

\* git add --all; a directory that cannot be read does not make it fail.
StageAll ==
  /\ pc = "stage"
  /\ \E unread \in SUBSET Files :
       /\ IF unread = {} THEN UNCHANGED events ELSE Happens /\ mount = "there"
       /\ index' = [p \in Paths |->
            IF p \in LeftAlone(unread) THEN index[p] ELSE Seen[p]]
  /\ indexFile' = "present"
  /\ GoesTo("guard")
  /\ UNCHANGED <<remote, local, fetched, frozen, locked, volume, ghosts>>

\* A file that cannot be read, a full git-dir, a path gone since the walk.
StagingFails ==
  /\ pc \in {"baseline", "freeze", "stage"}
  /\ Happens
  /\ GivesUp
  /\ UNCHANGED <<remote, gitDir, volume, ghosts>>

PassGuard ==
  /\ pc = "guard"
  /\ ~LooksLikeALoss(Tip(local), index)
  /\ GoesTo("commit")
  /\ UNCHANGED <<remote, gitDir, volume, events, ghosts>>

RefuseToCommit ==
  /\ pc = "guard"
  /\ LooksLikeALoss(Tip(local), index)
  /\ GivesUp
  /\ UNCHANGED <<remote, gitDir, volume, events, ghosts>>

Commit ==
  /\ pc = "commit"
  /\ index # Tip(local)
  /\ local' = Append(local, [id |-> minted, tree |-> index])
  /\ minted' = minted + 1
  /\ pc' = "push" /\ toPush' = Remotes
  /\ UNCHANGED <<remote, fetched, index, indexFile, frozen, locked, volume, resync, left,
                 failing, torn, events, merged, orphaned>>

NothingToCommit ==
  /\ pc = "commit"
  /\ index = Tip(local)
  /\ pc' = "push" /\ toPush' = Remotes
  /\ UNCHANGED <<remote, gitDir, volume, resync, left, failing, torn, events, ghosts>>

\* git diff that fails is taken for something staged.
CommitFails ==
  /\ pc = "commit"
  /\ Happens
  /\ GivesUp
  /\ UNCHANGED <<remote, gitDir, volume, ghosts>>

\* Origin first, then the NAS, whatever became of origin.
NextRemote(r) == r \in toPush /\ (r # "origin" => "origin" \notin toPush)

\* A remote takes a branch that has all it has.
Takes(r) == local # <<>> /\ Within(remote[r], local)

\* Mutant of Verdict: the last remote's answer decides.
VerdictMutLast(before, ok) == IF ok THEN "no" ELSE "yes"

\* One remote that failed is enough for the run to fail.
Verdict(before, ok) == IF ok THEN before ELSE "yes"

Pushed(r) ==
  /\ toPush' = toPush \ {r}
  /\ pc' = IF toPush = {r} THEN "finish" ELSE "push"
  /\ UNCHANGED <<resync, left, torn>>

Push(r) ==
  /\ pc = "push"
  /\ NextRemote(r)
  /\ IF Takes(r)
     THEN /\ remote' = [remote EXCEPT ![r] = local]
          /\ fetched' = IF r = "origin" THEN local ELSE fetched
     ELSE UNCHANGED <<remote, fetched>>
  /\ failing' = Verdict(failing, Takes(r))
  /\ Pushed(r)
  /\ UNCHANGED <<local, index, indexFile, frozen, locked, volume, events, ghosts>>

\* The connection fails, before or after the remote took the branch.
PushFails(r) ==
  /\ pc = "push"
  /\ NextRemote(r)
  /\ Happens
  /\ remote' \in {remote} \cup (IF Takes(r) THEN {[remote EXCEPT ![r] = local]} ELSE {})
  /\ failing' = Verdict(failing, FALSE)
  /\ Pushed(r)
  /\ UNCHANGED <<gitDir, volume, ghosts>>

Finish ==
  /\ pc = "finish"
  /\ Exits
  /\ UNCHANGED <<remote, gitDir, volume, events, ghosts>>

\* Killed; the command in flight may leave its lock.
Dies ==
  /\ pc # "idle"
  /\ Happens
  /\ locked' \in Answers
  /\ Exits
  /\ UNCHANGED <<remote, local, fetched, index, indexFile, frozen, volume, ghosts>>

-----------------------------------------------------------------------------
(* The environment.                                                        *)

\* Anybody's edit of the vault; a setting is edited, not removed.
Edit(p, held) ==
  /\ Happens
  /\ mount = "there"
  /\ held # vault[p]
  /\ p \in Settings => vault[p] # Absent /\ held # Absent
  /\ vault' = [vault EXCEPT ![p] = held]
  /\ UNCHANGED <<remote, gitDir, mount, run, ghosts>>

\* The editor makes its settings.
SeedSettings ==
  /\ mount = "there"
  /\ SettingsOf(vault) = {}
  /\ vault' = [p \in Paths |-> IF p \in Settings THEN SeededWith[p] ELSE vault[p]]
  /\ UNCHANGED <<remote, gitDir, mount, run, events, ghosts>>

\* The volume comes back empty; some history exists to tell.
GoBlank ==
  /\ mount = "there" /\ remote["origin"] # <<>>
  /\ Happens
  /\ mount' = "blank"
  /\ UNCHANGED <<remote, gitDir, vault, run, ghosts>>

Restore ==
  /\ mount = "blank"
  /\ mount' = "there"
  /\ UNCHANGED <<remote, gitDir, vault, run, events, ghosts>>

\* The git-dir's volume is lost between two runs.
LoseGitDir ==
  /\ pc = "idle"
  /\ Happens
  /\ local' = <<>> /\ fetched' = <<>>
  /\ index' = Empty /\ indexFile' = "absent" /\ frozen' = {} /\ locked' = "no"
  /\ orphaned' = IF Within(local, remote["origin"]) THEN orphaned ELSE "yes"
  /\ UNCHANGED <<remote, volume, run, minted, merged>>

\* Somebody merges a pull request into origin.
MergePullRequest(p, held) ==
  /\ remote["origin"] # <<>>
  /\ Happens
  /\ held # Tip(remote["origin"])[p]
  /\ remote' = [remote EXCEPT !["origin"] =
       Append(@, [id |-> minted, tree |-> [Tip(@) EXCEPT ![p] = held]])]
  /\ minted' = minted + 1
  /\ merged' = "yes"
  /\ UNCHANGED <<gitDir, volume, run, orphaned>>

-----------------------------------------------------------------------------
RunStep ==
  \/ Provision \/ Fetch
  \/ AdvanceBranch \/ KeepBranch \/ RefuseToGuess \/ ReadHead
  \/ ReapplyBaseline \/ SkipBaseline \/ CaptureBaseline
  \/ \E p \in Settings : Freeze(p)
  \/ StageAll \/ PassGuard \/ RefuseToCommit
  \/ Commit \/ NothingToCommit
  \/ \E r \in Remotes : Push(r)
  \/ Finish

Next ==
  \/ RunStep
  \/ ProvisioningFails \/ StagingFails \/ CommitFails \/ Dies
  \/ \E r \in Remotes : PushFails(r)
  \/ \E p \in Paths, held \in Holdings : Edit(p, held)
  \/ SeedSettings \/ GoBlank \/ Restore \/ LoseGitDir
  \/ \E p \in MergedPaths, held \in Holdings : MergePullRequest(p, held)

Spec == Init /\ [][Next]_vars

\* Runs are started on a schedule for ever, and every command of one returns.
FairSpec == Spec /\ WF_vars(RunStep)

-----------------------------------------------------------------------------
(* Properties.                                                             *)

\* Nobody but the committer has written to origin.
SingleWriter == merged = "no"

Forked(h, g) == ~Within(h, g) /\ ~Within(g, h)

(***************************************************************************)
(* A commit not yet pushed is never dropped by a later run: the branch     *)
(* only grows, unless the git-dir itself is lost.                          *)
(* provisioning._sync_branch_from_origin.                                  *)
(***************************************************************************)
UnpushedIsKept == [][Within(local, local') \/ LoseGitDir]_vars

(***************************************************************************)
(* The git-dir and the remotes hold one line of history, however often     *)
(* the git-dir is lost or a run cut short; unless somebody else writes to  *)
(* origin, or the git-dir was lost with a commit origin did not have.      *)
(* provisioning.provision_repository.                                      *)
(***************************************************************************)
OneLineage ==
  SingleWriter /\ orphaned = "no" =>
    /\ \A r \in Remotes : ~Forked(remote[r], local)
    /\ \A r, s \in Remotes : ~Forked(remote[r], remote[s])

(***************************************************************************)
(* The baseline enters history whole and never changes there: not by an    *)
(* edit at the editor, a lost index or a killed run.  Some of the settings *)
(* the editor makes are committed without the others only if a run ended   *)
(* between freezing one and committing it.  baseline.ensure_obsidian_-     *)
(* baseline, provisioning.provision_repository.                            *)
(***************************************************************************)
BaselineIsKept ==
  /\ torn = "no" => \A i \in 1..Len(local) : SettingsOf(local[i].tree) \in {{}, Settings}
  /\ \A i, j \in 1..Len(local) :
       i < j /\ SettingsOf(local[i].tree) # {} =>
         \A p \in Settings : local[j].tree[p] = local[i].tree[p]

(***************************************************************************)
(* No commit drops every note, or more than the fraction allowed of what   *)
(* the one before it tracked, whatever the index held when the run began.  *)
(* commit.check_for_mass_deletion.                                         *)
(***************************************************************************)
NoCommitIsALoss ==
  SingleWriter =>
    \A i \in 1..Len(local) - 1 :
      LET before == Tracked(local[i].tree)
          after == Tracked(local[i + 1].tree) IN
      /\ Cardinality(before \ after) * Den <= Num * Cardinality(before)
      /\ after \cap Markdown = {} => before \cap Markdown = {}

(***************************************************************************)
(* A run that exits zero leaves nothing staged that is not committed, and  *)
(* nothing committed that is not on every remote.  commands.commit.run,    *)
(* push_outcome.summarize_push_results.                                    *)
(***************************************************************************)
SuccessMeansRecorded ==
  pc = "finish" /\ failing = "no" =>
    /\ index = Tip(local)
    /\ \A r \in Remotes : Within(local, remote[r])

\* Origin's head has the vault; the guard holds it back; origin has somebody
\* else's commits that the branch, with its own, cannot follow.
Recorded == \A p \in Files : Tip(remote["origin"])[p] = Seen[p]
HeldBack ==
  LooksLikeALoss(Tip(local),
    [p \in Paths |-> IF p \in Settings THEN Tip(local)[p] ELSE Seen[p]])
Diverged == Forked(local, remote["origin"])

\* A captured baseline is in the index, bits and all, and not in HEAD.
Jammed == ~Baselined /\ SettingsOf(Seen) \cap frozen # {}

(***************************************************************************)
(* What the vault is left holding reaches origin, whatever was killed,     *)
(* failed or lost before; unless the guard refuses it, histories diverged, *)
(* or the capture of the baseline is jammed.  commands.commit.run.         *)
(***************************************************************************)
EditsReachOrigin == <>[](Recorded \/ HeldBack \/ Diverged \/ Jammed)

(***************************************************************************)
(* What the repository says of a run that failed after it staged something *)
(* is that the next one "re-runs `git add -A` in full regardless of what a *)
(* prior partial stage left behind" (commands/commit.py).  When a capture  *)
(* of the baseline was left behind it never gets there.                    *)
(***************************************************************************)
NextRunStages == <>[](Recorded \/ HeldBack \/ Diverged)
=============================================================================
