-------------------------- MODULE VaultCommitterProofs --------------------------
(***************************************************************************)
(* Proofs about VaultCommitter: its types, that a branch only grows, that  *)
(* there is one line of history, what a run that exits zero has done, what *)
(* no commit drops, and that the baseline stays as it was captured.        *)
(***************************************************************************)
EXTENDS VaultCommitter, SequenceTheorems, FiniteSetTheorems, TLAPS

Commits == [id : Nat, tree : Trees]

-----------------------------------------------------------------------------
(* Histories and the order on them.                                        *)

\* The tree of a branch's head is a tree.
LEMMA TipIsATree ==
  ASSUME NEW h \in Histories
  PROVE  Tip(h) \in Trees
<1>1. Empty \in Trees
  BY DEF Empty, Trees, Holdings
<1>2. CASE h # <<>>
  <2>1. Len(h) \in Nat \ {0}
    BY <1>2, EmptySeq DEF Histories
  <2>2. Len(h) \in 1..Len(h)
    BY <2>1
  <2>3. h[Len(h)] \in Commits
    BY <2>2, ElementOfSeq DEF Histories, Commits
  <2>. QED
    BY <1>2, <2>3 DEF Tip, Commits
<1>. QED
  BY <1>1, <1>2 DEF Tip

\* Every history is within itself, and the empty one within every other.
LEMMA WithinItself ==
  ASSUME NEW h \in Histories
  PROVE  Within(h, h) /\ Within(<<>>, h)
BY DEF Within, Histories

\* Within is transitive.
LEMMA WithinTransitive ==
  ASSUME NEW f \in Histories, NEW g \in Histories, NEW h \in Histories,
         Within(f, g), Within(g, h)
  PROVE  Within(f, h)
BY DEF Within, Histories

\* Two histories within a third are within one another, one way or the other.
LEMMA WithinOneLine ==
  ASSUME NEW f \in Histories, NEW g \in Histories, NEW h \in Histories,
         Within(f, h), Within(g, h)
  PROVE  ~Forked(f, g)
BY DEF Within, Histories, Forked

\* A commit extends the branch it is made on, and is its head.
LEMMA Extended ==
  ASSUME NEW h \in Histories, NEW c \in Commits
  PROVE  /\ Append(h, c) \in Histories
         /\ Append(h, c) # <<>>
         /\ Len(Append(h, c)) = Len(h) + 1
         /\ \A i \in 1..Len(h) : Append(h, c)[i] = h[i]
         /\ Append(h, c)[Len(h) + 1] = c
         /\ Within(h, Append(h, c))
         /\ Tip(Append(h, c)) = c.tree
<1>1. Len(h) \in Nat
  BY DEF Histories
<1>2. /\ Append(h, c) \in Histories /\ Append(h, c) # <<>>
      /\ Len(Append(h, c)) = Len(h) + 1
      /\ \A i \in 1..Len(h) : Append(h, c)[i] = h[i]
      /\ Append(h, c)[Len(h) + 1] = c
  BY AppendProperties DEF Histories, Commits
<1>. QED
  BY <1>1, <1>2 DEF Within, Tip

\* A branch moves only to one that has all of it.
LEMMA AdvanceIsForward ==
  ASSUME NEW h \in Histories, NEW g \in Histories, Sync(h, g) = "advance"
  PROVE  g # <<>> /\ Within(h, g)
BY WithinItself DEF Sync, Classified

-----------------------------------------------------------------------------
(* Types.                                                                  *)

\* What a process finds on the volume is a tree.
LEMMA SeenIsATree ==
  ASSUME vault \in Trees
  PROVE  Seen \in Trees
BY DEF Seen, Trees, Empty, Holdings

\* Every variable starts with a value of its type.
LEMMA InitTyped ==
  ASSUME Init
  PROVE  TypeOK
<1>1. <<>> \in Histories
  BY DEF Histories
<1>2. Empty \in Trees
  BY DEF Trees, Empty, Holdings
<1>3. vault \in Trees
  BY VaultCommitterAssumption DEF Init, Trees, Holdings, Paths
<1>. QED
  BY <1>1, <1>2, <1>3, VaultCommitterAssumption
  DEF Init, TypeOK, Answers, Phases, SettingsOf, Tracked

\* No step gives a variable a value outside its type.
LEMMA StepTyped ==
  ASSUME TypeOK, [Next]_vars
  PROVE  TypeOK'
<1>. USE DEF TypeOK, Answers, Phases
<1>. USE DEF gitDir, volume, run, ghosts
<1>1. CASE Provision
  BY <1>1 DEF Provision, LocksLeft
<1>2. CASE Fetch
  BY <1>2, VaultCommitterAssumption DEF Fetch, GoesTo
<1>3. CASE AdvanceBranch
  BY <1>3 DEF AdvanceBranch
<1>4. CASE KeepBranch \/ RefuseToGuess \/ PassGuard \/ RefuseToCommit \/ Finish
  BY <1>4 DEF KeepBranch, RefuseToGuess, PassGuard, RefuseToCommit, Finish, GoesTo, Exits, GivesUp
<1>5. CASE ReadHead
  <2>1. Tip(local) \in Trees
    BY TipIsATree
  <2>. QED
    BY <1>5, <2>1 DEF ReadHead, GoesTo
<1>6. CASE ReapplyBaseline
  BY <1>6 DEF ReapplyBaseline, Frozen, SettingsOf
<1>7. CASE SkipBaseline
  BY <1>7 DEF SkipBaseline, GoesTo, Happens
<1>8. CASE CaptureBaseline
  <2>1. PICK unread \in SUBSET SettingsOf(Seen) :
          LET taken == Captured(Seen, unread) IN
          /\ taken # {}
          /\ IF unread = {} THEN UNCHANGED events ELSE Happens
          /\ index' = [p \in Paths |-> IF p \in taken \ frozen THEN Seen[p] ELSE index[p]]
          /\ indexFile' = "present"
          /\ IF taken \cap frozen = {}
             THEN /\ left' = Frozen(local, index')
                  /\ pc' = "freeze"
                  /\ UNCHANGED <<resync, toPush, failing, torn>>
             ELSE GivesUp
    BY <1>8 DEF CaptureBaseline
  <2>2. index' \in Trees /\ frozen \subseteq SettingsOf(index')
    BY <2>1, SeenIsATree DEF Trees, SettingsOf, Tracked, Paths
  <2>3. left' \subseteq Settings /\ pc' \in Phases /\ toPush' \subseteq Remotes
    BY <2>1 DEF Frozen, SettingsOf, GivesUp
  <2>4. events' \in Nat /\ torn' \in Answers /\ failing' \in Answers /\ resync' \in Answers
    BY <2>1 DEF GivesUp, Happens
  <2>5. UNCHANGED <<remote, local, fetched, frozen, locked, volume, ghosts>>
    BY <1>8 DEF CaptureBaseline
  <2>. QED
    BY <2>1, <2>2, <2>3, <2>4, <2>5
<1>9. CASE \E p \in Settings : Freeze(p)
  BY <1>9 DEF Freeze, GivesUp, SettingsOf, Tracked, Paths
<1>10. CASE StageAll
  <2>1. PICK unread \in SUBSET Files :
          /\ IF unread = {} THEN UNCHANGED events ELSE Happens /\ mount = "there"
          /\ index' = [p \in Paths |->
               IF p \in LeftAlone(unread) THEN index[p] ELSE Seen[p]]
    BY <1>10 DEF StageAll
  <2>2. index' \in Trees /\ frozen \subseteq SettingsOf(index')
    BY <2>1, SeenIsATree DEF Trees, SettingsOf, Tracked, Paths, LeftAlone
  <2>. QED
    BY <1>10, <2>1, <2>2 DEF StageAll, GoesTo, Happens
<1>11. CASE Commit
  BY <1>11, Extended DEF Commit, Commits
<1>12. CASE NothingToCommit
  BY <1>12 DEF NothingToCommit
<1>13. CASE \E r \in Remotes : Push(r)
  BY <1>13 DEF Push, Pushed, Verdict
<1>14. CASE \E r \in Remotes : PushFails(r)
  BY <1>14 DEF PushFails, Pushed, Verdict, Happens
<1>15. CASE ProvisioningFails \/ StagingFails \/ CommitFails \/ Dies
  BY <1>15 DEF ProvisioningFails, StagingFails, CommitFails, Dies, Exits, GivesUp, Happens
<1>16. CASE \E p \in Paths, held \in Holdings : Edit(p, held)
  BY <1>16 DEF Edit, Happens, Trees
<1>17. CASE SeedSettings
  BY <1>17, VaultCommitterAssumption DEF SeedSettings, Trees, Holdings
<1>18. CASE GoBlank \/ Restore
  BY <1>18 DEF GoBlank, Restore, Happens
<1>19. CASE LoseGitDir
  <2>1. <<>> \in Histories /\ Empty \in Trees
    BY DEF Histories, Trees, Empty, Holdings
  <2>. QED
    BY <1>19, <2>1 DEF LoseGitDir, Happens
<1>20. CASE \E p \in MergedPaths, held \in Holdings : MergePullRequest(p, held)
  <2>. PICK p \in MergedPaths, held \in Holdings : MergePullRequest(p, held)
    BY <1>20
  <2>. DEFINE o == remote["origin"]
              c == [id |-> minted, tree |-> [Tip(o) EXCEPT ![p] = held]]
  <2>1. o \in Histories /\ p \in Paths
    BY VaultCommitterAssumption
  <2>2. c \in Commits
    BY <2>1, TipIsATree DEF Commits, Trees
  <2>3. Append(o, c) \in Histories
    BY <2>1, <2>2, Extended
  <2>4. remote' = [remote EXCEPT !["origin"] = Append(o, c)]
    BY DEF MergePullRequest
  <2>. HIDE DEF o, c
  <2>5. remote' \in [Remotes -> Histories]
    BY <2>3, <2>4
  <2>6. /\ minted' \in Nat /\ merged' \in Answers /\ events' \in Nat
        /\ UNCHANGED <<gitDir, volume, run, orphaned>>
    BY DEF MergePullRequest, Happens
  <2>. QED
    BY <2>5, <2>6
<1>21. CASE UNCHANGED vars
  BY <1>21 DEF vars
<1>. QED
  BY <1>1, <1>2, <1>3, <1>4, <1>5, <1>6, <1>7, <1>8, <1>9, <1>10, <1>11, <1>12, <1>13,
     <1>14, <1>15, <1>16, <1>17, <1>18, <1>19, <1>20, <1>21 DEF Next, RunStep

\* Every variable of the committer always holds a value of its type: above
\* all, a skip-worktree bit is only ever on a path the index has (TypeOK).
THEOREM CommitterTypeCorrect == Spec => []TypeOK
<1>1. Init => TypeOK
  BY InitTyped
<1>2. TypeOK /\ [Next]_vars => TypeOK'
  BY StepTyped
<1>. QED
  BY <1>1, <1>2, PTL DEF Spec

-----------------------------------------------------------------------------
(* The invariants the other theorems rest on.                              *)

Deciding == {"resync", "baseline", "freeze", "stage", "guard", "commit"}

\* Origin has nothing while a run without a branch is past its sync, or has
\* left an index behind: there was nothing to advance to.
RootIsFirst ==
  /\ pc = "sync" /\ fetched = <<>> => remote["origin"] = <<>>
  /\ local = <<>> /\ (pc \in Deciding \/ indexFile = "present") => remote["origin"] = <<>>

\* Every remote is behind the branch, or behind origin when there is none.
OneLine ==
  SingleWriter /\ orphaned = "no" =>
    /\ \A r \in Remotes : Within(remote[r], IF local = <<>> THEN remote["origin"] ELSE local)
    /\ pc = "sync" => fetched = remote["origin"]

LineInv == TypeOK /\ RootIsFirst /\ OneLine

\* What a run that has not failed knows once it pushes.
PushKnows ==
  /\ pc \in {"push", "finish"} /\ failing = "no" =>
       /\ index = Tip(local)
       /\ \A r \in Remotes \ toPush : Within(local, remote[r])
  /\ pc = "finish" => toPush = {}

\* A history no commit of which is a loss.
NoLossIn(h) ==
  \A i \in 1..Len(h) - 1 :
    LET before == Tracked(h[i].tree)
        after == Tracked(h[i + 1].tree) IN
    /\ Cardinality(before \ after) * Den <= Num * Cardinality(before)
    /\ after \cap Markdown = {} => before \cap Markdown = {}

\* Nothing stands between the guard and the commit it let through.
NoLossAnywhere ==
  /\ SingleWriter =>
       /\ NoLossIn(local) /\ NoLossIn(fetched)
       /\ \A r \in Remotes : NoLossIn(remote[r])
  /\ pc = "commit" => ~LooksLikeALoss(Tip(local), index)

\* All of the settings or none of them.
Whole(tree) == SettingsOf(tree) \in {{}, Settings}
SameSettings(t, u) == \A p \in Settings : t[p] = u[p]

\* A history in which a baseline, once there, stays as it is; and one that
\* never has it in part.
Steady(h) ==
  \A i, j \in 1..Len(h) :
    i < j /\ SettingsOf(h[i].tree) # {} => SameSettings(h[i].tree, h[j].tree)
WholeIn(h) == \A i \in 1..Len(h) : Whole(h[i].tree)

\* What a history that goes further than this one adds leaves the settings alone.
Follows(h, g) ==
  h # <<>> /\ Within(h, g) =>
    \A i \in 1..Len(g) : i > Len(h) => SameSettings(Tip(h), g[i].tree)

\* A commit's number is new.
Below(h, n) == \A i \in 1..Len(h) : h[i].id < n
Numbered == Below(local, minted) /\ Below(remote["origin"], minted)

HistoriesKeep ==
  /\ Steady(local) /\ Steady(fetched) /\ \A r \in Remotes : Steady(remote[r])
  /\ torn = "no" => WholeIn(local) /\ WholeIn(fetched) /\ \A r \in Remotes : WholeIn(remote[r])
  /\ Follows(local, remote["origin"])
  /\ pc = "sync" => Within(fetched, remote["origin"]) /\ Follows(fetched, remote["origin"])

\* The index has HEAD's baseline from when there is one, with its bits set
\* before anything is staged.
IndexKeeps ==
  /\ Baselined /\ indexFile = "present" => SameSettings(Tip(local), index)
  /\ Baselined /\ pc = "freeze" => SettingsOf(Tip(local)) \subseteq frozen \cup left
  /\ Baselined /\ pc = "stage" => SettingsOf(Tip(local)) \subseteq frozen
  /\ pc \in {"guard", "commit"} => indexFile = "present"

\* Without a torn run, what is captured and frozen is all of the settings.
CaptureIsWhole ==
  /\ Whole(vault)
  /\ torn = "no" =>
       /\ Whole(index)
       /\ ~Baselined /\ pc \in {"idle", "fetch", "sync", "resync", "baseline"} => frozen = {}
       /\ ~Baselined /\ pc = "freeze" => frozen \cup left = Settings
       /\ ~Baselined /\ pc = "stage" => frozen \in {{}, Settings}

BaselineInv == TypeOK /\ RootIsFirst /\ Numbered /\ HistoriesKeep /\ IndexKeeps /\ CaptureIsWhole

-----------------------------------------------------------------------------
(* Who writes what.                                                        *)

\* The branch moves when it is created or fast-forwarded, when a run commits,
\* and when the git-dir is lost.
LEMMA LocalMoves ==
  ASSUME [Next]_vars
  PROVE  local' = local \/ AdvanceBranch \/ Commit \/ LoseGitDir
BY DEF Next, RunStep, vars, gitDir, Provision, Fetch, KeepBranch, RefuseToGuess, ReadHead,
       ReapplyBaseline, SkipBaseline, CaptureBaseline, Freeze, StageAll, PassGuard,
       RefuseToCommit, NothingToCommit, Push, Finish, ProvisioningFails, StagingFails,
       CommitFails, Dies, PushFails, Edit, SeedSettings, GoBlank, Restore, MergePullRequest

\* A remote moves to the branch, when a run pushes it, and origin when a pull
\* request is merged.
LEMMA RemoteMoves ==
  ASSUME [Next]_vars
  PROVE  \/ remote' = remote
         \/ \E r \in Remotes :
              /\ pc = "push" /\ Takes(r)
              /\ remote' = [remote EXCEPT ![r] = local]
              /\ UNCHANGED <<local, indexFile, ghosts>>
              /\ pc' \in {"push", "finish"}
         \/ \E p \in MergedPaths, held \in Holdings : MergePullRequest(p, held)
BY DEF Next, RunStep, vars, gitDir, Provision, Fetch, AdvanceBranch, KeepBranch, RefuseToGuess,
       ReadHead, ReapplyBaseline, SkipBaseline, CaptureBaseline, Freeze, StageAll, PassGuard,
       RefuseToCommit, Commit, NothingToCommit, Push, Pushed, Finish, ProvisioningFails,
       StagingFails, CommitFails, Dies, PushFails, Edit, SeedSettings, GoBlank, Restore, LoseGitDir

\* A pull request adds one commit to origin, with a number of its own; it has
\* the settings of the head before it if pull requests leave those alone.
LEMMA MergeAddsACommit ==
  ASSUME TypeOK, NEW p \in MergedPaths, NEW held \in Holdings, MergePullRequest(p, held)
  PROVE  \E c \in Commits :
           /\ remote' = [remote EXCEPT !["origin"] = Append(remote["origin"], c)]
           /\ c.id = minted
           /\ p \notin Settings => SameSettings(Tip(remote["origin"]), c.tree)
<1>. DEFINE o == remote["origin"]
            c == [id |-> minted, tree |-> [Tip(o) EXCEPT ![p] = held]]
<1>1. o \in Histories /\ p \in Paths
  BY VaultCommitterAssumption DEF TypeOK
<1>2. Tip(o) \in Trees
  BY <1>1, TipIsATree
<1>3. c \in Commits /\ c.id = minted
  BY <1>1, <1>2 DEF Commits, Trees, TypeOK
<1>4. p \notin Settings => SameSettings(Tip(o), c.tree)
  BY <1>2 DEF SameSettings, Trees, Paths
<1>5. remote' = [remote EXCEPT !["origin"] = Append(o, c)]
  BY DEF MergePullRequest
<1>. HIDE DEF c
<1>. QED
  BY <1>3, <1>4, <1>5

\* What is observed once stays observed: somebody else's write, a commit lost
\* with the git-dir, a torn run.
LEMMA NothingIsForgotten ==
  ASSUME TypeOK, [Next]_vars
  PROVE  /\ merged' = "no" => merged = "no"
         /\ orphaned' = "no" => orphaned = "no"
         /\ torn' = "no" => torn = "no"
BY DEF TypeOK, Answers, Next, RunStep, vars, ghosts, run, Provision, Fetch, AdvanceBranch, KeepBranch,
       RefuseToGuess, ReadHead, ReapplyBaseline, SkipBaseline, CaptureBaseline, Freeze, StageAll,
       PassGuard, RefuseToCommit, Commit, NothingToCommit, Push, Pushed, Finish, ProvisioningFails,
       StagingFails, CommitFails, Dies, PushFails, Exits, GivesUp, GoesTo, Edit, SeedSettings,
       GoBlank, Restore, LoseGitDir, MergePullRequest

-----------------------------------------------------------------------------
(* A commit not yet pushed is never dropped.                               *)

\* Whatever a step does to the branch, all of it is still there, unless the
\* git-dir is lost.
LEMMA BranchGrows ==
  ASSUME TypeOK, [Next]_vars
  PROVE  Within(local, local') \/ LoseGitDir
<1>. USE DEF TypeOK
<1>1. CASE local' = local
  BY <1>1, WithinItself
<1>2. CASE AdvanceBranch
  BY <1>2, AdvanceIsForward DEF AdvanceBranch
<1>3. CASE Commit
  BY <1>3, Extended DEF Commit, Commits
<1>. QED
  BY <1>1, <1>2, <1>3, LocalMoves

\* A commit not yet pushed is never dropped by a later run: of the branch
\* only the loss of the git-dir takes anything (UnpushedIsKept).
THEOREM UnpushedStays == Spec => UnpushedIsKept
<1>1. TypeOK /\ [Next]_vars => [Within(local, local') \/ LoseGitDir]_vars
  BY BranchGrows
<1>. QED
  BY <1>1, CommitterTypeCorrect, PTL DEF Spec, UnpushedIsKept

-----------------------------------------------------------------------------
(* One line of history.                                                    *)

\* While there is no branch, origin gets its first commit from nobody
\* (RootIsFirst).
LEMMA RootStays ==
  ASSUME TypeOK, RootIsFirst, [Next]_vars
  PROVE  RootIsFirst'
<1>. USE DEF RootIsFirst, Deciding
<1>. USE DEF gitDir, volume, run, ghosts
<1>1. CASE Provision \/ Fetch \/ ReadHead
  BY <1>1 DEF Provision, Fetch, ReadHead, GoesTo
<1>2. CASE AdvanceBranch
  <2>1. local' # <<>> /\ pc' = "resync"
    BY <1>2, AdvanceIsForward DEF AdvanceBranch, TypeOK
  <2>. QED
    BY <2>1
<1>3. CASE KeepBranch
  <2>1. local = <<>> => fetched = <<>>
    BY <1>3 DEF KeepBranch, Sync, Classified
  <2>. QED
    BY <1>3, <2>1 DEF KeepBranch, GoesTo
<1>4. CASE RefuseToGuess \/ ProvisioningFails \/ Dies \/ Finish
  BY <1>4 DEF RefuseToGuess, ProvisioningFails, Dies, Finish, Exits
<1>5. CASE ReapplyBaseline \/ SkipBaseline
  BY <1>5 DEF ReapplyBaseline, SkipBaseline, GoesTo
<1>6. CASE CaptureBaseline \/ \E p \in Settings : Freeze(p)
  BY <1>6 DEF CaptureBaseline, Freeze, GivesUp
<1>7. CASE StageAll \/ PassGuard
  BY <1>7 DEF StageAll, PassGuard, GoesTo
<1>8. CASE StagingFails \/ RefuseToCommit \/ CommitFails
  BY <1>8 DEF StagingFails, RefuseToCommit, CommitFails, GivesUp
<1>9. CASE Commit
  <2>1. local' # <<>> /\ pc' = "push"
    BY <1>9, Extended DEF Commit, Commits, TypeOK
  <2>. QED
    BY <2>1
<1>10. CASE NothingToCommit
  BY <1>10 DEF NothingToCommit
<1>11. CASE \E r \in Remotes : Push(r) \/ PushFails(r)
  <2>1. local' = local /\ indexFile' = indexFile /\ pc' \in {"push", "finish"}
    BY <1>11 DEF Push, PushFails, Pushed
  <2>2. local = <<>> => remote' = remote
    BY <1>11 DEF Push, PushFails, Takes
  <2>. QED
    BY <2>1, <2>2
<1>12. CASE \/ \E p \in Paths, held \in Holdings : Edit(p, held)
            \/ SeedSettings \/ GoBlank \/ Restore
  BY <1>12 DEF Edit, SeedSettings, GoBlank, Restore
<1>13. CASE LoseGitDir
  BY <1>13 DEF LoseGitDir
<1>14. CASE \E p \in MergedPaths, held \in Holdings : MergePullRequest(p, held)
  BY <1>14 DEF MergePullRequest
<1>15. CASE UNCHANGED vars
  BY <1>15 DEF vars
<1>. QED
  BY <1>1, <1>2, <1>3, <1>4, <1>5, <1>6, <1>7, <1>8, <1>9, <1>10, <1>11, <1>12, <1>13,
     <1>14, <1>15 DEF Next, RunStep

\* A remote behind origin is behind a branch that has all of origin.
LEMMA OneLineStays ==
  ASSUME LineInv, [Next]_vars
  PROVE  OneLine'
<1>. USE DEF LineInv, TypeOK
<1>. SUFFICES ASSUME SingleWriter', orphaned' = "no"
              PROVE  /\ \A r \in Remotes :
                          Within(remote'[r], IF local' = <<>> THEN remote'["origin"] ELSE local')
                     /\ pc' = "sync" => fetched' = remote'["origin"]
  BY DEF OneLine
<1>1. SingleWriter /\ orphaned = "no" /\ remote["origin"] \in Histories
  BY NothingIsForgotten, VaultCommitterAssumption DEF SingleWriter
<1>2. \A r \in Remotes : Within(remote[r], IF local = <<>> THEN remote["origin"] ELSE local)
  BY <1>1 DEF OneLine
<1>3. pc' = "sync" => fetched' = remote'["origin"]
  <2>1. CASE pc = "sync" /\ UNCHANGED <<remote, fetched>>
    BY <1>1, <2>1 DEF OneLine
  <2>2. CASE Fetch
    BY <2>2 DEF Fetch
  <2>. QED
    BY <1>1, <2>1, <2>2
    DEF SingleWriter, Next, RunStep, vars, gitDir, run, Provision, AdvanceBranch, KeepBranch,
        RefuseToGuess, ReadHead, ReapplyBaseline, SkipBaseline, CaptureBaseline, Freeze, StageAll,
        PassGuard, RefuseToCommit, Commit, NothingToCommit, Push, Pushed, Finish,
        ProvisioningFails, StagingFails, CommitFails, Dies, PushFails, Exits, GivesUp, GoesTo,
        Edit, SeedSettings, GoBlank, Restore, LoseGitDir, MergePullRequest
<1>4. \A r \in Remotes :
        Within(remote'[r], IF local' = <<>> THEN remote'["origin"] ELSE local')
  <2>1. CASE remote' = remote /\ local' = local
    BY <1>2, <2>1
  <2>2. CASE remote' = remote /\ AdvanceBranch
    <3>1. local' = fetched /\ fetched = remote["origin"] /\ fetched # <<>> /\ Within(local, fetched)
      BY <1>1, <2>2, AdvanceIsForward DEF AdvanceBranch, OneLine
    <3>2. ASSUME NEW r \in Remotes
          PROVE  Within(remote[r], fetched)
      BY <1>2, <3>1, WithinTransitive
    <3>. QED
      BY <2>2, <3>1, <3>2
  <2>3. CASE remote' = remote /\ Commit
    <3>1. local' \in Histories /\ local' # <<>> /\ Within(local, local')
      BY <2>3, Extended DEF Commit, Commits
    <3>2. ASSUME NEW r \in Remotes
          PROVE  Within(remote[r], local')
      <4>1. CASE local = <<>>
        <5>1. remote["origin"] = <<>>
          BY <2>3, <4>1 DEF RootIsFirst, Deciding, Commit
        <5>. QED
          BY <1>2, <3>1, <4>1, <5>1, WithinTransitive
      <4>2. CASE local # <<>>
        BY <1>2, <3>1, <4>2, WithinTransitive
      <4>. QED
        BY <4>1, <4>2
    <3>. QED
      BY <2>3, <3>1, <3>2
  <2>4. CASE remote' = remote /\ LoseGitDir
    <3>1. local' = <<>> /\ Within(local, remote["origin"])
      BY <2>4 DEF LoseGitDir
    <3>2. ASSUME NEW r \in Remotes
          PROVE  Within(remote[r], remote["origin"])
      BY <1>1, <1>2, <3>1, WithinTransitive
    <3>. QED
      BY <2>4, <3>1, <3>2
  <2>5. CASE \E r \in Remotes : Takes(r) /\ local' = local /\ remote' = [remote EXCEPT ![r] = local]
    BY <1>2, <2>5, WithinItself DEF Takes
  <2>. QED
    BY <1>1, <2>1, <2>2, <2>3, <2>4, <2>5, LocalMoves, RemoteMoves
    DEF SingleWriter, MergePullRequest, AdvanceBranch, Commit, LoseGitDir, gitDir
<1>. QED
  BY <1>3, <1>4

\* The git-dir and the remotes hold one line of history, however often the
\* git-dir is lost with nothing unpushed, or a run cut short (OneLineage).
THEOREM HistoryIsOneLine == Spec => []OneLineage
<1>1. Init => LineInv
  <2>1. ASSUME Init
        PROVE  RootIsFirst /\ OneLine
    <3>1. <<>> \in Histories
      BY DEF Histories
    <3>. QED
      BY <2>1, <3>1, WithinItself, VaultCommitterAssumption DEF Init, RootIsFirst, OneLine, Deciding
  <2>. QED
    BY <2>1, InitTyped DEF LineInv
<1>2. LineInv /\ [Next]_vars => LineInv'
  BY StepTyped, RootStays, OneLineStays DEF LineInv
<1>3. LineInv => OneLineage
  <2>. SUFFICES ASSUME LineInv, SingleWriter, orphaned = "no", NEW r \in Remotes, NEW s \in Remotes
                PROVE  ~Forked(remote[r], local) /\ ~Forked(remote[r], remote[s])
    BY DEF OneLineage
  <2>. DEFINE line == IF local = <<>> THEN remote["origin"] ELSE local
  <2>1. {remote[r], remote[s], local, line} \subseteq Histories
    BY VaultCommitterAssumption DEF LineInv, TypeOK
  <2>2. Within(remote[r], line) /\ Within(remote[s], line)
    BY DEF LineInv, OneLine
  <2>3. Within(local, line)
    BY <2>1, WithinItself
  <2>. QED
    BY <2>1, <2>2, <2>3, WithinOneLine
<1>. QED
  BY <1>1, <1>2, <1>3, PTL DEF Spec

-----------------------------------------------------------------------------
(* What a run that exits zero has done.                                    *)

\* Nothing touches the index between the commit and the exit, and a push that
\* did not fail leaves the remote with the branch (PushKnows).
LEMMA PushKnowsStays ==
  ASSUME TypeOK, PushKnows, [Next]_vars
  PROVE  PushKnows'
<1>. USE DEF PushKnows
<1>. USE DEF gitDir, volume, run, ghosts
<1>1. CASE pc' \notin {"push", "finish"}
  BY <1>1
<1>2. CASE failing' = "yes" /\ pc' # "finish"
  BY <1>2
<1>3. CASE Commit
  <2>1. Tip(local') = index
    BY <1>3, Extended DEF Commit, Commits, TypeOK
  <2>. QED
    BY <1>3, <2>1 DEF Commit
<1>4. CASE NothingToCommit
  BY <1>4 DEF NothingToCommit
<1>5. ASSUME NEW r \in Remotes, Push(r)
      PROVE  PushKnows'
  <2>1. pc' = "finish" => toPush' = {}
    BY <1>5 DEF Push, Pushed, NextRemote
  <2>2. CASE Takes(r)
    <3>1. failing' = failing /\ UNCHANGED <<index, local>> /\ remote' = [remote EXCEPT ![r] = local]
      BY <1>5, <2>2 DEF Push, Verdict
    <3>2. ASSUME failing = "no", NEW s \in Remotes \ toPush'
          PROVE  Within(local, remote'[s])
      <4>1. remote'[r] = local /\ Within(local, local)
        BY <3>1, WithinItself DEF TypeOK
      <4>2. s # r => remote'[s] = remote[s] /\ s \notin toPush
        BY <1>5, <3>1, <3>2 DEF Push, Pushed, TypeOK
      <4>. QED
        BY <1>5, <3>2, <4>1, <4>2 DEF Push
    <3>. QED
      BY <1>5, <2>1, <3>1, <3>2 DEF Push
  <2>3. CASE ~Takes(r)
    BY <1>5, <2>1, <2>3 DEF Push, Verdict
  <2>. QED
    BY <2>2, <2>3
<1>6. ASSUME NEW r \in Remotes, PushFails(r)
      PROVE  PushKnows'
  BY <1>6 DEF PushFails, Pushed, Verdict, NextRemote
<1>7. CASE /\ UNCHANGED <<pc, toPush, failing, index, local>>
           /\ \/ remote' = remote
              \/ \E p \in MergedPaths, held \in Holdings : MergePullRequest(p, held)
  <2>1. ASSUME NEW r \in Remotes, Within(local, remote[r])
        PROVE  Within(local, remote'[r])
    <3>1. CASE remote' = remote
      BY <2>1, <3>1
    <3>2. ASSUME NEW p \in MergedPaths, NEW held \in Holdings, MergePullRequest(p, held)
          PROVE  Within(local, remote'[r])
      <4>1. remote["origin"] \in Histories
        BY VaultCommitterAssumption DEF TypeOK
      <4>2. PICK c \in Commits : remote' = [remote EXCEPT !["origin"] = Append(remote["origin"], c)]
        BY <3>2, MergeAddsACommit
      <4>3. Within(remote[r], remote'[r]) /\ remote'[r] \in Histories
        BY <4>1, <4>2, Extended, WithinItself DEF TypeOK
      <4>. QED
        BY <2>1, <4>3, WithinTransitive DEF TypeOK
    <3>. QED
      BY <1>7, <3>1, <3>2
  <2>. QED
    BY <1>7, <2>1
<1>. QED
  BY <1>1, <1>2, <1>3, <1>4, <1>5, <1>6, <1>7
  DEF Next, RunStep, vars, Provision, Fetch, AdvanceBranch, KeepBranch, RefuseToGuess, ReadHead,
      ReapplyBaseline, SkipBaseline, CaptureBaseline, Freeze, StageAll, PassGuard, RefuseToCommit,
      Finish, ProvisioningFails, StagingFails, CommitFails, Dies, Exits, GivesUp, GoesTo,
      Edit, SeedSettings, GoBlank, Restore, LoseGitDir, MergePullRequest

\* A run that exits zero leaves nothing staged that is not committed, and
\* nothing committed that is not on every remote (SuccessMeansRecorded).
THEOREM SuccessIsRecorded == Spec => []SuccessMeansRecorded
<1>1. Init => PushKnows
  BY DEF Init, PushKnows
<1>2. TypeOK /\ PushKnows /\ [Next]_vars => PushKnows'
  BY PushKnowsStays
<1>3. PushKnows => SuccessMeansRecorded
  BY DEF PushKnows, SuccessMeansRecorded
<1>. QED
  BY <1>1, <1>2, <1>3, CommitterTypeCorrect, PTL DEF Spec

-----------------------------------------------------------------------------
(* What no commit drops.                                                   *)

\* A tree that the guard lets through is no loss against the one before it,
\* as long as the guard is on.
LEMMA GuardMeasures ==
  ASSUME Num < Den, NEW t \in Trees, NEW u \in Trees, ~LooksLikeALoss(t, u)
  PROVE  /\ Cardinality(Tracked(t) \ Tracked(u)) * Den <= Num * Cardinality(Tracked(t))
         /\ Tracked(u) \cap Markdown = {} => Tracked(t) \cap Markdown = {}
<1>. Num \in Nat /\ Den \in Nat
  BY VaultCommitterAssumption
<1>1. CASE Tracked(t) = {}
  <2>1. Cardinality(Tracked(t)) = 0 /\ Cardinality(Tracked(t) \ Tracked(u)) = 0
    BY <1>1, FS_EmptySet
  <2>. QED
    BY <1>1, <2>1
<1>2. CASE Tracked(t) # {}
  <2>1. IsFiniteSet(Paths)
    BY VaultCommitterAssumption, FS_Union DEF Paths
  <2>2. IsFiniteSet(Tracked(t)) /\ IsFiniteSet(Tracked(t) \ Tracked(u))
    BY <2>1, FS_Subset DEF Tracked
  <2>3. Cardinality(Tracked(t)) \in Nat /\ Cardinality(Tracked(t) \ Tracked(u)) \in Nat
    BY <2>2, FS_CardinalityType
  <2>4. ~TooMany(t, u) /\ (Tracked(u) \cap Markdown = {} => Tracked(t) \cap Markdown = {})
    BY <1>2 DEF LooksLikeALoss
  <2>. DEFINE gone == Cardinality(Tracked(t) \ Tracked(u)) * Den
              allowed == Num * Cardinality(Tracked(t))
  <2>5. gone \in Nat /\ allowed \in Nat
    BY <2>3
  <2>6. ~(gone > allowed)
    BY <2>4 DEF TooMany
  <2>. QED
    BY <2>4, <2>5, <2>6
<1>. QED
  BY <1>1, <1>2

\* A history that is no loss stays so with a commit the guard lets through.
LEMMA NoLossExtended ==
  ASSUME Num < Den, NEW h \in Histories, NEW c \in Commits, NoLossIn(h),
         ~LooksLikeALoss(Tip(h), c.tree)
  PROVE  NoLossIn(Append(h, c))
<1>. DEFINE g == Append(h, c)
<1>1. /\ Len(h) \in Nat /\ Len(g) = Len(h) + 1
      /\ \A i \in 1..Len(h) : g[i] = h[i]
      /\ g[Len(h) + 1] = c
  BY Extended DEF Histories
<1>. HIDE DEF g
<1>. SUFFICES ASSUME NEW i \in 1..Len(h)
              PROVE  /\ Cardinality(Tracked(g[i].tree) \ Tracked(g[i + 1].tree)) * Den
                          <= Num * Cardinality(Tracked(g[i].tree))
                     /\ Tracked(g[i + 1].tree) \cap Markdown = {}
                          => Tracked(g[i].tree) \cap Markdown = {}
  BY <1>1 DEF NoLossIn, g
<1>2. CASE i < Len(h)
  <2>1. i \in 1..Len(h) - 1 /\ g[i] = h[i] /\ g[i + 1] = h[i + 1]
    BY <1>1, <1>2
  <2>. QED
    BY <2>1 DEF NoLossIn
<1>3. CASE i = Len(h)
  <2>1. h # <<>> /\ g[i].tree = Tip(h) /\ g[i + 1].tree = c.tree
    BY <1>1, <1>3, EmptySeq DEF Tip, Histories
  <2>2. Tip(h) \in Trees /\ c.tree \in Trees
    BY TipIsATree DEF Commits
  <2>. QED
    BY <2>1, <2>2, GuardMeasures
<1>. QED
  BY <1>1, <1>2, <1>3

\* Every commit is made off what the guard saw (NoLossAnywhere).
LEMMA NoLossStays ==
  ASSUME Num < Den, TypeOK, NoLossAnywhere, [Next]_vars
  PROVE  NoLossAnywhere'
<1>. USE DEF TypeOK
<1>1. pc' = "commit" => ~LooksLikeALoss(Tip(local'), index')
  <2>1. CASE UNCHANGED <<pc, local, index>>
    BY <2>1 DEF NoLossAnywhere
  <2>2. CASE PassGuard
    BY <2>2 DEF PassGuard, gitDir
  <2>. QED
    BY <2>1, <2>2
    DEF Next, RunStep, vars, gitDir, run, Provision, Fetch, AdvanceBranch, KeepBranch,
        RefuseToGuess, ReadHead, ReapplyBaseline, SkipBaseline, CaptureBaseline, Freeze, StageAll,
        RefuseToCommit, Commit, NothingToCommit, Push, Pushed, Finish, ProvisioningFails,
        StagingFails, CommitFails, Dies, PushFails, Exits, GivesUp, GoesTo, Edit, SeedSettings,
        GoBlank, Restore, LoseGitDir, MergePullRequest
<1>2. ASSUME SingleWriter'
      PROVE  /\ NoLossIn(local') /\ NoLossIn(fetched')
             /\ \A r \in Remotes : NoLossIn(remote'[r])
  <2>1. SingleWriter /\ "origin" \in Remotes
    BY <1>2, NothingIsForgotten, VaultCommitterAssumption DEF SingleWriter
  <2>2. NoLossIn(local) /\ NoLossIn(fetched) /\ \A r \in Remotes : NoLossIn(remote[r])
    BY <2>1 DEF NoLossAnywhere
  <2>3. NoLossIn(<<>>)
    BY DEF NoLossIn
  <2>4. NoLossIn(local')
    <3>1. CASE Commit
      <4>. DEFINE c == [id |-> minted, tree |-> index]
      <4>1. c \in Commits /\ ~LooksLikeALoss(Tip(local), c.tree)
        BY <3>1 DEF Commit, Commits, NoLossAnywhere
      <4>2. local' = Append(local, c)
        BY <3>1 DEF Commit
      <4>. HIDE DEF c
      <4>. QED
        BY <2>2, <4>1, <4>2, NoLossExtended
    <3>. QED
      BY <2>2, <2>3, <3>1, LocalMoves DEF AdvanceBranch, LoseGitDir
  <2>5. NoLossIn(fetched')
    BY <2>1, <2>2, <2>3
    DEF Next, RunStep, vars, gitDir, run, Provision, Fetch, AdvanceBranch, KeepBranch,
        RefuseToGuess, ReadHead, ReapplyBaseline, SkipBaseline, CaptureBaseline, Freeze, StageAll,
        PassGuard, RefuseToCommit, Commit, NothingToCommit, Push, Pushed, Finish,
        ProvisioningFails, StagingFails, CommitFails, Dies, PushFails, Edit, SeedSettings,
        GoBlank, Restore, LoseGitDir, MergePullRequest
  <2>6. \A r \in Remotes : NoLossIn(remote'[r])
    BY <1>2, <2>2, RemoteMoves DEF SingleWriter, MergePullRequest
  <2>. QED
    BY <2>4, <2>5, <2>6
<1>. QED
  BY <1>1, <1>2 DEF NoLossAnywhere

\* No commit drops every note, or more than the fraction allowed of what the
\* one before it tracked; of a guard that is on, which a fraction of one or
\* more turns off (NoCommitIsALoss).
THEOREM NoCommitLoses ==
  ASSUME Num < Den
  PROVE  Spec => []NoCommitIsALoss
<1>1. Init => NoLossAnywhere
  BY DEF Init, NoLossAnywhere, NoLossIn
<1>2. TypeOK /\ NoLossAnywhere /\ [Next]_vars => NoLossAnywhere'
  BY NoLossStays
<1>3. NoLossAnywhere => NoCommitIsALoss
  BY DEF NoLossAnywhere, NoLossIn, NoCommitIsALoss
<1>. QED
  BY <1>1, <1>2, <1>3, CommitterTypeCorrect, PTL DEF Spec

-----------------------------------------------------------------------------
(* The baseline in the histories.                                          *)

\* Trees with the same settings have the same ones, and both have all of them
\* or neither has.
LEMMA SameSettingsOf ==
  ASSUME NEW t, NEW u, SameSettings(t, u)
  PROVE  SettingsOf(t) = SettingsOf(u) /\ (Whole(t) <=> Whole(u)) /\ SameSettings(u, t)
BY DEF SameSettings, SettingsOf, Tracked, Whole

\* The head of a history that has the baseline whole has it whole.
LEMMA TipIsWhole ==
  ASSUME NEW h \in Histories, WholeIn(h)
  PROVE  Whole(Tip(h))
<1>1. CASE h = <<>>
  BY <1>1 DEF Tip, Whole, SettingsOf, Tracked, Empty
<1>2. CASE h # <<>>
  <2>1. Len(h) \in 1..Len(h)
    BY <1>2, EmptySeq DEF Histories
  <2>. QED
    BY <1>2, <2>1 DEF Tip, WholeIn
<1>. QED
  BY <1>1, <1>2

\* A history stays steady and whole with a commit that keeps its head's baseline.
LEMMA SteadyExtended ==
  ASSUME NEW h \in Histories, NEW c \in Commits, Steady(h),
         SettingsOf(Tip(h)) # {} => SameSettings(Tip(h), c.tree)
  PROVE  Steady(Append(h, c))
<1>. DEFINE g == Append(h, c)
<1>1. /\ Len(h) \in Nat /\ Len(g) = Len(h) + 1
      /\ \A i \in 1..Len(h) : g[i] = h[i]
      /\ g[Len(h) + 1] = c
  BY Extended DEF Histories
<1>. HIDE DEF g
<1>. SUFFICES ASSUME NEW i \in 1..Len(g), NEW j \in 1..Len(g), i < j,
                     SettingsOf(g[i].tree) # {}
              PROVE  SameSettings(g[i].tree, g[j].tree)
  BY DEF Steady, g
<1>2. CASE j <= Len(h)
  <2>1. i \in 1..Len(h) /\ j \in 1..Len(h) /\ g[i] = h[i] /\ g[j] = h[j]
    BY <1>1, <1>2
  <2>. QED
    BY <2>1 DEF Steady
<1>3. CASE j = Len(h) + 1
  <2>1. /\ i \in 1..Len(h) /\ Len(h) \in 1..Len(h)
        /\ g[i] = h[i] /\ g[j] = c /\ h # <<>> /\ Tip(h) = h[Len(h)].tree
    BY <1>1, <1>3, EmptySeq DEF Tip
  <2>2. i # Len(h) => SameSettings(h[i].tree, Tip(h))
    BY <1>1, <2>1 DEF Steady
  <2>3. SameSettings(h[i].tree, Tip(h))
    BY <2>1, <2>2 DEF SameSettings
  <2>4. SameSettings(Tip(h), c.tree)
    BY <2>1, <2>3, SameSettingsOf
  <2>. QED
    BY <2>1, <2>3, <2>4 DEF SameSettings
<1>. QED
  BY <1>1, <1>2, <1>3

\* It stays whole with one that is.
LEMMA WholeExtended ==
  ASSUME NEW h \in Histories, NEW c \in Commits, WholeIn(h), Whole(c.tree)
  PROVE  WholeIn(Append(h, c))
<1>1. /\ Len(h) \in Nat /\ Len(Append(h, c)) = Len(h) + 1
      /\ \A i \in 1..Len(h) : Append(h, c)[i] = h[i]
      /\ Append(h, c)[Len(h) + 1] = c
  BY Extended DEF Histories
<1>. QED
  BY <1>1 DEF WholeIn

\* No history goes further than one it is within and as long as.
LEMMA FollowsItself ==
  ASSUME NEW h \in Histories
  PROVE  Follows(h, h)
BY DEF Follows, Histories

\* What follows a history has its head's settings at its own head.
LEMMA FollowsToTip ==
  ASSUME NEW h \in Histories, NEW f \in Histories, NEW g \in Histories,
         h # <<>>, Within(h, f), Within(f, g), Follows(h, g)
  PROVE  SameSettings(Tip(h), Tip(f))
<1>1. /\ Len(h) \in Nat \ {0} /\ Len(f) \in Nat \ {0} /\ Len(g) \in Nat
      /\ Len(h) <= Len(f) /\ Len(f) <= Len(g)
  BY EmptySeq DEF Within, Histories
<1>2. f # <<>> /\ Tip(h) = h[Len(h)].tree /\ Tip(f) = f[Len(f)].tree
  BY <1>1, EmptySeq DEF Tip
<1>3. CASE Len(f) = Len(h)
  <2>1. h[Len(h)] = f[Len(h)]
    BY <1>1 DEF Within
  <2>. QED
    BY <1>2, <1>3, <2>1 DEF SameSettings
<1>4. CASE Len(f) > Len(h)
  <2>1. Within(h, g)
    BY WithinTransitive
  <2>2. f[Len(f)] = g[Len(f)] /\ Len(f) \in 1..Len(g)
    BY <1>1 DEF Within
  <2>. QED
    BY <1>2, <1>4, <2>1, <2>2 DEF Follows
<1>. QED
  BY <1>1, <1>3, <1>4

\* A commit with the settings of the head before it, and none of the numbers
\* of a history, follows that history as the head did.
LEMMA FollowsExtended ==
  ASSUME NEW h \in Histories, NEW g \in Histories, NEW c \in Commits,
         Follows(h, g), SameSettings(Tip(g), c.tree),
         \A i \in 1..Len(h) : h[i].id # c.id
  PROVE  Follows(h, Append(g, c))
<1>. DEFINE k == Append(g, c)
<1>1. /\ Len(h) \in Nat /\ Len(g) \in Nat /\ Len(k) = Len(g) + 1
      /\ \A i \in 1..Len(g) : k[i] = g[i]
      /\ k[Len(g) + 1] = c
  BY Extended DEF Histories
<1>. HIDE DEF k
<1>. SUFFICES ASSUME h # <<>>, Within(h, k), NEW i \in 1..Len(k), i > Len(h)
              PROVE  SameSettings(Tip(h), k[i].tree)
  BY DEF Follows, k
<1>2. Within(h, g)
  <2>1. Len(h) <= Len(g)
    BY <1>1
  <2>. QED
    BY <1>1, <2>1 DEF Within
<1>3. CASE i <= Len(g)
  <2>1. i \in 1..Len(g) /\ k[i] = g[i]
    BY <1>1, <1>3
  <2>. QED
    BY <1>2, <2>1 DEF Follows
<1>4. CASE i = Len(g) + 1
  <2>1. SameSettings(Tip(h), Tip(g))
    BY <1>2, WithinItself, FollowsToTip
  <2>. QED
    BY <1>1, <1>4, <2>1 DEF SameSettings
<1>. QED
  BY <1>1, <1>3, <1>4

\* The remote-tracking branch is what a fetch or a push found or left at
\* origin; a run that is to sync has fetched.
LEMMA FetchedMoves ==
  ASSUME [Next]_vars
  PROVE  /\ fetched' \in {fetched, local, remote["origin"], <<>>}
         /\ pc' = "sync" =>
              \/ Fetch
              \/ /\ pc = "sync" /\ UNCHANGED <<fetched, local>>
                 /\ \/ remote' = remote
                    \/ \E p \in MergedPaths, held \in Holdings : MergePullRequest(p, held)
BY DEF Next, RunStep, vars, gitDir, run, Provision, Fetch, AdvanceBranch, KeepBranch, RefuseToGuess,
       ReadHead, ReapplyBaseline, SkipBaseline, CaptureBaseline, Freeze, StageAll, PassGuard,
       RefuseToCommit, Commit, NothingToCommit, Push, Pushed, Finish, ProvisioningFails,
       StagingFails, CommitFails, Dies, PushFails, Exits, GivesUp, GoesTo, Edit, SeedSettings,
       GoBlank, Restore, LoseGitDir, MergePullRequest

\* A branch that advances keeps its baseline: what origin has on top of it are
\* pull requests.
LEMMA AdvanceKeeps ==
  ASSUME TypeOK, HistoriesKeep, AdvanceBranch, local # <<>>
  PROVE  SameSettings(Tip(local), Tip(local'))
<1>1. local' = fetched /\ Within(local, fetched)
  BY AdvanceIsForward DEF AdvanceBranch, TypeOK
<1>2. Within(fetched, remote["origin"]) /\ Follows(local, remote["origin"])
  BY DEF AdvanceBranch, HistoriesKeep
<1>. QED
  BY <1>1, <1>2, FollowsToTip, VaultCommitterAssumption DEF TypeOK

\* What a run commits has the head's baseline, if that has one.
LEMMA CommitKeeps ==
  ASSUME TypeOK, IndexKeeps, Commit
  PROVE  SettingsOf(Tip(local)) # {} => SameSettings(Tip(local), index)
BY DEF IndexKeeps, Commit, Baselined

\* Every commit gets a number of its own (Numbered).
LEMMA NumberedStays ==
  ASSUME TypeOK, Numbered, HistoriesKeep, [Next]_vars
  PROVE  Numbered'
<1>. DEFINE o == remote["origin"]
<1>1. Below(local, minted) /\ Below(o, minted) /\ minted \in Nat /\ o \in Histories
  BY VaultCommitterAssumption DEF Numbered, TypeOK
<1>2. minted' \in {minted, minted + 1}
  BY DEF Next, RunStep, vars, ghosts, Provision, Fetch, AdvanceBranch, KeepBranch, RefuseToGuess,
         ReadHead, ReapplyBaseline, SkipBaseline, CaptureBaseline, Freeze, StageAll, PassGuard,
         RefuseToCommit, Commit, NothingToCommit, Push, Finish, ProvisioningFails,
         StagingFails, CommitFails, Dies, PushFails, Edit, SeedSettings, GoBlank, Restore,
         LoseGitDir, MergePullRequest
<1>3. ASSUME NEW h \in Histories, Below(h, minted)
      PROVE  Below(h, minted')
  <2>1. \A i \in 1..Len(h) : h[i] \in Commits
    BY ElementOfSeq DEF Histories, Commits
  <2>2. \A i \in 1..Len(h) : h[i].id \in Nat
    BY <2>1 DEF Commits
  <2>. QED
    BY <1>1, <1>2, <1>3, <2>2 DEF Below
<1>4. ASSUME NEW h \in Histories, NEW c \in Commits, Below(h, minted), c.id = minted,
             minted' = minted + 1
      PROVE  Below(Append(h, c), minted')
  <2>1. /\ Len(h) \in Nat /\ Len(Append(h, c)) = Len(h) + 1
        /\ \A i \in 1..Len(h) : Append(h, c)[i] = h[i]
        /\ Append(h, c)[Len(h) + 1] = c
    BY Extended DEF Histories
  <2>2. Below(h, minted')
    BY <1>3, <1>4
  <2>3. c.id < minted'
    BY <1>1, <1>4
  <2>. QED
    BY <2>1, <2>2, <2>3 DEF Below
<1>5. Below(local', minted')
  <2>1. CASE local' = local
    BY <1>1, <1>3, <2>1 DEF TypeOK
  <2>2. CASE AdvanceBranch
    <3>1. local' = fetched /\ Within(fetched, o)
      BY <2>2 DEF AdvanceBranch, HistoriesKeep
    <3>2. Below(fetched, minted)
      <4>1. Len(fetched) \in Nat /\ Len(o) \in Nat
        BY <1>1 DEF TypeOK, Histories
      <4>. QED
        BY <1>1, <3>1, <4>1 DEF Within, Below
    <3>. QED
      BY <1>3, <3>1, <3>2 DEF TypeOK
  <2>3. CASE Commit
    <3>. DEFINE c == [id |-> minted, tree |-> index]
    <3>1. c \in Commits /\ c.id = minted
      BY DEF Commits, TypeOK
    <3>2. local' = Append(local, c) /\ minted' = minted + 1
      BY <2>3 DEF Commit
    <3>. HIDE DEF c
    <3>. QED
      BY <1>1, <1>4, <3>1, <3>2 DEF TypeOK
  <2>4. CASE LoseGitDir
    BY <2>4 DEF LoseGitDir, Below
  <2>. QED
    BY <2>1, <2>2, <2>3, <2>4, LocalMoves
<1>6. Below(remote'["origin"], minted')
  <2>1. CASE remote' = remote
    BY <1>1, <1>3, <2>1
  <2>2. CASE \E r \in Remotes : remote' = [remote EXCEPT ![r] = local]
    <3>1. remote'["origin"] \in {local, o}
      BY <2>2, VaultCommitterAssumption DEF TypeOK
    <3>. QED
      BY <1>1, <1>3, <3>1 DEF TypeOK
  <2>3. CASE \E p \in MergedPaths, held \in Holdings : MergePullRequest(p, held)
    <3>1. PICK c \in Commits : remote' = [remote EXCEPT !["origin"] = Append(o, c)] /\ c.id = minted
      BY <2>3, MergeAddsACommit
    <3>2. remote'["origin"] = Append(o, c)
      BY <3>1, VaultCommitterAssumption DEF TypeOK
    <3>3. minted' = minted + 1
      BY <2>3 DEF MergePullRequest
    <3>. QED
      BY <1>1, <1>4, <3>1, <3>2, <3>3
  <2>. QED
    BY <2>1, <2>2, <2>3, RemoteMoves
<1>. QED
  BY <1>5, <1>6 DEF Numbered

\* What a merge makes of origin, when pull requests leave the settings alone.
LEMMA MergeKeeps ==
  ASSUME BaselineInv, MergedPaths \cap Settings = {},
         NEW p \in MergedPaths, NEW held \in Holdings, MergePullRequest(p, held)
  PROVE  /\ \A r \in Remotes : Steady(remote'[r])
         /\ torn = "no" => \A r \in Remotes : WholeIn(remote'[r])
         /\ \A h \in Histories :
              /\ Within(h, remote["origin"]) => Within(h, remote'["origin"])
              /\ Follows(h, remote["origin"]) /\ Below(h, minted) => Follows(h, remote'["origin"])
<1>. DEFINE o == remote["origin"]
<1>1. "origin" \in Remotes /\ remote \in [Remotes -> Histories] /\ o \in Histories
  BY VaultCommitterAssumption DEF BaselineInv, TypeOK
<1>2. PICK c \in Commits : /\ remote' = [remote EXCEPT !["origin"] = Append(o, c)]
                           /\ c.id = minted
                           /\ SameSettings(Tip(o), c.tree)
  BY MergeAddsACommit DEF BaselineInv
<1>3. remote'["origin"] = Append(o, c) /\ \A r \in Remotes : r # "origin" => remote'[r] = remote[r]
  BY <1>1, <1>2
<1>4. Steady(Append(o, c))
  BY <1>1, <1>2, SteadyExtended DEF BaselineInv, HistoriesKeep
<1>5. torn = "no" => WholeIn(Append(o, c))
  <2>1. ASSUME torn = "no"
        PROVE  WholeIn(o) /\ Whole(c.tree)
    <3>1. WholeIn(o)
      BY <1>1, <2>1 DEF BaselineInv, HistoriesKeep
    <3>. QED
      BY <1>1, <1>2, <3>1, TipIsWhole, SameSettingsOf
  <2>. QED
    BY <1>1, <2>1, WholeExtended
<1>6. ASSUME NEW h \in Histories
      PROVE  /\ Within(h, o) => Within(h, remote'["origin"])
             /\ Follows(h, o) /\ Below(h, minted) => Follows(h, remote'["origin"])
  <2>1. Within(o, Append(o, c)) /\ Append(o, c) \in Histories
    BY <1>1, Extended
  <2>2. Within(h, o) => Within(h, Append(o, c))
    BY <1>1, <2>1, WithinTransitive
  <2>3. ASSUME Below(h, minted)
        PROVE  \A i \in 1..Len(h) : h[i].id # c.id
    <3>1. \A i \in 1..Len(h) : h[i].id < minted
      BY <2>3 DEF Below
    <3>. QED
      BY <1>2, <3>1 DEF Commits
  <2>4. Follows(h, o) /\ Below(h, minted) => Follows(h, Append(o, c))
    BY <1>1, <1>2, <2>3, FollowsExtended
  <2>. QED
    BY <1>3, <2>2, <2>4
<1>7. \A r \in Remotes : Steady(remote'[r])
  BY <1>3, <1>4 DEF BaselineInv, HistoriesKeep
<1>8. torn = "no" => \A r \in Remotes : WholeIn(remote'[r])
  BY <1>3, <1>5 DEF BaselineInv, HistoriesKeep
<1>. QED
  BY <1>6, <1>7, <1>8

\* The branch keeps the baseline steady, and whole unless a run was torn.
LEMMA BranchKeeps ==
  ASSUME BaselineInv, [Next]_vars
  PROVE  Steady(local') /\ (torn = "no" => WholeIn(local'))
<1>1. CASE local' = local
  BY <1>1 DEF BaselineInv, HistoriesKeep
<1>2. CASE AdvanceBranch
  BY <1>2 DEF AdvanceBranch, BaselineInv, HistoriesKeep
<1>3. CASE Commit
  <2>. DEFINE c == [id |-> minted, tree |-> index]
  <2>1. c \in Commits /\ c.tree = index /\ local \in Histories
    BY DEF Commits, BaselineInv, TypeOK
  <2>2. local' = Append(local, c)
    BY <1>3 DEF Commit
  <2>. HIDE DEF c
  <2>3. SettingsOf(Tip(local)) # {} => SameSettings(Tip(local), c.tree)
    BY <1>3, <2>1, CommitKeeps DEF BaselineInv
  <2>4. Steady(local')
    BY <2>1, <2>2, <2>3, SteadyExtended DEF BaselineInv, HistoriesKeep
  <2>5. torn = "no" => WholeIn(local')
    BY <2>1, <2>2, WholeExtended DEF BaselineInv, HistoriesKeep, CaptureIsWhole
  <2>. QED
    BY <2>4, <2>5
<1>4. CASE LoseGitDir
  BY <1>4 DEF LoseGitDir, Steady, WholeIn
<1>. QED
  BY <1>1, <1>2, <1>3, <1>4, LocalMoves

\* Origin goes on from the branch with pull requests alone, and from what a run
\* that is to sync has fetched.
LEMMA OriginFollows ==
  ASSUME BaselineInv, MergedPaths \cap Settings = {}, [Next]_vars
  PROVE  /\ Follows(local', remote'["origin"])
         /\ pc' = "sync" => Within(fetched', remote'["origin"]) /\ Follows(fetched', remote'["origin"])
<1>. DEFINE o == remote["origin"]
<1>1. /\ local \in Histories /\ fetched \in Histories /\ o \in Histories /\ "origin" \in Remotes
      /\ Follows(local, o) /\ Below(local, minted) /\ Below(o, minted)
  BY VaultCommitterAssumption DEF BaselineInv, TypeOK, HistoriesKeep, Numbered
<1>2. Follows(local', remote'["origin"])
  <2>1. CASE remote' = remote /\ local' = local
    BY <1>1, <2>1
  <2>2. CASE remote' = remote /\ AdvanceBranch
    BY <2>2 DEF AdvanceBranch, BaselineInv, HistoriesKeep
  <2>3. CASE remote' = remote /\ Commit
    <3>. DEFINE c == [id |-> minted, tree |-> index]
    <3>1. c \in Commits /\ c.id = minted
      BY DEF Commits, BaselineInv, TypeOK
    <3>2. local' = Append(local, c)
      BY <2>3 DEF Commit
    <3>. HIDE DEF c
    <3>3. ~Within(local', o)
      <4>1. /\ Len(local) \in Nat /\ Len(o) \in Nat /\ Len(local') = Len(local) + 1
            /\ local'[Len(local) + 1] = c
        BY <1>1, <3>1, <3>2, Extended DEF Histories
      <4>2. Len(local) + 1 \in 1..Len(o) => o[Len(local) + 1].id < minted
        BY <1>1 DEF Below
      <4>3. Within(local', o) => Len(local) + 1 \in 1..Len(o) /\ o[Len(local) + 1] = c
        BY <4>1 DEF Within
      <4>. QED
        BY <3>1, <4>2, <4>3 DEF BaselineInv, TypeOK
    <3>. QED
      BY <2>3, <3>3 DEF Follows
  <2>4. CASE LoseGitDir
    BY <2>4 DEF LoseGitDir, Follows
  <2>5. CASE \E r \in Remotes : local' = local /\ remote' = [remote EXCEPT ![r] = local]
    <3>1. remote'["origin"] \in {local, o} /\ local' = local
      BY <1>1, <2>5 DEF BaselineInv, TypeOK
    <3>. QED
      BY <1>1, <3>1, FollowsItself
  <2>6. CASE \E p \in MergedPaths, held \in Holdings : MergePullRequest(p, held)
    <3>1. local' = local
      BY <2>6 DEF MergePullRequest, gitDir
    <3>. QED
      BY <1>1, <2>6, <3>1, MergeKeeps
  <2>. QED
    BY <2>1, <2>2, <2>3, <2>4, <2>5, <2>6, LocalMoves, RemoteMoves
    DEF AdvanceBranch, Commit, LoseGitDir
<1>3. ASSUME pc' = "sync"
      PROVE  Within(fetched', remote'["origin"]) /\ Follows(fetched', remote'["origin"])
  <2>1. CASE Fetch
    BY <1>1, <2>1, WithinItself, FollowsItself DEF Fetch
  <2>2. CASE pc = "sync" /\ fetched' = fetched /\ remote' = remote
    BY <2>2 DEF BaselineInv, HistoriesKeep
  <2>3. CASE /\ pc = "sync" /\ fetched' = fetched
             /\ \E p \in MergedPaths, held \in Holdings : MergePullRequest(p, held)
    <3>1. Within(fetched, o) /\ Follows(fetched, o)
      BY <2>3 DEF BaselineInv, HistoriesKeep
    <3>2. Len(fetched) \in Nat /\ Len(o) \in Nat
      BY <1>1 DEF Histories
    <3>3. Below(fetched, minted)
      BY <1>1, <3>1, <3>2 DEF Within, Below
    <3>. QED
      BY <1>1, <2>3, <3>1, <3>3, MergeKeeps
  <2>. QED
    BY <1>3, <2>1, <2>2, <2>3, FetchedMoves
<1>. QED
  BY <1>2, <1>3

\* All of it (HistoriesKeep).
LEMMA HistoriesStay ==
  ASSUME BaselineInv, MergedPaths \cap Settings = {}, [Next]_vars
  PROVE  HistoriesKeep'
<1>1. torn' = "no" => torn = "no"
  BY NothingIsForgotten DEF BaselineInv
<1>2. Steady(fetched') /\ (torn = "no" => WholeIn(fetched'))
  <2>1. Steady(<<>>) /\ WholeIn(<<>>)
    BY DEF Steady, WholeIn
  <2>. QED
    BY <2>1, FetchedMoves, VaultCommitterAssumption DEF BaselineInv, HistoriesKeep
<1>3. \A r \in Remotes : Steady(remote'[r]) /\ (torn = "no" => WholeIn(remote'[r]))
  <2>1. CASE remote' = remote
    BY <2>1 DEF BaselineInv, HistoriesKeep
  <2>2. CASE \E r \in Remotes : remote' = [remote EXCEPT ![r] = local]
    <3>1. \A r \in Remotes : remote'[r] \in {remote[r], local}
      BY <2>2 DEF BaselineInv, TypeOK
    <3>. QED
      BY <3>1 DEF BaselineInv, HistoriesKeep
  <2>. QED
    BY <2>1, <2>2, RemoteMoves, MergeKeeps
<1>. QED
  BY <1>1, <1>2, <1>3, BranchKeeps, OriginFollows DEF HistoriesKeep

-----------------------------------------------------------------------------
(* The baseline in the index.                                              *)

\* Staging leaves every setting alone once the bits of HEAD's are set.
LEMMA StagingKeeps ==
  ASSUME TypeOK, IndexKeeps, StageAll, Baselined
  PROVE  SameSettings(index, index') /\ SameSettings(Tip(local), index')
<1>1. PICK unread \in SUBSET Files :
        index' = [p \in Paths |-> IF p \in LeftAlone(unread) THEN index[p] ELSE Seen[p]]
  BY DEF StageAll
<1>2. SettingsOf(Tip(local)) # {} /\ SettingsOf(Tip(local)) \subseteq frozen
  BY DEF IndexKeeps, Baselined, StageAll
<1>3. frozen \subseteq SettingsOf(index)
  BY DEF TypeOK
<1>4. indexFile = "present"
  <2>1. SettingsOf(Empty) = {}
    BY DEF SettingsOf, Tracked, Empty
  <2>. QED
    BY <1>2, <1>3, <2>1 DEF TypeOK
<1>5. SameSettings(Tip(local), index)
  BY <1>4 DEF IndexKeeps
<1>6. SettingsOf(index) \subseteq frozen
  BY <1>2, <1>5, SameSettingsOf
<1>7. \A p \in Settings : p \in LeftAlone(unread) /\ p \in Paths
  BY <1>6 DEF LeftAlone, Paths
<1>8. SameSettings(index, index')
  BY <1>1, <1>7 DEF SameSettings
<1>. QED
  BY <1>5, <1>8 DEF SameSettings

\* The index keeps HEAD's baseline, and its bits are set before anything is
\* staged (IndexKeeps).
LEMMA IndexStays ==
  ASSUME BaselineInv, [Next]_vars
  PROVE  IndexKeeps'
<1>. USE DEF BaselineInv
<1>. USE DEF gitDir, volume, run, ghosts
<1>1. CASE UNCHANGED <<local, index, indexFile, frozen, left, pc>>
  BY <1>1 DEF IndexKeeps, Baselined
<1>2. CASE /\ UNCHANGED <<local, index, indexFile>>
           /\ pc' \in {"idle", "fetch", "sync", "resync", "baseline", "push", "finish"}
  BY <1>2 DEF IndexKeeps, Baselined
<1>3. CASE AdvanceBranch
  <2>1. pc' = "resync" /\ UNCHANGED <<index, indexFile, frozen, left>>
    BY <1>3 DEF AdvanceBranch
  <2>2. ASSUME indexFile = "present", Baselined'
        PROVE  SameSettings(Tip(local'), index)
    <3>1. local # <<>>
      <4>1. fetched # <<>> /\ Within(fetched, remote["origin"])
        BY <1>3, AdvanceIsForward DEF AdvanceBranch, HistoriesKeep, TypeOK
      <4>2. Len(fetched) \in Nat \ {0} /\ Len(<<>>) = 0
        BY <4>1, EmptySeq DEF TypeOK, Histories
      <4>3. remote["origin"] # <<>>
        BY <4>1, <4>2 DEF Within
      <4>. QED
        BY <2>2, <4>3 DEF RootIsFirst
    <3>2. SameSettings(Tip(local), Tip(local'))
      BY <1>3, <3>1, AdvanceKeeps
    <3>3. Baselined
      BY <2>2, <3>2, SameSettingsOf DEF Baselined
    <3>4. SameSettings(Tip(local), index)
      BY <2>2, <3>3 DEF IndexKeeps
    <3>. QED
      BY <3>2, <3>4 DEF SameSettings
  <2>. QED
    BY <2>1, <2>2 DEF IndexKeeps
<1>4. CASE ReadHead
  <2>1. pc' = "baseline" /\ local' = local
    BY <1>4 DEF ReadHead, GoesTo
  <2>2. index' = Tip(local) \/ UNCHANGED <<index, indexFile>>
    BY <1>4 DEF ReadHead
  <2>. QED
    BY <2>1, <2>2 DEF IndexKeeps, Baselined, SameSettings
<1>5. CASE ReapplyBaseline
  <2>1. left' = SettingsOf(Tip(local)) /\ left' # {} /\ pc' = "freeze"
    BY <1>5 DEF ReapplyBaseline, Frozen, Baselined
  <2>. QED
    BY <1>5, <2>1 DEF ReapplyBaseline, IndexKeeps, Baselined
<1>6. CASE SkipBaseline
  BY <1>6 DEF SkipBaseline, GoesTo, IndexKeeps, Baselined
<1>7. CASE CaptureBaseline
  BY <1>7 DEF CaptureBaseline, GivesUp, IndexKeeps, Baselined
<1>8. ASSUME NEW p \in Settings, Freeze(p)
      PROVE  IndexKeeps'
  BY <1>8 DEF Freeze, GivesUp, IndexKeeps, Baselined
<1>9. CASE StageAll
  <2>1. pc' = "guard" /\ indexFile' = "present" /\ local' = local
    BY <1>9 DEF StageAll, GoesTo
  <2>2. Baselined => SameSettings(Tip(local), index')
    BY <1>9, StagingKeeps
  <2>. QED
    BY <2>1, <2>2 DEF IndexKeeps, Baselined
<1>10. CASE PassGuard
  BY <1>10 DEF PassGuard, GoesTo, IndexKeeps, Baselined
<1>11. CASE Commit
  <2>1. Tip(local') = index /\ index' = index /\ pc' = "push"
    BY <1>11, Extended DEF Commit, Commits, TypeOK
  <2>. QED
    BY <2>1 DEF IndexKeeps, SameSettings
<1>12. CASE LoseGitDir
  BY <1>12 DEF LoseGitDir, IndexKeeps
<1>. QED
  BY <1>1, <1>2, <1>3, <1>4, <1>5, <1>6, <1>7, <1>8, <1>9, <1>10, <1>11, <1>12
  DEF Next, RunStep, vars, Provision, Fetch, KeepBranch, RefuseToGuess, NothingToCommit, Push, Pushed,
      RefuseToCommit, Finish, ProvisioningFails, StagingFails, CommitFails, Dies, PushFails, Exits,
      GivesUp, GoesTo, Edit, SeedSettings, GoBlank, Restore, MergePullRequest

-----------------------------------------------------------------------------
(* The capture.                                                            *)

\* The editor makes all its settings at once and removes none.
LEMMA VaultStaysWhole ==
  ASSUME TypeOK, Whole(vault), [Next]_vars
  PROVE  Whole(vault')
<1>1. CASE vault' = vault
  BY <1>1
<1>2. ASSUME NEW p \in Paths, NEW held \in Holdings, Edit(p, held)
      PROVE  Whole(vault')
  <2>1. SettingsOf(vault') = SettingsOf(vault)
    BY <1>2 DEF Edit, TypeOK, Trees, SettingsOf, Tracked
  <2>. QED
    BY <2>1 DEF Whole
<1>3. CASE SeedSettings
  <2>1. \A p \in Settings : vault'[p] = SeededWith[p] /\ SeededWith[p] # Absent /\ p \in Paths
    BY <1>3, VaultCommitterAssumption DEF SeedSettings, Paths
  <2>. QED
    BY <2>1 DEF Whole, SettingsOf, Tracked
<1>. QED
  BY <1>1, <1>2, <1>3
  DEF Next, RunStep, vars, volume, Provision, Fetch, AdvanceBranch, KeepBranch, RefuseToGuess,
      ReadHead, ReapplyBaseline, SkipBaseline, CaptureBaseline, Freeze, StageAll, PassGuard,
      RefuseToCommit, Commit, NothingToCommit, Push, Finish, ProvisioningFails, StagingFails,
      CommitFails, Dies, PushFails, GoBlank, Restore, LoseGitDir, MergePullRequest

\* So a process that looks finds all of them or none.
LEMMA SeenIsWhole ==
  ASSUME Whole(vault)
  PROVE  Whole(Seen)
BY DEF Whole, Seen, SettingsOf, Tracked, Empty

\* A capture that nothing was frozen before takes all of the settings.
LEMMA CaptureTakesAll ==
  ASSUME TypeOK, Whole(vault), frozen = {}, CaptureBaseline
  PROVE  /\ SettingsOf(index') = Settings
         /\ left' = Settings /\ pc' = "freeze"
<1>1. PICK unread \in SUBSET SettingsOf(Seen) :
        LET taken == Captured(Seen, unread) IN
        /\ taken # {}
        /\ index' = [p \in Paths |-> IF p \in taken \ frozen THEN Seen[p] ELSE index[p]]
        /\ IF taken \cap frozen = {}
           THEN left' = Frozen(local, index') /\ pc' = "freeze"
           ELSE GivesUp
  BY DEF CaptureBaseline
<1>2. Captured(Seen, unread) = SettingsOf(Seen) /\ SettingsOf(Seen) = Settings
  BY <1>1, SeenIsWhole DEF Captured, Whole
<1>3. \A p \in Settings : p \in Paths /\ index'[p] = Seen[p] /\ Seen[p] # Absent
  BY <1>1, <1>2 DEF Paths, SettingsOf, Tracked
<1>4. SettingsOf(index') = Settings
  BY <1>3 DEF SettingsOf, Tracked
<1>5. SettingsOf(Tip(local)) = {}
  BY DEF CaptureBaseline, Baselined
<1>. QED
  BY <1>1, <1>2, <1>4, <1>5 DEF Frozen

\* Staging takes in all of the settings or none, with no bit set or with all.
LEMMA StagingIsWhole ==
  ASSUME TypeOK, Whole(vault), Whole(index), frozen \in {{}, Settings}, StageAll
  PROVE  Whole(index')
<1>1. PICK unread \in SUBSET Files :
        index' = [p \in Paths |-> IF p \in LeftAlone(unread) THEN index[p] ELSE Seen[p]]
  BY DEF StageAll
<1>2. \A p \in Settings :
        p \in Paths /\ index'[p] = IF p \in frozen \/ p \notin SettingsOf(index) THEN index[p] ELSE Seen[p]
  BY <1>1, VaultCommitterAssumption DEF LeftAlone, Paths
<1>3. CASE frozen = Settings
  <2>1. SameSettings(index, index')
    BY <1>2, <1>3 DEF SameSettings
  <2>. QED
    BY <2>1, SameSettingsOf
<1>4. CASE frozen = {}
  <2>1. SettingsOf(index') = SettingsOf(index) \cap SettingsOf(Seen)
    BY <1>2, <1>4 DEF SettingsOf, Tracked
  <2>. QED
    BY <2>1, SeenIsWhole DEF Whole
<1>. QED
  BY <1>3, <1>4

\* The bits a run that is not torn leaves behind belong to a baseline of HEAD,
\* or there are none (CaptureIsWhole).
LEMMA CaptureStays ==
  ASSUME BaselineInv, [Next]_vars
  PROVE  CaptureIsWhole'
<1>. USE DEF BaselineInv
<1>. USE DEF gitDir, volume, run, ghosts
<1>. DEFINE Early == {"idle", "fetch", "sync", "resync", "baseline"}
<1>. DEFINE Good ==
       /\ Whole(index)
       /\ ~Baselined /\ pc \in Early => frozen = {}
       /\ ~Baselined /\ pc = "freeze" => frozen \cup left = Settings
       /\ ~Baselined /\ pc = "stage" => frozen \in {{}, Settings}
<1>1. Whole(vault) /\ Whole(vault')
  BY VaultStaysWhole DEF CaptureIsWhole
<1>. SUFFICES ASSUME torn' = "no"
              PROVE  Good'
  BY <1>1 DEF CaptureIsWhole
<1>2. torn = "no" /\ Good
  BY NothingIsForgotten DEF CaptureIsWhole
<1>. HIDE DEF CaptureIsWhole
<1>3. Whole(Tip(local))
  BY <1>2, TipIsWhole DEF HistoriesKeep, TypeOK
<1>4. CASE UNCHANGED <<local, index, frozen, left, pc>>
  BY <1>2, <1>4 DEF Baselined
<1>5. CASE Exits /\ UNCHANGED <<local, index, frozen>>
  BY <1>2, <1>5 DEF Exits, Baselined
<1>6. CASE UNCHANGED <<local, index, frozen>> /\ pc' \in {"guard", "commit", "push", "finish"}
  BY <1>2, <1>6 DEF Baselined
<1>7. CASE Provision \/ Fetch \/ KeepBranch
  BY <1>2, <1>7 DEF Provision, Fetch, KeepBranch, GoesTo, Baselined
<1>8. CASE AdvanceBranch
  <2>1. pc = "sync" /\ pc' = "resync" /\ UNCHANGED <<index, frozen>>
    BY <1>8 DEF AdvanceBranch
  <2>2. Baselined => Baselined'
    <3>1. local = <<>> => ~Baselined
      BY DEF Baselined, Tip, SettingsOf, Tracked, Empty
    <3>. QED
      BY <1>8, <3>1, AdvanceKeeps, SameSettingsOf DEF Baselined
  <2>. QED
    BY <1>2, <2>1, <2>2
<1>9. CASE ReadHead
  <2>1. pc = "resync" /\ pc' = "baseline" /\ local' = local
    BY <1>9 DEF ReadHead, GoesTo
  <2>2. (index' = Tip(local) /\ frozen' = {}) \/ UNCHANGED <<index, frozen>>
    BY <1>9 DEF ReadHead
  <2>. QED
    BY <1>2, <1>3, <2>1, <2>2 DEF Baselined
<1>10. CASE ReapplyBaseline
  BY <1>2, <1>10 DEF ReapplyBaseline, Baselined
<1>11. CASE SkipBaseline
  BY <1>2, <1>11 DEF SkipBaseline, GoesTo, Baselined
<1>12. CASE CaptureBaseline
  <2>1. frozen = {}
    BY <1>2, <1>12 DEF CaptureBaseline
  <2>2. SettingsOf(index') = Settings /\ left' = Settings /\ pc' = "freeze"
    BY <1>1, <1>12, <2>1, CaptureTakesAll
  <2>. QED
    BY <1>12, <2>1, <2>2 DEF CaptureBaseline, Whole, Baselined
<1>13. ASSUME NEW p \in Settings, Freeze(p)
       PROVE  Good'
  BY <1>2, <1>13 DEF Freeze, GivesUp, Baselined
<1>14. CASE StageAll
  <2>1. pc' = "guard" /\ UNCHANGED <<local, frozen>>
    BY <1>14 DEF StageAll, GoesTo
  <2>2. CASE Baselined
    BY <1>2, <1>14, <2>1, <2>2, StagingKeeps, SameSettingsOf DEF Baselined
  <2>3. CASE ~Baselined
    <3>1. Whole(index')
      BY <1>1, <1>2, <1>14, <2>3, StagingIsWhole DEF StageAll
    <3>. QED
      BY <2>1, <3>1
  <2>. QED
    BY <2>2, <2>3
<1>15. CASE Commit
  BY <1>2, <1>15 DEF Commit
<1>16. CASE LoseGitDir
  BY <1>2, <1>16 DEF LoseGitDir, Whole, SettingsOf, Tracked, Empty
<1>. QED
  BY <1>4, <1>5, <1>6, <1>7, <1>8, <1>9, <1>10, <1>11, <1>12, <1>13, <1>14, <1>15, <1>16
  DEF Next, RunStep, vars, RefuseToGuess, NothingToCommit, Push, Pushed, PassGuard,
      RefuseToCommit, Finish, ProvisioningFails, StagingFails, CommitFails, Dies, PushFails,
      GivesUp, GoesTo, Edit, SeedSettings, GoBlank, Restore, MergePullRequest

\* The baseline enters history whole, unless a run ended between freezing one
\* of its settings and committing it, and never changes there; of pull requests
\* that leave the settings alone, which are another's to merge (BaselineIsKept).
THEOREM BaselineStays ==
  ASSUME MergedPaths \cap Settings = {}
  PROVE  Spec => []BaselineIsKept
<1>1. Init => BaselineInv
  <2>. SUFFICES ASSUME Init
                PROVE  BaselineInv
    OBVIOUS
  <2>1. TypeOK
    BY InitTyped
  <2>2. \A r \in Remotes : remote[r] = <<>>
    BY DEF Init
  <2>3. local = <<>> /\ fetched = <<>> /\ remote["origin"] = <<>>
    BY <2>2, VaultCommitterAssumption DEF Init
  <2>4. Steady(<<>>) /\ WholeIn(<<>>) /\ Below(<<>>, minted) /\ \A g : Follows(<<>>, g)
    BY DEF Steady, WholeIn, Below, Follows
  <2>5. SettingsOf(Empty) = {} /\ SettingsOf(Tip(<<>>)) = {}
    BY DEF SettingsOf, Tracked, Empty, Tip
  <2>6. \A p \in Settings : p \notin Files
    BY VaultCommitterAssumption
  <2>7. SettingsOf(vault) = {}
    BY <2>6 DEF Init, SettingsOf, Tracked, Paths
  <2>8. RootIsFirst /\ Numbered /\ HistoriesKeep
    BY <2>2, <2>3, <2>4 DEF Init, RootIsFirst, Numbered, HistoriesKeep
  <2>9. IndexKeeps /\ CaptureIsWhole
    BY <2>3, <2>5, <2>7 DEF Init, IndexKeeps, CaptureIsWhole, Baselined, Whole
  <2>. QED
    BY <2>1, <2>8, <2>9 DEF BaselineInv
<1>2. BaselineInv /\ [Next]_vars => BaselineInv'
  BY StepTyped, RootStays, NumberedStays, HistoriesStay, IndexStays, CaptureStays DEF BaselineInv
<1>3. BaselineInv => BaselineIsKept
  <2>. SUFFICES ASSUME Steady(local), torn = "no" => WholeIn(local)
                PROVE  BaselineIsKept
    BY DEF BaselineInv, HistoriesKeep
  <2>1. torn = "no" => \A i \in 1..Len(local) : SettingsOf(local[i].tree) \in {{}, Settings}
    BY DEF WholeIn, Whole
  <2>2. \A i, j \in 1..Len(local) :
          i < j /\ SettingsOf(local[i].tree) # {} =>
            \A p \in Settings : local[i].tree[p] = local[j].tree[p]
    BY DEF Steady, SameSettings
  <2>3. \A i, j \in 1..Len(local) :
          i < j /\ SettingsOf(local[i].tree) # {} =>
            \A p \in Settings : local[j].tree[p] = local[i].tree[p]
    BY <2>2, Zenon
  <2>. QED
    BY <2>1, <2>3 DEF BaselineIsKept
<1>. QED
  BY <1>1, <1>2, <1>3, PTL DEF Spec
=============================================================================
