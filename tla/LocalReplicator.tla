---------------------------- MODULE LocalReplicator ----------------------------
(***************************************************************************)
(* The replication cycle between the vault's origin and a device's iCloud  *)
(* tree: park the cache clone at LAST_CHECKOUT, overlay the device onto    *)
(* it, spool what differs, reset, fetch, check out what was fetched,       *)
(* publish it to the device, move LAST_CHECKOUT.                           *)
(*                                                                         *)
(* A cycle is one process, killed or failing between any two steps; rsync  *)
(* works through the paths one at a time, so it may also be cut short and  *)
(* a person may type between two of them.  A git command is one step, and  *)
(* one that is killed may leave its lock file, which nothing here clears,  *)
(* or half a work tree.                                                    *)
(* Paths and contents are model values; .obsidian and the excluded noise   *)
(* are outside both rsyncs and not modelled here.  A rename is one git     *)
(* finds between identical contents.                                       *)
(***************************************************************************)
EXTENDS Integers, Sequences, FiniteSets

CONSTANTS
  Paths,        \* paths of the vault
  Notes,        \* contents git diffs as text
  Binaries,     \* contents git's patch only says differ
  Absent,       \* no file at the path
  Nothing,      \* no content is carried, or none is owed
  Authored,     \* what the cluster may commit at a path
  Typed,        \* what a person may leave at a path on the device
  Seeds,        \* the trees a first commit may hold
  EditsMidCycle,  \* may a person type where a cycle has already looked?
  MaxCommits,   \* bound: commits on origin
  MaxTyped,     \* bound: edits on the device
  MaxFaults,    \* bound: failures and kills
  MaxLosses     \* bound: times the cache clone is lost

Contents == Notes \cup Binaries
Holdings == Contents \cup {Absent}
Trees == [Paths -> Holdings]

ASSUME LocalReplicatorAssumption ==
  /\ Notes \cap Binaries = {}
  /\ Absent \notin Contents /\ Nothing \notin Holdings /\ Nothing \notin Paths
  /\ Authored \subseteq Holdings /\ Typed \subseteq Holdings
  /\ Seeds \subseteq Trees
  /\ EditsMidCycle \in BOOLEAN
  /\ MaxCommits \in Nat /\ MaxTyped \in Nat /\ MaxFaults \in Nat
  /\ MaxLosses \in Nat

VARIABLES
  commits,    \* origin's history, a tree each
  known,      \* the remote-tracking ref: the number of a commit, or None
  tag,        \* LAST_CHECKOUT: the number of a commit, or None
  head,       \* the commit the clone is on, or None
  tree,       \* the clone's work tree
  locks,      \* the lock files a killed git command left in the clone
  device,     \* the iCloud tree
  spool,      \* every entry the spool ever held; what the drainer does with
              \* them is not this module's
  pc,         \* the cycle: where it is
  left,       \* the paths its rsync has not come to
  unspooled,  \* the entries it has not written
  verdict,    \* may it publish?
  faults, typing, losses,  \* how much more of each may come
  \* The rest is observation: no step of the program reads it.
  owed,       \* path -> what a person last left there, or Nothing
  placed      \* path -> the commit a publish last brought there, or None

repoVars == <<known, tag, head, tree, locks>>
cycleVars == <<pc, left, unspooled, verdict>>
budgets == <<faults, typing, losses>>
ghosts == <<owed, placed>>
vars == <<commits, repoVars, device, spool, cycleVars, budgets, ghosts>>

None == 0
NumberOrNone == 0..MaxCommits
Observations == {"same", "differs", "unknown"}
Entries ==
  [at : Paths, from : Paths \cup {Nothing}, holds : Holdings,
   base : NumberOrNone, upstream : NumberOrNone, matches : Observations]
Locks == {"config", "index", "branch", "remote", "tag"}  \* HEAD's goes with the index's
Phases == {"idle", "overlay", "capture", "spool", "fetch", "checkout", "publish", "tag"}

TypeOK ==
  /\ commits \in Seq(Trees) /\ Len(commits) <= MaxCommits
  /\ known \in 0..Len(commits)
  /\ tag \in 0..Len(commits)
  /\ head \in 0..Len(commits)
  /\ tree \in Trees
  /\ locks \subseteq Locks
  /\ device \in Trees
  /\ spool \subseteq Entries
  /\ pc \in Phases
  /\ left \subseteq Paths
  /\ unspooled \subseteq Entries
  /\ verdict \in {"publish", "withhold"}
  /\ faults \in Nat /\ typing \in Nat /\ losses \in Nat
  /\ owed \in [Paths -> Holdings \cup {Nothing}]
  /\ placed \in [Paths -> 0..Len(commits)]

Empty == [p \in Paths |-> Absent]

-----------------------------------------------------------------------------
(* What a cycle makes of the difference between two trees.                 *)

Drift(base, now) == {p \in Paths : base[p] # now[p]}

\* The deletions git may pair a creation at p with.
Sources(base, now, p) ==
  {q \in Drift(base, now) :
     base[p] = Absent /\ now[p] # Absent /\ now[q] = Absent /\ base[q] = now[p]}

\* Mutants of Captures: a binary's patch counts as carrying it; a deleted
\* binary's does not.
CapturesMutAlways(base, now, p) == now[p] \in Holdings
CapturesMutNoDeletion(base, now, p) ==
  Sources(base, now, p) # {} \/ {base[p], now[p]} \cap Binaries = {}

\* Does the patch of p carry what changed there?
Captures(base, now, p) ==
  \/ now[p] = Absent
  \/ Sources(base, now, p) # {}
  \/ {base[p], now[p]} \cap Binaries = {}

\* What can be had back from a patch: git prints nothing of a binary, and an
\* exact rename's header names content that is in history.
Carried(base, now, p) ==
  IF \/ now[p] = Absent
     \/ Sources(base, now, p) # {}
     \/ {base[p], now[p]} \cap Binaries = {}
  THEN now[p] ELSE Nothing

RenamedFrom(base, now, p) ==
  IF Sources(base, now, p) = {} THEN Nothing ELSE CHOOSE q \in Sources(base, now, p) : TRUE

\* Git reports the two ends of a rename as one change.
Changes(base, now) ==
  {p \in Drift(base, now) : \A q \in Drift(base, now) : RenamedFrom(base, now, q) # p}

Named(e) == {e.at, e.from} \cap Paths

EntryFor(base, now, p) ==
  LET from == RenamedFrom(base, now, p)
      paths == {p, from} \cap Paths
  IN [at |-> p, from |-> from, holds |-> Carried(base, now, p),
      base |-> tag, upstream |-> known,
      matches |-> IF known = None THEN "unknown"
                  ELSE IF \A q \in paths : now[q] = commits[known][q] THEN "same"
                  ELSE "differs"]

\* Mutant of Outcome: a failed spool write does not hold the cycle back.
OutcomeMutSpoolFailure(failed, uncaptured) ==
  IF uncaptured # {} THEN "withhold" ELSE "publish"

Outcome(failed, uncaptured) ==
  IF failed = "failed" \/ uncaptured # {} THEN "withhold" ELSE "publish"

-----------------------------------------------------------------------------
(* Git's lock files.                                                       *)

\* The locks the next step's git commands take; none if it runs no git.
Taken ==
  CASE pc = "idle" -> {"config"} \cup (IF tag = None THEN {} ELSE {"index"})
    [] pc = "capture" \/ (pc = "spool" /\ unspooled = {}) -> {"index"}
    [] pc = "fetch" -> {"remote"}
    [] pc = "checkout" -> {"index", "branch"}
    [] pc = "tag" -> {"tag"}
    [] OTHER -> {}

Unlocked == Taken \cap locks = {}

\* The commit the next step moves the work tree to.
Target ==
  CASE pc = "idle" -> commits[tag]
    [] pc = "spool" -> commits[head]
    [] pc = "checkout" -> commits[known]
    [] OTHER -> tree

\* A git command that does not end well has moved these paths of the tree:
\* none while it cannot write the config.
Moves(paths) ==
  /\ paths # {} => tag # None /\ "config" \notin locks'
  /\ tree' = [p \in Paths |-> IF p \in paths THEN Target[p] ELSE tree[p]]

EndsTheRun ==
  /\ pc' = "idle"
  /\ left' = {}
  /\ unspooled' = {}
  /\ verdict' = "publish"

-----------------------------------------------------------------------------
Init ==
  /\ commits = <<>>
  /\ known = None
  /\ tag = None
  /\ head = None
  /\ tree = Empty
  /\ locks = {}
  /\ device = Empty
  /\ spool = {}
  /\ pc = "idle"
  /\ left = {}
  /\ unspooled = {}
  /\ verdict = "publish"
  /\ faults = MaxFaults
  /\ typing = MaxTyped
  /\ losses = MaxLosses
  /\ owed = [p \in Paths |-> Nothing]
  /\ placed = [p \in Paths |-> None]

\* Mutant of Park: the work tree is taken to be where the last cycle left it.
ParkMutTrusting ==
  /\ pc = "idle"
  /\ Unlocked
  /\ tag # None
  /\ pc' = "overlay"
  /\ left' = Paths
  /\ verdict' = "publish"
  /\ UNCHANGED <<commits, repoVars, device, spool, unspooled, budgets, ghosts>>

\* Back to LAST_CHECKOUT, whatever the last cycle left behind.
Park ==
  /\ pc = "idle"
  /\ Unlocked
  /\ tag # None
  /\ head' = tag
  /\ tree' = commits[tag]
  /\ pc' = "overlay"
  /\ left' = Paths
  /\ verdict' = "publish"
  /\ UNCHANGED <<commits, known, tag, locks, device, spool, unspooled, budgets, ghosts>>

\* No baseline: nothing to compare with, everything is published once.
Rebaseline ==
  /\ pc = "idle"
  /\ Unlocked
  /\ tag = None
  /\ pc' = "fetch"
  /\ verdict' = "publish"
  /\ UNCHANGED <<commits, repoVars, device, spool, left, unspooled, budgets, ghosts>>

Overlay(p) ==
  /\ pc = "overlay"
  /\ p \in left
  /\ tree' = [tree EXCEPT ![p] = device[p]]
  /\ left' = left \ {p}
  /\ pc' = IF left' = {} THEN "capture" ELSE pc
  /\ UNCHANGED <<commits, known, tag, head, locks, device, spool, unspooled, verdict,
                 budgets, ghosts>>

Capture ==
  LET base == commits[head]
      changes == Changes(base, tree)
      captured == {p \in changes : Captures(base, tree, p)}
  IN
  /\ pc = "capture"
  /\ Unlocked
  /\ unspooled' = {EntryFor(base, tree, p) : p \in captured}
  /\ verdict' = Outcome("written", changes \ captured)
  /\ pc' = "spool"
  /\ UNCHANGED <<commits, repoVars, device, spool, left, budgets, ghosts>>

SpoolWrite(e) ==
  /\ pc = "spool"
  /\ e \in unspooled
  /\ spool' = spool \cup {e}
  /\ unspooled' = unspooled \ {e}
  /\ UNCHANGED <<commits, repoVars, device, pc, left, verdict, budgets, ghosts>>

\* The first entry that cannot be written is the last one tried.
SpoolFails ==
  /\ pc = "spool"
  /\ unspooled # {}
  /\ faults > 0
  /\ faults' = faults - 1
  /\ unspooled' = {}
  /\ verdict' = IF verdict = "withhold" THEN verdict ELSE Outcome("failed", {})
  /\ UNCHANGED <<commits, repoVars, device, spool, pc, left, typing, losses, ghosts>>

Reset ==
  /\ pc = "spool"
  /\ unspooled = {}
  /\ Unlocked
  /\ tree' = commits[head]
  /\ pc' = "fetch"
  /\ UNCHANGED <<commits, known, tag, head, locks, device, spool, left, unspooled, verdict,
                 budgets, ghosts>>

\* Whether or not the cycle may publish.
Fetch ==
  /\ pc = "fetch"
  /\ Unlocked
  /\ known' = Len(commits)
  /\ pc' = IF commits = <<>> THEN "idle" ELSE "checkout"
  /\ UNCHANGED <<commits, tag, head, tree, locks, device, spool, left, unspooled, verdict,
                 budgets, ghosts>>

\* Mutant of CheckoutForward: a withheld cycle moves the tag all the same.
CheckoutForwardMutTag ==
  /\ pc = "checkout"
  /\ Unlocked
  /\ head' = known
  /\ tree' = commits[known]
  /\ left' = IF verdict = "publish" THEN Paths ELSE {}
  /\ pc' = IF verdict = "publish" THEN "publish" ELSE "tag"
  /\ UNCHANGED <<commits, known, tag, locks, device, spool, unspooled, verdict, budgets,
                 ghosts>>

CheckoutForward ==
  /\ pc = "checkout"
  /\ Unlocked
  /\ head' = known
  /\ tree' = commits[known]
  /\ left' = IF verdict = "publish" THEN Paths ELSE {}
  /\ pc' = IF verdict = "publish" THEN "publish" ELSE "idle"
  /\ UNCHANGED <<commits, known, tag, locks, device, spool, unspooled, verdict, budgets,
                 ghosts>>

PublishPath(p) ==
  /\ pc = "publish"
  /\ p \in left
  /\ device' = [device EXCEPT ![p] = tree[p]]
  /\ placed' = [placed EXCEPT ![p] = known]
  /\ left' = left \ {p}
  /\ pc' = IF left' = {} THEN "tag" ELSE pc
  /\ UNCHANGED <<commits, repoVars, spool, unspooled, verdict, budgets, owed>>

AdvanceTag ==
  /\ pc = "tag"
  /\ Unlocked
  /\ tag' = known
  /\ pc' = "idle"
  /\ UNCHANGED <<commits, known, head, tree, locks, device, spool, left, unspooled, verdict,
                 budgets, ghosts>>

\* The process is killed between two commands, or one fails: the run is over.
Dies ==
  /\ pc # "idle"
  /\ faults > 0
  /\ faults' = faults - 1
  /\ EndsTheRun
  /\ UNCHANGED <<commits, repoVars, device, spool, typing, losses, ghosts>>

\* Killed inside a git command, which may leave a lock it held (a signal it
\* can handle lets it tidy up) and a tree it was half way through.
GitKilled ==
  /\ Taken # {} /\ Unlocked
  /\ faults > 0
  /\ faults' = faults - 1
  /\ \E lock \in Taken : locks' \in {locks, locks \cup {lock}}
  /\ \E paths \in SUBSET Paths : Moves(paths)
  /\ EndsTheRun
  /\ UNCHANGED <<commits, known, tag, head, device, spool, typing, losses, ghosts>>

\* Git finds a lock in its way: the run is over, and the lock is still there.
\* A branch's is only found when the tree has moved.
TripsOnLock ==
  /\ ~Unlocked
  /\ locks' = locks
  /\ \E paths \in {{}, Paths} : Moves(paths)
  /\ EndsTheRun
  /\ UNCHANGED <<commits, known, tag, head, device, spool, budgets, ghosts>>

-----------------------------------------------------------------------------
(* The environment.                                                        *)

\* The cluster's committer pushes; the first commit may hold anything.
UpstreamSeeds(first) ==
  /\ commits = <<>>
  /\ MaxCommits > 0
  /\ commits' = <<first>>
  /\ UNCHANGED <<repoVars, device, spool, cycleVars, budgets, ghosts>>

UpstreamCommits(p, held) ==
  /\ commits # <<>> /\ Len(commits) < MaxCommits
  /\ held # commits[Len(commits)][p]
  /\ commits' = Append(commits, [commits[Len(commits)] EXCEPT ![p] = held])
  /\ UNCHANGED <<repoVars, device, spool, cycleVars, budgets, ghosts>>

\* The cycle has read the device at p and may still write there.
Exposed(p) ==
  \/ pc = "overlay" /\ p \notin left
  \/ pc \in {"capture", "spool", "fetch", "checkout"}
  \/ pc = "publish" /\ p \in left

\* Before the first cycle, and while the clone is lost, edits are out of
\* contract: there is nothing to compare them with.
Types(p, held) ==
  /\ typing > 0
  /\ tag # None
  /\ EditsMidCycle \/ ~Exposed(p)
  /\ held # device[p]
  /\ typing' = typing - 1
  /\ device' = [device EXCEPT ![p] = held]
  /\ owed' = [owed EXCEPT ![p] = held]
  /\ UNCHANGED <<commits, repoVars, spool, cycleVars, faults, losses, placed>>

\* The clone is gone and with it every baseline; what was only on the device
\* is nobody's to answer for.
CacheLost ==
  /\ pc = "idle"
  /\ losses > 0
  /\ losses' = losses - 1
  /\ known' = None
  /\ tag' = None
  /\ head' = None
  /\ tree' = Empty
  /\ locks' = {}
  /\ owed' = [p \in Paths |-> Nothing]
  /\ UNCHANGED <<commits, device, spool, cycleVars, faults, typing, placed>>

-----------------------------------------------------------------------------
CycleStep ==
  \/ Park \/ Rebaseline
  \/ \E p \in Paths : Overlay(p) \/ PublishPath(p)
  \/ Capture
  \/ \E e \in unspooled : SpoolWrite(e)
  \/ Reset \/ Fetch \/ CheckoutForward \/ AdvanceTag
  \/ TripsOnLock

Next ==
  \/ CycleStep
  \/ SpoolFails \/ Dies \/ GitKilled
  \/ \E first \in Seeds : UpstreamSeeds(first)
  \/ \E p \in Paths, held \in Authored : UpstreamCommits(p, held)
  \/ \E p \in Paths, held \in Typed : Types(p, held)
  \/ CacheLost

Spec == Init /\ [][Next]_vars

\* Cycles are started on a schedule for ever and end by themselves.
FairSpec == Spec /\ WF_vars(CycleStep)

-----------------------------------------------------------------------------
(* Properties.                                                             *)

InHistory(p, held) == \E i \in 1..Len(commits) : commits[i][p] = held

\* The spool has what was at p, or the deletion of it.
Spooled(p, held) ==
  \E e \in spool : \/ e.at = p /\ e.holds = held
                   \/ e.from = p /\ held = Absent

Recoverable(p, held) == InHistory(p, held) \/ Spooled(p, held)

\* A person's doing; what a publish brought that died before the tag moved.
HumanHolds(p) == owed[p] # Nothing /\ device[p] = owed[p]
Residue(p) == placed[p] > tag

\* A binary that is neither in the tag's commit nor anything a patch carries.
OnlyOnTheDevice(p) ==
  /\ tag # None
  /\ device[p] # Absent /\ device[p] # commits[tag][p]
  /\ {device[p], commits[tag][p]} \cap Binaries # {}

InStep == commits = <<>> \/ device = commits[Len(commits)]

(***************************************************************************)
(* What a person last left at a path on the device, content or deletion,   *)
(* is still there, or in the spool, or in git, whatever dies when; as long *)
(* as nobody types where a running cycle has already looked.               *)
(* cycle.run_cycle, drift.decide_cycle_outcome.                            *)
(***************************************************************************)
NothingTypedIsLost ==
  \A p \in Paths :
    owed[p] # Nothing => device[p] = owed[p] \/ Recoverable(p, owed[p])

(***************************************************************************)
(* LAST_CHECKOUT never runs ahead of the device: every path was brought to *)
(* the commit it names, or a later one.  cycle.run_cycle, steps 6 and 7.   *)
(***************************************************************************)
TagNamesWhatWasPlaced == tag # None => \A p \in Paths : placed[p] >= tag

(***************************************************************************)
(* The cycle reports as drift only what a person did, or what a publish    *)
(* brought that died before the tag moved: never its own fetches, withheld *)
(* cycles or a killed cycle's half-made work tree.  cycle.run_cycle.       *)
(***************************************************************************)
DriftHasACause ==
  pc = "spool" => \A e \in unspooled : \A p \in Named(e) : HumanHolds(p) \/ Residue(p)

(***************************************************************************)
(* Once people, the cluster and failures leave it alone, the device comes  *)
(* to hold what origin's head holds: no kill between two commands, no half *)
(* a work tree and no deletion wedges it.  A binary that exists nowhere    *)
(* else holds it back, and so does a lock file a killed git command left,  *)
(* until the clone is lost.  (A first checkout that stops half way may,    *)
(* too: see the README.)  cycle.run_cycle, drift.captures_content.         *)
(***************************************************************************)
DeviceCatchesUp == <>[](InStep \/ locks # {} \/ \E p \in Paths : OnlyOnTheDevice(p))

-----------------------------------------------------------------------------
(* The inductive invariant behind the safety properties, for a device left *)
(* alone where a cycle has looked.                                         *)

\* Where a cycle is tells where its clone is.
CloneFollowsCycle ==
  /\ pc \in {"overlay", "capture", "spool"} => tag # None /\ head = tag
  /\ pc \in {"checkout", "publish", "tag"} => known # None
  /\ pc = "publish" => tree = commits[known]
  /\ pc = "tag" => left = {}

KnownIsAhead == known >= tag

Core == TypeOK /\ CloneFollowsCycle /\ KnownIsAhead

\* The overlay takes the device as it is, and it stays that way.
OverlayIsTheDevice ==
  /\ pc = "overlay" => \A p \in Paths \ left : tree[p] = device[p]
  /\ pc = "capture" => tree = device

\* What this cycle's publish has come to.
BroughtByNow(p) == pc \in {"publish", "tag"} /\ p \notin left

PlacedByNow == \A p \in Paths : BroughtByNow(p) => placed[p] = known

\* A path holds what was placed there, unless a person had the last word.
Provenance ==
  \A p \in Paths : tag # None \/ BroughtByNow(p) =>
    HumanHolds(p) \/ (placed[p] # None /\ device[p] = commits[placed[p]][p])

NothingOwedUntracked == tag = None => \A p \in Paths : owed[p] = Nothing

\* The publish may still replace what is at p.
MayReplace(p) ==
  \/ verdict = "publish" /\ pc \in {"spool", "fetch", "checkout"}
  \/ pc = "publish" /\ p \in left

AboutToBeSpooled(p) ==
  pc = "spool" /\ \E e \in unspooled : \/ e.at = p /\ e.holds = owed[p]
                                       \/ e.from = p /\ owed[p] = Absent

\* A cycle that may publish has, or is about to have, what it may replace.
SafeToReplace ==
  \A p \in Paths : MayReplace(p) /\ HumanHolds(p) =>
    Recoverable(p, owed[p]) \/ AboutToBeSpooled(p)

EntriesAreDrift ==
  pc = "spool" => \A e \in unspooled : \A p \in Named(e) : device[p] # commits[tag][p]

IInv ==
  /\ Core
  /\ OverlayIsTheDevice
  /\ PlacedByNow
  /\ Provenance
  /\ NothingOwedUntracked
  /\ SafeToReplace
  /\ EntriesAreDrift
  /\ NothingTypedIsLost
  /\ TagNamesWhatWasPlaced
=============================================================================
