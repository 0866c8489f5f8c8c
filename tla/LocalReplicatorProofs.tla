------------------------- MODULE LocalReplicatorProofs -------------------------
(***************************************************************************)
(* What the replication cycle keeps, for every vault, every history of it, *)
(* every number of edits, failures and losses of the clone: the safety     *)
(* properties of LocalReplicator, from the inductive invariant IInv.  The  *)
(* types and the tag need no hypothesis; the rest is for a device nobody   *)
(* types on where a running cycle has already looked.                      *)
(***************************************************************************)
EXTENDS LocalReplicator, TLAPS

-----------------------------------------------------------------------------
(* What a cycle makes of a difference.                                     *)

\* The source git names for a rename is one of the deletions it may pair.
LEMMA RenameSource ==
  ASSUME NEW base \in Trees, NEW now \in Trees, NEW p \in Paths,
         RenamedFrom(base, now, p) # Nothing \/ Sources(base, now, p) # {}
  PROVE  Sources(base, now, p) # {} /\ RenamedFrom(base, now, p) \in Sources(base, now, p)
BY DEF RenamedFrom

\* A captured change carries what the path holds.
LEMMA CapturedIsCarried ==
  ASSUME NEW base \in Trees, NEW now \in Trees, NEW p \in Paths,
         Captures(base, now, p)
  PROVE  Carried(base, now, p) = now[p]
BY DEF Captures, Carried

\* The entries of a cycle are well formed.
LEMMA EntryType ==
  ASSUME TypeOK, NEW base \in Trees, NEW now \in Trees, NEW p \in Paths,
         Captures(base, now, p)
  PROVE  EntryFor(base, now, p) \in Entries
<1>1. RenamedFrom(base, now, p) \in Paths \cup {Nothing}
  BY RenameSource DEF Sources, Drift
<1>2. Carried(base, now, p) \in Holdings
  BY CapturedIsCarried DEF Trees
<1>3. tag \in NumberOrNone /\ known \in NumberOrNone
  BY LocalReplicatorAssumption DEF TypeOK, NumberOrNone
<1>4. QED
  BY <1>1, <1>2, <1>3 DEF EntryFor, Entries, Observations

-----------------------------------------------------------------------------
(* Types, and where the clone is.                                          *)

(* The first replica, before any cycle, satisfies Core. *)
LEMMA InitCore == Init => Core
BY LocalReplicatorAssumption
   DEF Init, Core, TypeOK, CloneFollowsCycle, KnownIsAhead, None, Phases, Empty, Trees,
       Holdings

\* What a checkout is moving the work tree to is a tree.
LEMMA TargetIsATree ==
  ASSUME Core, tag # None \/ pc # "idle"
  PROVE  Target \in Trees
BY DEF Core, TypeOK, CloneFollowsCycle, KnownIsAhead, Target, None

\* A git command that does not end well leaves a tree all the same.
LEMMA MovesATree ==
  ASSUME Core, NEW paths \in SUBSET Paths, Moves(paths)
  PROVE  tree' \in Trees
<1>1. CASE paths = {}
  BY <1>1 DEF Moves, Core, TypeOK, Trees
<1>2. CASE paths # {}
  BY <1>2, TargetIsATree DEF Moves, Core, TypeOK, Trees
<1>3. QED
  BY <1>1, <1>2

\* A run that dies inside a git command, or on the lock of an earlier one,
\* leaves refs, spool and device as they were.
LEMMA StoppedGitCore ==
  ASSUME Core, GitKilled \/ TripsOnLock
  PROVE  Core'
<1>1. tree' \in Trees
  BY MovesATree DEF GitKilled, TripsOnLock
<1>2. locks' \subseteq Locks
  BY DEF GitKilled, TripsOnLock, Taken, Locks, Core, TypeOK
<1>3. faults' \in Nat
  BY DEF GitKilled, TripsOnLock, budgets, Core, TypeOK
<1>4. QED
  BY <1>1, <1>2, <1>3
     DEF GitKilled, TripsOnLock, EndsTheRun, Core, TypeOK, CloneFollowsCycle, KnownIsAhead,
         Phases, budgets, ghosts

\* One commit more leaves the earlier ones as they are.
LEMMA HistoryGrows ==
  ASSUME TypeOK, NEW t \in Trees
  PROVE  /\ Append(commits, t) \in Seq(Trees)
         /\ Len(Append(commits, t)) = Len(commits) + 1
         /\ \A i \in 1..Len(commits) : Append(commits, t)[i] = commits[i]
BY DEF TypeOK

\* A cycle's steps that only move trees and refs.
LEMMA CycleCore ==
  ASSUME Core, CycleStep
  PROVE  Core'
<1> USE LocalReplicatorAssumption
    DEF Core, TypeOK, CloneFollowsCycle, KnownIsAhead, None, Phases, repoVars, cycleVars,
        budgets, ghosts
<1>1. CASE Park
  BY <1>1 DEF Park
<1>2. CASE Rebaseline
  BY <1>2 DEF Rebaseline
<1>3. ASSUME NEW p \in Paths, Overlay(p) PROVE Core'
  BY <1>3 DEF Overlay, Trees
<1>4. ASSUME NEW p \in Paths, PublishPath(p) PROVE Core'
  BY <1>4 DEF PublishPath, Trees
<1>5. CASE Capture
  <2>1. commits[head] \in Trees
    BY <1>5 DEF Capture
  <2>2. unspooled' \subseteq Entries
    BY <1>5, <2>1, EntryType DEF Capture, Changes, Drift
  <2>3. verdict' \in {"publish", "withhold"}
    BY <1>5 DEF Capture, Outcome
  <2>4. QED
    BY <1>5, <2>2, <2>3 DEF Capture
<1>6. ASSUME NEW e \in unspooled, SpoolWrite(e) PROVE Core'
  BY <1>6 DEF SpoolWrite
<1>7. CASE Reset
  BY <1>7 DEF Reset
<1>8. CASE Fetch
  BY <1>8 DEF Fetch
<1>9. CASE CheckoutForward
  BY <1>9 DEF CheckoutForward
<1>10. CASE AdvanceTag
  BY <1>10 DEF AdvanceTag
<1>11. CASE TripsOnLock
  BY <1>11, StoppedGitCore
<1>12. QED
  BY <1>1, <1>2, <1>3, <1>4, <1>5, <1>6, <1>7, <1>8, <1>9, <1>10, <1>11 DEF CycleStep

(* Every step of a cycle, of the device and of the environment keeps Core. *)
LEMMA NextCore == Core /\ [Next]_vars => Core'
<1> SUFFICES ASSUME Core, [Next]_vars PROVE Core'
  OBVIOUS
<1> USE LocalReplicatorAssumption
    DEF Core, TypeOK, CloneFollowsCycle, KnownIsAhead, None, Phases, repoVars, cycleVars,
        budgets, ghosts
<1>1. CASE CycleStep
  BY <1>1, CycleCore
<1>2. CASE SpoolFails
  BY <1>2 DEF SpoolFails, Outcome
<1>3. CASE Dies
  BY <1>3 DEF Dies, EndsTheRun
<1>4. ASSUME NEW first \in Seeds, UpstreamSeeds(first) PROVE Core'
  BY <1>4 DEF UpstreamSeeds
<1>5. ASSUME NEW p \in Paths, NEW held \in Authored, UpstreamCommits(p, held) PROVE Core'
  <2> DEFINE t == [commits[Len(commits)] EXCEPT ![p] = held]
  <2>1. t \in Trees /\ commits' = Append(commits, t)
    BY <1>5 DEF UpstreamCommits, Trees
  <2>2. QED
    BY <1>5, <2>1, HistoryGrows DEF UpstreamCommits
<1>6. ASSUME NEW p \in Paths, NEW held \in Typed, Types(p, held) PROVE Core'
  BY <1>6 DEF Types, Trees
<1>7. CASE CacheLost
  BY <1>7 DEF CacheLost, Empty, Trees, Holdings
<1>8. CASE GitKilled
  BY <1>8, StoppedGitCore
<1>9. CASE UNCHANGED vars
  BY <1>9 DEF vars
<1>10. QED
  BY <1>1, <1>2, <1>3, <1>4, <1>5, <1>6, <1>7, <1>8, <1>9 DEF Next

(* Core holds throughout: the base every later argument stands on. *)
LEMMA CoreInvariance == Spec => []Core
BY InitCore, NextCore, PTL DEF Spec

\* Every reachable state is well typed, whoever types what and when.
THEOREM TypeCorrect == Spec => []TypeOK
BY CoreInvariance, PTL DEF Core

-----------------------------------------------------------------------------
(* The tag.                                                                *)

Tagged == Core /\ PlacedByNow /\ TagNamesWhatWasPlaced

(* Nothing has been placed on the device when the replica starts. *)
LEMMA InitTagged == Init => Tagged
BY InitCore DEF Init, Tagged, PlacedByNow, BroughtByNow, TagNamesWhatWasPlaced, None

\* A publish brings every path forward, and the tag follows when all are there.
LEMMA NextTagged == Tagged /\ [Next]_vars => Tagged'
<1> SUFFICES ASSUME Tagged, [Next]_vars PROVE PlacedByNow' /\ TagNamesWhatWasPlaced'
  BY NextCore DEF Tagged
<1> USE DEF Tagged, Core, TypeOK, KnownIsAhead, PlacedByNow, BroughtByNow,
            TagNamesWhatWasPlaced, None, repoVars, cycleVars, budgets, ghosts
<1>1. ASSUME NEW p \in Paths, PublishPath(p)
      PROVE  PlacedByNow' /\ TagNamesWhatWasPlaced'
  BY <1>1 DEF PublishPath
<1>2. CASE CheckoutForward
  BY <1>2 DEF CheckoutForward
<1>3. CASE AdvanceTag
  BY <1>3 DEF AdvanceTag, CloneFollowsCycle
<1>4. CASE Park \/ Rebaseline \/ Capture \/ Reset \/ Fetch
  BY <1>4 DEF Park, Rebaseline, Capture, Reset, Fetch
<1>5. CASE \E p \in Paths : Overlay(p)
  BY <1>5 DEF Overlay
<1>6. CASE \E e \in unspooled : SpoolWrite(e)
  BY <1>6 DEF SpoolWrite
<1>7. CASE SpoolFails \/ Dies \/ GitKilled \/ TripsOnLock \/ CacheLost
  BY <1>7 DEF SpoolFails, Dies, GitKilled, TripsOnLock, EndsTheRun, CacheLost
<1>8. CASE \/ \E first \in Seeds : UpstreamSeeds(first)
           \/ \E p \in Paths, held \in Authored : UpstreamCommits(p, held)
  BY <1>8 DEF UpstreamSeeds, UpstreamCommits
<1>9. CASE \E p \in Paths, held \in Typed : Types(p, held)
  BY <1>9 DEF Types
<1>10. CASE UNCHANGED vars
  BY <1>10 DEF vars
<1>11. QED
  BY <1>1, <1>2, <1>3, <1>4, <1>5, <1>6, <1>7, <1>8, <1>9, <1>10 DEF Next, CycleStep

(* What the tag names and what the cycle has placed agree throughout. *)
LEMMA TaggedInvariance == Spec => []Tagged
BY InitTagged, NextTagged, PTL DEF Spec

\* LAST_CHECKOUT never runs ahead of the device, whatever dies when.
THEOREM TagFollowsTheDevice == Spec => []TagNamesWhatWasPlaced
BY TaggedInvariance, PTL DEF Tagged

-----------------------------------------------------------------------------
(* Whose content a path of the device holds.                               *)

Sourced == Tagged /\ OverlayIsTheDevice /\ Provenance /\ NothingOwedUntracked

(* Before the first cycle the overlay and the placed tree have their sources. *)
LEMMA InitSourced == Init => Sourced
BY InitTagged
   DEF Init, Sourced, OverlayIsTheDevice, Provenance, NothingOwedUntracked,
       BroughtByNow, None

\* What upstream adds changes no commit there was.
LEMMA CommitsStay ==
  ASSUME TypeOK, [Next]_vars
  PROVE  /\ Len(commits') >= Len(commits)
         /\ \A i \in 1..Len(commits) : commits'[i] = commits[i]
<1>1. ASSUME NEW first \in Seeds, UpstreamSeeds(first)
      PROVE  Len(commits') >= Len(commits) /\ \A i \in 1..Len(commits) : commits'[i] = commits[i]
  BY <1>1 DEF UpstreamSeeds, TypeOK
<1>2. ASSUME NEW p \in Paths, NEW held \in Authored, UpstreamCommits(p, held)
      PROVE  Len(commits') >= Len(commits) /\ \A i \in 1..Len(commits) : commits'[i] = commits[i]
  <2>1. [commits[Len(commits)] EXCEPT ![p] = held] \in Trees
    BY <1>2, LocalReplicatorAssumption DEF UpstreamCommits, TypeOK, Trees
  <2>2. QED BY <1>2, <2>1, HistoryGrows DEF UpstreamCommits, TypeOK
<1>3. ASSUME UNCHANGED commits
      PROVE  Len(commits') >= Len(commits) /\ \A i \in 1..Len(commits) : commits'[i] = commits[i]
  BY <1>3 DEF TypeOK
<1>4. CASE CycleStep
  BY <1>4, <1>3
     DEF CycleStep, Park, Rebaseline, Overlay, PublishPath, Capture, SpoolWrite, Reset, Fetch,
         CheckoutForward, AdvanceTag, TripsOnLock
<1>5. QED
  BY <1>1, <1>2, <1>3, <1>4 DEF Next, SpoolFails, Dies, GitKilled, Types, CacheLost, vars

\* The history stays a history.
LEMMA NextCommits == Core /\ [Next]_vars => commits' \in Seq(Trees)
BY NextCore DEF Core, TypeOK

\* A cycle's own steps: only a publish writes the device, and only what it fetched.
LEMMA CycleSourced ==
  ASSUME Sourced, CycleStep
  PROVE  OverlayIsTheDevice' /\ Provenance' /\ NothingOwedUntracked'
<1> USE DEF Sourced, Tagged, Core, TypeOK, OverlayIsTheDevice, Provenance, PlacedByNow,
            BroughtByNow, HumanHolds, NothingOwedUntracked, None, Trees, repoVars,
            cycleVars, budgets, ghosts
<1>1. CASE Park \/ Rebaseline
  BY <1>1 DEF Park, Rebaseline
<1>2. ASSUME NEW p \in Paths, Overlay(p)
      PROVE  OverlayIsTheDevice' /\ Provenance' /\ NothingOwedUntracked'
  BY <1>2 DEF Overlay
<1>3. ASSUME NEW p \in Paths, PublishPath(p)
      PROVE  OverlayIsTheDevice' /\ Provenance' /\ NothingOwedUntracked'
  BY <1>3 DEF PublishPath, CloneFollowsCycle
<1>4. CASE Capture \/ Reset \/ Fetch
  BY <1>4 DEF Capture, Reset, Fetch
<1>5. ASSUME NEW e \in unspooled, SpoolWrite(e)
      PROVE  OverlayIsTheDevice' /\ Provenance' /\ NothingOwedUntracked'
  BY <1>5 DEF SpoolWrite
<1>6. CASE CheckoutForward
  BY <1>6 DEF CheckoutForward
<1>7. CASE AdvanceTag
  BY <1>7 DEF AdvanceTag, CloneFollowsCycle
<1>8. CASE TripsOnLock
  BY <1>8 DEF TripsOnLock, EndsTheRun
<1>9. QED
  BY <1>1, <1>2, <1>3, <1>4, <1>5, <1>6, <1>7, <1>8 DEF CycleStep

(* Every step keeps the source of what is in the overlay and on the device. *)
LEMMA NextSourced ==
  ASSUME ~EditsMidCycle, Sourced, [Next]_vars
  PROVE  Sourced'
<1>1. Tagged'
  BY NextTagged DEF Sourced
<1>2. OverlayIsTheDevice' /\ Provenance' /\ NothingOwedUntracked'
  <2> USE DEF Sourced, Tagged, Core, TypeOK, OverlayIsTheDevice, Provenance, PlacedByNow,
              BroughtByNow, HumanHolds, NothingOwedUntracked, None, repoVars,
              cycleVars, budgets, ghosts
  <2>1. ASSUME NEW p \in Paths, NEW held \in Typed, Types(p, held)
        PROVE  OverlayIsTheDevice' /\ Provenance' /\ NothingOwedUntracked'
    BY <2>1, LocalReplicatorAssumption DEF Types, Exposed, Trees
  <2>2. CASE \/ \E first \in Seeds : UpstreamSeeds(first)
             \/ \E p \in Paths, held \in Authored : UpstreamCommits(p, held)
    <3>1. UNCHANGED <<repoVars, device, cycleVars, ghosts>>
      BY <2>2 DEF UpstreamSeeds, UpstreamCommits
    <3>2. \A p \in Paths : placed[p] # None => commits'[placed[p]] = commits[placed[p]]
      BY CommitsStay
    <3>. QED
      BY <3>1, <3>2
  <2>3. CASE SpoolFails \/ Dies \/ GitKilled \/ CacheLost \/ UNCHANGED vars
    BY <2>3 DEF SpoolFails, Dies, GitKilled, EndsTheRun, CacheLost, vars
  <2>. QED
    BY <2>1, <2>2, <2>3, CycleSourced DEF Next
<1>3. QED
  BY <1>1, <1>2 DEF Sourced

-----------------------------------------------------------------------------
(* What a person typed.                                                    *)

\* A cycle with nothing uncaptured has an entry for every path that differs.
LEMMA DriftIsEntered ==
  ASSUME NEW base \in Trees, NEW now \in Trees, NEW p \in Drift(base, now),
         \A q \in Changes(base, now) : Captures(base, now, q)
  PROVE  \E q \in Changes(base, now) :
           \/ q = p /\ Carried(base, now, q) = now[p]
           \/ RenamedFrom(base, now, q) = p /\ now[p] = Absent
<1>1. CASE p \in Changes(base, now)
  BY <1>1, CapturedIsCarried DEF Drift
<1>2. CASE p \notin Changes(base, now)
  <2>1. PICK q \in Drift(base, now) : RenamedFrom(base, now, q) = p
    BY <1>2 DEF Changes
  <2>2. CASE Sources(base, now, q) # {}
    <3>1. p \in Sources(base, now, q) /\ now[p] = Absent /\ now[q] # Absent
      BY <2>1, <2>2, RenameSource DEF Sources, Drift
    <3>2. ASSUME NEW r \in Drift(base, now), RenamedFrom(base, now, r) = q
          PROVE  FALSE
      <4>1. CASE Sources(base, now, r) # {}
        BY <3>1, <3>2, <4>1, RenameSource DEF Sources, Drift
      <4>2. CASE Sources(base, now, r) = {}
        BY <3>2, <4>2, LocalReplicatorAssumption DEF RenamedFrom, Drift
      <4>3. QED BY <4>1, <4>2
    <3>3. q \in Changes(base, now)
      BY <3>2 DEF Changes
    <3>4. QED BY <2>1, <3>1, <3>3
  <2>3. CASE Sources(base, now, q) = {}
    BY <2>1, <2>3, LocalReplicatorAssumption DEF RenamedFrom, Drift
  <2>4. QED BY <2>2, <2>3
<1>3. QED BY <1>1, <1>2

\* What can be had back stays so: commits and spool entries are only added.
LEMMA RecoverableStays ==
  ASSUME Core, [Next]_vars, NEW p \in Paths, NEW held, Recoverable(p, held)
  PROVE  Recoverable(p, held)'
<1>1. spool \subseteq spool'
  <2>1. CASE CycleStep
    BY <2>1
       DEF CycleStep, Park, Rebaseline, Overlay, PublishPath, Capture, SpoolWrite, Reset,
           Fetch, CheckoutForward, AdvanceTag, TripsOnLock
  <2>2. CASE ~CycleStep
    BY <2>2
       DEF Next, SpoolFails, Dies, GitKilled, UpstreamSeeds, UpstreamCommits, Types, CacheLost, vars
  <2>3. QED BY <2>1, <2>2
<1>2. CASE InHistory(p, held)
  <2>1. PICK i \in 1..Len(commits) : commits[i][p] = held
    BY <1>2 DEF InHistory
  <2>2. i \in 1..Len(commits') /\ commits'[i][p] = held
    BY <2>1, CommitsStay, NextCommits DEF Core, TypeOK
  <2>3. QED BY <2>2 DEF Recoverable, InHistory
<1>3. CASE Spooled(p, held)
  BY <1>1, <1>3 DEF Recoverable, Spooled
<1>4. QED BY <1>2, <1>3 DEF Recoverable

Kept == Sourced /\ SafeToReplace /\ NothingTypedIsLost

(* Nothing has been typed yet, so nothing can be owed. *)
LEMMA InitKept == Init => Kept
BY InitSourced
   DEF Init, Kept, SafeToReplace, NothingTypedIsLost, MayReplace, HumanHolds

\* After its capture, a cycle that may publish has an entry of every path
\* that is not as the tag's commit has it.
LEMMA CaptureKeeps ==
  ASSUME Kept, Capture
  PROVE  SafeToReplace'
<1> DEFINE base == commits[head]
           changes == Changes(base, tree)
<1>1. /\ base \in Trees /\ tree \in Trees /\ tree = device
      /\ head \in 1..Len(commits)
  BY DEF Kept, Sourced, Tagged, Core, TypeOK, CloneFollowsCycle, OverlayIsTheDevice, Capture,
         None
<1>2. ASSUME NEW p \in Paths, MayReplace(p)', HumanHolds(p)'
      PROVE  Recoverable(p, owed[p])' \/ AboutToBeSpooled(p)'
  <2>1. device[p] = owed[p]
    BY <1>2 DEF HumanHolds, Capture, ghosts
  <2>2. CASE base[p] = tree[p]
    BY <1>1, <2>1, <2>2 DEF Recoverable, InHistory, Capture, ghosts
  <2>3. CASE base[p] # tree[p]
    <3>1. \A q \in changes : Captures(base, tree, q)
      BY <1>2 DEF MayReplace, Capture, Outcome
    <3>2. PICK q \in changes : \/ q = p /\ Carried(base, tree, q) = tree[p]
                               \/ RenamedFrom(base, tree, q) = p /\ tree[p] = Absent
      BY <1>1, <2>3, <3>1, DriftIsEntered DEF Drift
    <3>3. EntryFor(base, tree, q) \in unspooled'
      BY <3>1, <3>2 DEF Capture
    <3>4. \/ EntryFor(base, tree, q).at = p /\ EntryFor(base, tree, q).holds = owed[p]
          \/ EntryFor(base, tree, q).from = p /\ owed[p] = Absent
      BY <1>1, <2>1, <3>2 DEF EntryFor
    <3>5. pc' = "spool" /\ owed' = owed
      BY DEF Capture, ghosts
    <3>6. QED BY <3>3, <3>4, <3>5 DEF AboutToBeSpooled
  <2>4. QED BY <2>2, <2>3
<1>3. QED BY <1>2 DEF SafeToReplace

\* What is about to be spooled is spooled when its entry is written.
LEMMA SpoolWriteKeeps ==
  ASSUME Kept, [Next]_vars, NEW e \in unspooled, SpoolWrite(e)
  PROVE  SafeToReplace'
<1>1. ASSUME NEW p \in Paths, MayReplace(p)', HumanHolds(p)'
      PROVE  Recoverable(p, owed[p])' \/ AboutToBeSpooled(p)'
  <2>1. MayReplace(p) /\ HumanHolds(p) /\ owed' = owed /\ pc = "spool" /\ pc' = "spool"
    BY <1>1 DEF MayReplace, HumanHolds, SpoolWrite, repoVars, ghosts
  <2>2. CASE Recoverable(p, owed[p])
    BY <2>1, <2>2, RecoverableStays DEF Kept, Sourced, Tagged
  <2>3. CASE AboutToBeSpooled(p)
    <3>1. PICK f \in unspooled : \/ f.at = p /\ f.holds = owed[p]
                                 \/ f.from = p /\ owed[p] = Absent
      BY <2>3 DEF AboutToBeSpooled
    <3>2. CASE f = e
      BY <2>1, <3>1, <3>2 DEF SpoolWrite, Recoverable, Spooled
    <3>3. CASE f # e
      BY <2>1, <3>1, <3>3 DEF SpoolWrite, AboutToBeSpooled
    <3>4. QED BY <3>2, <3>3
  <2>4. QED BY <1>1, <2>1, <2>2, <2>3 DEF Kept, SafeToReplace
<1>2. QED BY <1>1 DEF SafeToReplace

\* A step that brings no publish nearer, and no new claim, keeps what was safe.
LEMMA SafeStays ==
  ASSUME Kept, [Next]_vars, UNCHANGED owed,
         \A p \in Paths : MayReplace(p)' /\ HumanHolds(p)' =>
           /\ MayReplace(p) /\ HumanHolds(p)
           /\ AboutToBeSpooled(p) => AboutToBeSpooled(p)'
  PROVE  SafeToReplace'
BY RecoverableStays DEF Kept, SafeToReplace, Sourced, Tagged

(* Every step leaves each spooled or placed path safe to replace. *)
LEMMA NextSafe ==
  ASSUME ~EditsMidCycle, Kept, [Next]_vars
  PROVE  SafeToReplace'
<1> USE DEF MayReplace, HumanHolds, AboutToBeSpooled, None, repoVars, cycleVars, budgets, ghosts
<1>1. CASE Park \/ \E p \in Paths : Overlay(p)
  BY <1>1 DEF Park, Overlay, SafeToReplace
<1>2. CASE Rebaseline
  BY <1>2 DEF Rebaseline, SafeToReplace, Kept, Sourced, NothingOwedUntracked
<1>3. CASE Capture
  BY <1>3, CaptureKeeps
<1>4. ASSUME NEW e \in unspooled, SpoolWrite(e) PROVE SafeToReplace'
  BY <1>4, SpoolWriteKeeps
<1>5. CASE Reset
  BY <1>5, SafeStays DEF Reset
<1>6. CASE Fetch \/ CheckoutForward
  BY <1>6, SafeStays DEF Fetch, CheckoutForward
<1>7. ASSUME NEW p \in Paths, PublishPath(p) PROVE SafeToReplace'
  <2>1. \A q \in Paths : MayReplace(q)' => q # p /\ MayReplace(q)
    BY <1>7 DEF PublishPath
  <2>2. UNCHANGED owed /\ pc = "publish" /\ \A q \in Paths : q # p => device'[q] = device[q]
    BY <1>7 DEF PublishPath, Kept, Sourced, Tagged, Core, TypeOK, Trees
  <2>3. QED BY <2>1, <2>2, SafeStays
<1>8. CASE AdvanceTag \/ Dies \/ GitKilled \/ TripsOnLock \/ CacheLost
  BY <1>8
     DEF AdvanceTag, Dies, GitKilled, TripsOnLock, EndsTheRun, CacheLost, SafeToReplace
<1>9. CASE SpoolFails
  BY <1>9 DEF SpoolFails, Outcome, SafeToReplace
<1>10. CASE \/ \E first \in Seeds : UpstreamSeeds(first)
            \/ \E p \in Paths, held \in Authored : UpstreamCommits(p, held)
  <2>1. UNCHANGED <<device, owed, pc, left, unspooled, verdict>>
    BY <1>10 DEF UpstreamSeeds, UpstreamCommits
  <2>2. QED BY <2>1, SafeStays
<1>11. ASSUME NEW p \in Paths, NEW held \in Typed, Types(p, held) PROVE SafeToReplace'
  <2>1. ~MayReplace(p)'
    BY <1>11 DEF Types, Exposed
  <2>2. ASSUME NEW q \in Paths, q # p, MayReplace(q)', HumanHolds(q)'
        PROVE  Recoverable(q, owed[q])' \/ AboutToBeSpooled(q)'
    <3>1. owed'[q] = owed[q] /\ device'[q] = device[q]
      BY <1>11, <2>2 DEF Types, Kept, Sourced, Tagged, Core, TypeOK, Trees
    <3>2. MayReplace(q) /\ HumanHolds(q)
      BY <1>11, <2>2, <3>1 DEF Types
    <3>3. CASE Recoverable(q, owed[q])
      BY <3>1, <3>3, RecoverableStays DEF Kept, Sourced, Tagged
    <3>4. CASE AboutToBeSpooled(q)
      BY <1>11, <3>1, <3>4 DEF Types
    <3>5. QED BY <3>2, <3>3, <3>4 DEF Kept, SafeToReplace
  <2>3. QED BY <2>1, <2>2 DEF SafeToReplace
<1>12. CASE UNCHANGED vars
  BY <1>12, SafeStays DEF vars
<1>13. QED
  BY <1>1, <1>2, <1>3, <1>4, <1>5, <1>6, <1>7, <1>8, <1>9, <1>10, <1>11, <1>12
     DEF Next, CycleStep

\* A publish replaces only what is safe; a person's edits are on the device.
LEMMA NextTyped ==
  ASSUME Kept, [Next]_vars
  PROVE  NothingTypedIsLost'
<1>1. CASE CacheLost
  BY <1>1 DEF CacheLost, NothingTypedIsLost
<1>2. ASSUME NEW p \in Paths, NEW held \in Typed, Types(p, held)
      PROVE  NothingTypedIsLost'
  <2>1. device'[p] = owed'[p]
    BY <1>2 DEF Types, Kept, Sourced, Tagged, Core, TypeOK, Trees
  <2>2. ASSUME NEW q \in Paths, q # p, owed'[q] # Nothing
        PROVE  device'[q] = owed'[q] \/ Recoverable(q, owed[q])'
    <3>1. owed'[q] = owed[q] /\ device'[q] = device[q]
      BY <1>2, <2>2 DEF Types, Kept, Sourced, Tagged, Core, TypeOK, Trees
    <3>2. QED
      BY <2>2, <3>1, RecoverableStays DEF Kept, Sourced, Tagged, NothingTypedIsLost
  <2>3. ASSUME NEW q \in Paths, q # p
        PROVE  owed'[q] = owed[q]
    BY <1>2, <2>3 DEF Types, Kept, Sourced, Tagged, Core, TypeOK
  <2>4. QED BY <2>1, <2>2, <2>3 DEF NothingTypedIsLost
<1>3. ASSUME NEW p \in Paths, PublishPath(p)
      PROVE  NothingTypedIsLost'
  <2>1. owed' = owed /\ MayReplace(p) /\ ~AboutToBeSpooled(p)
    BY <1>3 DEF PublishPath, MayReplace, AboutToBeSpooled
  <2>2. \A q \in Paths : q # p => device'[q] = device[q]
    BY <1>3 DEF PublishPath, Kept, Sourced, Tagged, Core, TypeOK, Trees
  <2>3. ASSUME NEW q \in Paths, owed[q] # Nothing
        PROVE  device'[q] = owed[q] \/ Recoverable(q, owed[q])
    BY <2>1, <2>2, <2>3 DEF Kept, SafeToReplace, NothingTypedIsLost, HumanHolds
  <2>4. QED
    BY <2>1, <2>3, RecoverableStays DEF Kept, Sourced, Tagged, NothingTypedIsLost
<1>4. CASE UNCHANGED <<device, owed>>
  BY <1>4, RecoverableStays DEF Kept, Sourced, Tagged, NothingTypedIsLost
<1>5. CASE CycleStep /\ \A p \in Paths : ~PublishPath(p)
  BY <1>4, <1>5
     DEF CycleStep, Park, Rebaseline, Overlay, Capture, SpoolWrite, Reset, Fetch,
         CheckoutForward, AdvanceTag, TripsOnLock, ghosts
<1>6. QED
  BY <1>1, <1>2, <1>3, <1>4, <1>5
     DEF Next, CycleStep, SpoolFails, Dies, GitKilled, UpstreamSeeds, UpstreamCommits, vars,
         ghosts

(* With no typing inside a cycle, what the user typed is tracked throughout. *)
LEMMA KeptInvariance == ASSUME ~EditsMidCycle PROVE Spec => []Kept
<1>1. Kept /\ [Next]_vars => Kept'
  BY NextSourced, NextSafe, NextTyped DEF Kept
<1>2. QED BY <1>1, InitKept, PTL DEF Spec

\* What a person last left on the device is there, in the spool or in git,
\* whatever dies when, if nobody types where a running cycle has looked.
THEOREM TypedIsKept == ASSUME ~EditsMidCycle PROVE Spec => []NothingTypedIsLost
BY KeptInvariance, PTL DEF Kept

-----------------------------------------------------------------------------
(* What a cycle reports.                                                   *)

\* Both paths of an entry differ from the tag's commit.
LEMMA EntryNamesDrift ==
  ASSUME NEW base \in Trees, NEW now \in Trees, NEW q \in Changes(base, now),
         NEW p \in Named(EntryFor(base, now, q))
  PROVE  base[p] # now[p]
<1>1. p = q \/ p = RenamedFrom(base, now, q)
  BY DEF Named, EntryFor
<1>2. CASE p = q
  BY <1>2 DEF Changes, Drift
<1>3. CASE p = RenamedFrom(base, now, q)
  <2>1. q \in Paths /\ p \in Paths
    BY DEF Changes, Drift, Named
  <2>2. p \in Sources(base, now, q)
    BY <1>3, <2>1, RenameSource, LocalReplicatorAssumption
  <2>3. QED BY <2>2 DEF Sources, Drift
<1>4. QED BY <1>1, <1>2, <1>3

(* The spool starts empty. *)
LEMMA InitEntries == Init => EntriesAreDrift
BY DEF Init, EntriesAreDrift

(* Every step leaves only genuine drift in the spool. *)
LEMMA NextEntries ==
  ASSUME ~EditsMidCycle, Sourced, EntriesAreDrift, [Next]_vars
  PROVE  EntriesAreDrift'
<1> USE DEF EntriesAreDrift, repoVars, cycleVars, budgets, ghosts
<1>1. CASE Capture
  <2>1. commits[head] \in Trees /\ tree \in Trees /\ tree = device /\ head = tag
    BY <1>1
       DEF Capture, Sourced, Tagged, Core, TypeOK, CloneFollowsCycle, OverlayIsTheDevice, None
  <2>2. \A e \in unspooled' : \E q \in Changes(commits[head], tree) :
          e = EntryFor(commits[head], tree, q)
    BY <1>1 DEF Capture
  <2>3. UNCHANGED <<commits, device, tag>>
    BY <1>1 DEF Capture
  <2>4. QED BY <2>1, <2>2, <2>3, EntryNamesDrift
<1>2. ASSUME NEW e \in unspooled, SpoolWrite(e) PROVE EntriesAreDrift'
  BY <1>2 DEF SpoolWrite
<1>3. CASE SpoolFails
  BY <1>3 DEF SpoolFails
<1>4. CASE \/ \E first \in Seeds : UpstreamSeeds(first)
           \/ \E p \in Paths, held \in Authored : UpstreamCommits(p, held)
  <2>1. UNCHANGED <<device, pc, unspooled, tag>>
    BY <1>4 DEF UpstreamSeeds, UpstreamCommits
  <2>2. pc = "spool" => commits'[tag] = commits[tag]
    BY CommitsStay DEF Sourced, Tagged, Core, TypeOK, CloneFollowsCycle, None
  <2>3. QED BY <2>1, <2>2
<1>5. ASSUME NEW p \in Paths, NEW held \in Typed, Types(p, held) PROVE EntriesAreDrift'
  BY <1>5 DEF Types, Exposed
<1>6. CASE UNCHANGED vars
  BY <1>6 DEF vars
<1>7. CASE pc' # "spool"
  BY <1>7
<1>8. CASE CycleStep
  BY <1>1, <1>2, <1>7, <1>8
     DEF CycleStep, Park, Rebaseline, Overlay, PublishPath, Reset, Fetch, CheckoutForward,
         AdvanceTag, TripsOnLock, EndsTheRun
<1>9. QED
  BY <1>3, <1>4, <1>5, <1>6, <1>7, <1>8 DEF Next, Dies, GitKilled, EndsTheRun, CacheLost

(* The whole inductive invariant, put together from its parts. *)
LEMMA Invariance == ASSUME ~EditsMidCycle PROVE Spec => []IInv
<1>1. Kept /\ EntriesAreDrift /\ [Next]_vars => EntriesAreDrift'
  BY NextEntries DEF Kept
<1>2. Kept /\ EntriesAreDrift => IInv
  BY DEF Kept, Sourced, Tagged, IInv
<1>3. QED BY <1>1, <1>2, InitEntries, KeptInvariance, PTL DEF Spec

\* A path a cycle reports was last written by a person, or by a publish that
\* went beyond the tag.
THEOREM DriftIsNotSelfMade == ASSUME ~EditsMidCycle PROVE Spec => []DriftHasACause
<1>1. IInv => DriftHasACause
  BY DEF IInv, Core, TypeOK, CloneFollowsCycle, EntriesAreDrift, Provenance, DriftHasACause,
         TagNamesWhatWasPlaced, Residue, Named, None
<1>2. QED BY <1>1, Invariance, PTL
=============================================================================
