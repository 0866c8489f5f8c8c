---------------------------- MODULE DeviceSettings ----------------------------
(***************************************************************************)
(* The settings of a device, .obsidian/ in its iCloud tree: seeded once by *)
(* the replication cycle from the baseline its cache clone holds, compared *)
(* on every later cycle, and never written again.  The cycle is the one of *)
(* LocalReplicator, here with the steps that concern .obsidian/; whether   *)
(* it may publish is decided there and chosen here.  The seed copies file  *)
(* by file, between which the device goes on writing, a person may remove  *)
(* the directory, and the cycle may be killed, inside a git command too:   *)
(* nothing here clears the lock file that leaves in the clone.             *)
(***************************************************************************)
EXTENDS Integers

CONSTANTS
  Settings,   \* paths under .obsidian/
  Listed,     \* those the allowlist of baseline_selector admits
  Values,     \* what a file may hold
  Absent,     \* no file at the path
  Torn,       \* a copy cut short
  Nowhere,    \* no commit: no origin history, no LAST_CHECKOUT
  Nobody,     \* no file is being copied
  Baselines,  \* the .obsidian/ trees a commit may hold
  Residues,   \* what a clone may hold there before the first cycle
  MaxCommits, MaxTouches, MaxTroubles  \* bounds

Trees == [Settings -> Values \cup {Absent}]
Empty == [s \in Settings |-> Absent]

ASSUME DeviceSettingsAssumption ==
  /\ Listed \subseteq Settings /\ Nobody \notin Settings
  /\ Absent \notin Values /\ Torn \notin Values \cup {Absent}
  /\ Nowhere \notin Trees
  /\ Baselines \subseteq Trees /\ Residues \subseteq Trees
  /\ MaxCommits \in Nat /\ MaxTouches \in Nat /\ MaxTroubles \in Nat

VARIABLES
  origin,    \* the .obsidian/ of the newest commit, or Nowhere
  parked,    \* that of LAST_CHECKOUT, or Nowhere
  head,      \* that of the commit the clone is on, or Nowhere
  clone,     \* what the clone's .obsidian/ holds on disk
  locks,     \* the lock files a killed git command left in the clone
  device,    \* what the device's holds
  folder,    \* is it there at all?
  marker,    \* the completion marker
  scycle,    \* where the cycle is
  verdict,   \* may it publish?
  attempted, \* did it call the seed?
  tocopy,    \* the files its seed has still to copy
  open,      \* the one it is copying
  unread,    \* those its walk could not reach
  said,      \* the events it logged
  named,     \* the paths it reported as diverged
  placed,    \* observation: the files its seed copied to the end
  ncommits, touches, smishaps  \* how much more of each may come

outside == <<origin, ncommits>>
repo == <<parked, head, clone, locks>>
ondevice == <<device, folder, marker>>
seeding == <<attempted, tocopy, open, unread, placed>>
settingsVars ==
  <<outside, repo, ondevice, scycle, verdict, seeding, said, named, touches, smishaps>>

Places == {"idle", "compare", "fetch", "walk", "copy", "report"}
Events == {"pruneIncomplete", "diverged", "incomparable", "noSource",
           "seedIncomplete", "seeded", "unseeded", "failed"}
Locks == {"config", "index", "ref", "tag"}  \* HEAD's goes with the index's
YesNo == {"yes", "no"}

SettingsTypeOK ==
  /\ {origin, parked, head} \subseteq Baselines \cup {Nowhere}
  /\ clone \in Trees
  /\ locks \subseteq Locks
  /\ device \in [Settings -> Values \cup {Absent, Torn}]
  /\ folder \in YesNo /\ marker \in YesNo
  /\ scycle \in Places
  /\ verdict \in {"publish", "withhold"} /\ attempted \in YesNo
  /\ tocopy \subseteq Listed /\ open \in Listed \cup {Nobody}
  /\ unread \subseteq Settings
  /\ said \subseteq Events /\ named \subseteq Listed /\ placed \subseteq Listed
  /\ ncommits \in Nat /\ touches \in Nat /\ smishaps \in Nat

Trouble == smishaps > 0 /\ smishaps' = smishaps - 1
Smooth == UNCHANGED smishaps

Filled(tree) == {s \in Settings : tree[s] # Absent}

\* Mutant of Selected: the old denylist, which lets a plugin's own data by.
SelectedMutAll(tree) == Filled(tree)

\* select_baseline_paths, of a walk over tree.
Selected(tree) == Filled(tree) \cap Listed

\* is_dir: git keeps no empty directories.
SourceThere == Filled(clone) # {}

SettingsInit ==
  /\ origin \in Baselines \cup {Nowhere}
  /\ parked = Nowhere /\ head = Nowhere
  /\ clone \in Residues
  /\ locks = {}
  /\ device = Empty /\ folder = "no" /\ marker = "no"
  /\ scycle = "idle"
  /\ verdict = "withhold" /\ attempted = "no"
  /\ tocopy = {} /\ open = Nobody /\ unread = {} /\ said = {} /\ named = {} /\ placed = {}
  /\ ncommits = MaxCommits /\ touches = MaxTouches /\ smishaps = MaxTroubles

\* The process is gone, and with it what it remembered.
EndsTheCycle ==
  /\ scycle' = "idle"
  /\ verdict' = "withhold" /\ attempted' = "no" /\ tocopy' = {} /\ open' = Nobody
  /\ unread' = {} /\ placed' = {} /\ named' = {}

-----------------------------------------------------------------------------
(* The cycle, up to the checkout of what it fetched.                       *)

\* The locks the next step's git commands take.
Taken ==
  CASE scycle = "idle" -> {"config"} \cup (IF parked = Nowhere THEN {} ELSE {"index"})
    [] scycle = "compare" -> {"index"}
    [] scycle = "fetch" -> {"ref"} \cup (IF origin = Nowhere THEN {} ELSE {"index"})
    [] scycle = "report" /\ verdict = "publish" -> {"tag"}
    [] OTHER -> {}

Unlocked == Taken \cap locks = {}

\* A checkout writes and removes what git tracks; .obsidian/ is ignored, so
\* clean -fd leaves whatever else is there.
CheckedOut(tree) ==
  [s \in Settings |->
     IF tree[s] # Absent THEN tree[s]
     ELSE IF head # Nowhere /\ head[s] # Absent THEN Absent ELSE clone[s]]

\* Mutant of Pruned: the residue stays and nothing is said.
PrunedMutNever(tree, residue, log) == clone' = residue /\ said' = log /\ Smooth

\* _prune_obsidian_residue may fail without ending the cycle.
Pruned(tree, residue, log) ==
  \/ clone' = tree /\ said' = log /\ Smooth
  \/ clone' = residue /\ said' = log \cup {"pruneIncomplete"} /\ Trouble

NewCycle ==
  /\ scycle = "idle" /\ Unlocked
  /\ UNCHANGED <<outside, parked, locks, ondevice, verdict, seeding, named, touches>>

Park ==
  /\ NewCycle /\ parked # Nowhere
  /\ head' = parked
  /\ Pruned(parked, CheckedOut(parked), {})
  /\ scycle' = "compare"

\* A lost or new clone has nothing to compare with.
SkipPark ==
  /\ NewCycle /\ parked = Nowhere
  /\ said' = {}
  /\ scycle' = "fetch"
  /\ UNCHANGED <<head, clone>> /\ Smooth

\* diverged_baseline_paths, of a device that was seeded: against the clone on
\* LAST_CHECKOUT, by the seed's own selection.  What cannot be read, or iCloud
\* has evicted, is said to be missing from the answer.
Compare ==
  /\ scycle = "compare"
  /\ IF marker = "yes"
     THEN \E unseen \in SUBSET Settings :
            /\ IF unseen = {} THEN Smooth ELSE Trouble
            /\ named' = {s \in Selected(clone) \ unseen : device[s] # clone[s]}
            /\ said' = said \cup (IF named' = {} THEN {} ELSE {"diverged"})
                            \cup (IF unseen = {} THEN {} ELSE {"incomparable"})
     ELSE UNCHANGED <<named, said>> /\ Smooth
  /\ scycle' = "fetch"
  /\ UNCHANGED <<outside, repo, ondevice, verdict, seeding, touches>>

\* Mutant of Unseeded: only a cycle that publishes reports.
UnseededMutGated == verdict = "publish" /\ attempted = "no" /\ marker = "no" /\ SourceThere

\* _report_unseeded_baseline.
Unseeded == attempted = "no" /\ marker = "no" /\ SourceThere

Report == said' = said \cup (IF Unseeded THEN {"unseeded"} ELSE {})

FetchNothing ==
  /\ scycle = "fetch" /\ Unlocked /\ origin = Nowhere
  /\ Report
  /\ EndsTheCycle
  /\ UNCHANGED <<outside, repo, ondevice, touches>> /\ Smooth

\* A cycle with nothing to compare with has no drift to withhold for.
FetchAndCheckOut ==
  /\ scycle = "fetch" /\ Unlocked /\ origin # Nowhere
  /\ head' = origin
  /\ verdict' \in {"publish"} \cup (IF parked = Nowhere THEN {} ELSE {"withhold"})
  /\ IF verdict' = "publish" /\ marker = "no"
     THEN /\ attempted' = "yes" /\ scycle' = "walk"
          /\ Pruned(origin, CheckedOut(origin), said)
     ELSE /\ scycle' = "report"
          /\ clone' = CheckedOut(origin)
          /\ UNCHANGED <<attempted, said>> /\ Smooth
  /\ UNCHANGED <<outside, parked, locks, ondevice, tocopy, open, unread, placed, named,
                 touches>>

\* The clone has no commit yet and the checkout is not forced: git refuses to
\* write over a file that is there, unless one that is there ignores it.
CheckoutRefused ==
  /\ scycle = "fetch" /\ Unlocked /\ origin # Nowhere /\ head = Nowhere
  /\ Filled(origin) \cap Filled(clone) # {}
  /\ said' = said \cup {"failed"}
  /\ EndsTheCycle
  /\ UNCHANGED <<outside, repo, ondevice, touches>> /\ Smooth

-----------------------------------------------------------------------------
(* seed_baseline.                                                          *)

SeedVars == <<outside, repo, verdict, attempted, named, touches>>

\* The walk: what it cannot read is left out of the copy and remembered.
Walk ==
  /\ scycle = "walk" /\ SourceThere
  /\ \E unseen \in SUBSET Filled(clone) :
       /\ IF unseen = {} THEN Smooth ELSE Trouble
       /\ unread' = unseen /\ tocopy' = Selected(clone) \ unseen
  /\ folder' = "yes"
  /\ scycle' = "copy"
  /\ UNCHANGED <<device, marker, open, placed, said, SeedVars>>

NoSource ==
  /\ scycle = "walk" /\ ~SourceThere
  /\ said' = said \cup {"noSource"}
  /\ scycle' = "report"
  /\ UNCHANGED <<ondevice, tocopy, open, unread, placed, SeedVars>> /\ Smooth

\* copy2 opens the target for writing, then fills it.
OpenCopy ==
  /\ scycle = "copy" /\ open = Nobody
  /\ \E s \in tocopy : open' = s /\ device' = [device EXCEPT ![s] = Torn]
  /\ folder' = "yes"
  /\ UNCHANGED <<marker, scycle, tocopy, unread, placed, said, SeedVars>> /\ Smooth

\* A directory removed meanwhile takes the open file with it.
FillCopy ==
  /\ scycle = "copy" /\ open # Nobody
  /\ device' = IF folder = "yes" THEN [device EXCEPT ![open] = clone[open]] ELSE device
  /\ tocopy' = tocopy \ {open} /\ placed' = placed \cup {open}
  /\ open' = Nobody
  /\ UNCHANGED <<folder, marker, scycle, unread, said, SeedVars>> /\ Smooth

\* Mutant of Vouchable: the marker does not wait for what was not read.
VouchableMutUnread == tocopy = {} /\ open = Nobody

\* Is the seed complete?
Vouchable == tocopy = {} /\ open = Nobody /\ unread = {}

Mark ==
  /\ scycle = "copy" /\ Vouchable /\ folder = "yes"
  /\ marker' = "yes"
  /\ said' = said \cup {"seeded"}
  /\ scycle' = "report"
  /\ UNCHANGED <<device, folder, tocopy, open, unread, placed, SeedVars>> /\ Smooth

WithholdMark ==
  /\ scycle = "copy" /\ tocopy = {} /\ open = Nobody /\ unread # {}
  /\ said' = said \cup {"seedIncomplete"}
  /\ scycle' = "report"
  /\ UNCHANGED <<ondevice, tocopy, open, unread, placed, SeedVars>> /\ Smooth

\* The directory was removed after the last copy: the marker cannot be written.
CannotMark ==
  /\ scycle = "copy" /\ Vouchable /\ folder = "no"
  /\ EndsTheCycle
  /\ UNCHANGED <<outside, repo, ondevice, said, touches>> /\ Smooth

-----------------------------------------------------------------------------
(* The end of the cycle: the publish itself leaves .obsidian/ alone.       *)

Finish ==
  /\ scycle = "report" /\ Unlocked
  /\ Report
  /\ parked' = IF verdict = "publish" THEN head ELSE parked
  /\ EndsTheCycle
  /\ UNCHANGED <<outside, head, clone, locks, ondevice, touches>>
  /\ Smooth

\* A failed git or rsync command, a copy that fails, a kill between two.
Dies ==
  /\ scycle # "idle" /\ Trouble
  /\ EndsTheCycle
  /\ UNCHANGED <<outside, repo, ondevice, said, touches>>

\* A git command that does not end well may have moved some of the clone to
\* the commit it was checking out.
Moves(paths) ==
  LET target == IF scycle = "idle" THEN parked ELSE origin
  IN /\ paths # {} => /\ scycle \in {"idle", "fetch"} /\ "config" \notin locks'
                      /\ parked # Nowhere /\ target # Nowhere
     /\ clone' = [s \in Settings |-> IF s \in paths THEN CheckedOut(target)[s] ELSE clone[s]]

\* What this cycle has logged so far.
SaidSoFar == IF scycle = "idle" THEN {} ELSE said

\* Killed inside a git command, which may leave a lock it held (a signal it
\* can handle lets it tidy up).
GitKilled ==
  /\ Taken # {} /\ Unlocked /\ Trouble
  /\ \E lock \in Taken : locks' \in {locks, locks \cup {lock}}
  /\ \E paths \in SUBSET Settings : Moves(paths)
  /\ said' = SaidSoFar
  /\ EndsTheCycle
  /\ UNCHANGED <<outside, parked, head, ondevice, touches>>

\* Git finds a lock in its way: the cycle fails, and says so, and the lock is
\* still there.  The tag is the last step, after the report.
StopsOnLock ==
  /\ ~Unlocked
  /\ locks' = locks
  /\ \E paths \in {{}, Settings} : Moves(paths)
  /\ said' = SaidSoFar \cup {"failed"}
                       \cup (IF scycle = "report" /\ Unseeded THEN {"unseeded"} ELSE {})
  /\ EndsTheCycle
  /\ UNCHANGED <<outside, parked, head, ondevice, touches>> /\ Smooth

-----------------------------------------------------------------------------
(* Everyone else.                                                          *)

Others == <<scycle, verdict, seeding, said, named>>
Touched == touches > 0 /\ touches' = touches - 1

\* Obsidian, on any device of the iCloud account, writes or removes a setting.
Touch ==
  /\ Touched
  /\ \E s \in Settings, v \in Values \cup {Absent} :
       /\ v # Absent \/ folder = "yes"
       /\ device' = [device EXCEPT ![s] = v]
  /\ folder' = "yes"
  /\ UNCHANGED <<outside, repo, marker, Others, smishaps>>

\* The reset of docs/local-replicator.md.
Reset ==
  /\ Touched /\ folder = "yes"
  /\ device' = Empty /\ folder' = "no" /\ marker' = "no"
  /\ UNCHANGED <<outside, repo, Others, smishaps>>

\* The committer records its baseline, or a later one.
Commit ==
  /\ ncommits > 0 /\ ncommits' = ncommits - 1
  /\ \E b \in Baselines \ {origin} : origin' = b
  /\ UNCHANGED <<repo, ondevice, Others, touches, smishaps>>

\* The cache clone is lost, its tag with it.
LoseClone ==
  /\ scycle = "idle" /\ Trouble /\ (head # Nowhere \/ locks # {})
  /\ parked' = Nowhere /\ head' = Nowhere /\ clone' = Empty /\ locks' = {}
  /\ UNCHANGED <<outside, ondevice, Others, touches>>

CycleStep ==
  \/ Park \/ SkipPark \/ Compare \/ FetchNothing \/ FetchAndCheckOut \/ CheckoutRefused
  \/ Walk \/ NoSource \/ OpenCopy \/ FillCopy \/ Mark \/ WithholdMark \/ CannotMark
  \/ Finish \/ StopsOnLock

SettingsNext == CycleStep \/ Dies \/ GitKilled \/ Touch \/ Reset \/ Commit \/ LoseClone

SettingsSpec == SettingsInit /\ [][SettingsNext]_settingsVars

-----------------------------------------------------------------------------
\* What the marker says, and what the device is given: the marker is written
\* only by an attempt that copied all the commit has of the allowlist, and
\* every file a seed places, or a comparison names, is one the commit holds,
\* whatever an earlier cycle left in the clone, unless the log owns up to it
\* (seed_baseline, _prune_obsidian_residue).
SeedIsTheCommit ==
  [][/\ marker = "no" /\ marker' = "yes" => Filled(head) \cap Listed \subseteq placed
     /\ \A s \in placed' \ placed :
          s \in Listed /\ (head[s] # clone[s] => "pruneIncomplete" \in said)
     /\ \A s \in named' \ named :
          s \in Listed /\ (head[s] = Absent => "pruneIncomplete" \in said)]_settingsVars

\* A device does not stay unconfigured in silence: again and again it is
\* seeded, or there is nothing to seed it from, or a cycle's log says why not:
\* its seed is missing or incomplete, or the cycle itself failed, as every one
\* does that a stale lock or a refused checkout stops (a fetch that fails says
\* so in its retries and its traceback, all others in commands/replicate.run;
\* _report_unseeded_baseline).
SeededOrSaidWhy ==
  []<>(\/ marker = "yes" \/ ~SourceThere
       \/ {"unseeded", "seedIncomplete", "failed"} \cap said # {})

=============================================================================
