# A verification of obsidian-tools

obsidian-tools keeps an Obsidian vault: a cluster-side vault on a file server, a
git history of it, copies on devices that reach it through iCloud, an agent that
writes to it interactively, and a batch pipeline that imports and reworks notes
in bulk.  The programs are Python processes started by a scheduler; they share
the vault, two streams on a NATS broker, a Kubernetes Deployment and a Lease, a
git repository and a spool directory.  This directory holds TLA+ models of the
parts where those meet, what TLC checks of them and what TLAPS proves.

Paths below are relative to `src/obsidian_tools/`.

## Inventory

| Component | Source | State it keeps | Operations | Talks to |
| --- | --- | --- | --- | --- |
| Agent instance and lease | `batch_processor/agent_instance.py` | `spec.replicas` of the Deployment, the `Lease`'s spec | acquire, renew, release; stop, start | Kubernetes API, one object per request |
| Watchdog | `batch_processor/watchdog.py`, `commands/watch_agent_instance.py` | none | one pass: read both, decide, write | the same two objects |
| Batch processor | `batch_processor/processor.py`, `preflight.py`, `patching.py`, `dependency.py`, `fairness.py` | within a run: the blocked creates, the count of yields | drain: yield, fetch, read, decide, write, settle, park | broker, MCP server, agent instance |
| Consumer | `batch_processor/consumer.py` | the durable consumer's configuration; the broker has the rest | bind, fetch, ack, nak, term, dead-letter | JetStream |
| MCP client | `batch_processor/mcp_client.py`, `envelope.py`, `transport.py` | a session id | read, write, delete, append, with retries | the vault's MCP server |
| Batch producer | `batch_producer/` | none | diff a work tree, build chunks, refuse stale ones, publish | git, JetStream |
| Local replicator | `local_replicator/cycle.py`, `drift.py`, `clone.py`, `rsync_ops.py`, `tag.py` | the cache clone, its tag `LAST_CHECKOUT` | one cycle: park, overlay, spool, reset, fetch, check out, publish, tag | origin, the iCloud tree, the spool |
| Spool and drainer | `local_replicator/spool.py`, `drainer.py` | the spool directory | write an entry, drain in order | a sink |
| Device baseline | `local_replicator/device_baseline.py` | the marker in the device's `.obsidian/` | seed once, report divergence | clone, iCloud tree |
| Git committer | `commands/commit.py`, `vault_git/` | the git-dir, the remotes | provision, stage, guard, commit, push | origin, NAS |
| Lint pass | `lint_pass/` | none | read the vault, decide, fix, report | MCP server |
| Admission, schema, exporter, retry, CLI | `admission/`, `vault_schema/`, `vault_exporter/`, `retry.py`, `cli.py`, `config.py` | none that outlives a call | pure rules, a scrape, a loop round a call | |

What is hard, and what makes each part correct:

* **Instance and lease.**  Two objects and no request that writes both, so order
  stands in for atomicity.  Killed runs, failed calls, calls that landed with
  their answer lost, a watchdog that acts on what it read, hand-run Jobs beside
  the scheduled ones, an operator's own stop.  Correct: no run strands the
  instance, no live run is cleaned up after, interactive writers and a drain
  never meet, an operator's hold is kept, a dead run's leavings go away.
* **Batch processor.**  At-least-once delivery over a vault without
  transactions: crashes and failures between any two calls, ack deadlines that
  expire under a working run, a last delivery, other writers between reading and
  writing.  Correct: nothing is settled ahead of its work, nothing is written
  over what the patch was not made against, creates never clobber, the raw layer
  is written once, dependents of a failed chunk are not applied, every chunk is
  settled and every run ends.
* **Local replicator.**  Two trees edited by different people, one baseline,
  one process killed anywhere.  Correct: nothing typed on the device is lost, the
  tag never runs ahead of the device, a cycle never takes its own leavings for an
  edit, the device converges.
* **Committer.**  A commit that was not pushed, a lost git-dir, two remotes that
  differ, a mass deletion that is a failed mount, locks and an index left by a
  killed run, a baseline of settings captured once and for ever.  Correct: nothing
  committed is dropped, histories never fork silently, a lost volume is never
  committed, the baseline is whole and frozen, what the vault holds reaches origin.
* **Spool and drainer.**  A write killed before its rename, drains that overlap
  each other and the writer, an entry the sink is stuck on.  Correct: the cycle,
  which overwrites a person's edits on the strength of an entry, can rely on it;
  an entry leaves only after the sink took it, and none holds up the others.
* **Device baseline.**  A seed copied file by file while the device writes, a
  person resets or the cycle dies; residue of other commits in the clone.
  Correct: the marker vouches for a whole seed, the seed is the commit's and the
  allowlist's, and a device does not stay unconfigured in silence.
* **Lint pass.**  Every write is a read, a comparison and a replacement on
  separate calls, without a precondition, retried without reading again; passes
  overlap, and their record is another write.  Correct: edits survive, a fixed
  note is finished and claims nothing nobody said, a pass that exits zero has
  told all it did, and notes get normalised.
* **Batch producer and patches.**  An index read call by call, a batch enqueued
  chunk by chunk, an answer lost, a run repeated from the start.  Correct: a
  batch cut short or enqueued twice makes no wrong edit, and what is staged
  arrives.  A patch applied by the processor's own code gives the edited note to
  the last byte.

`PROJECT.json` lists every hazard at its line with the properties that cover it,
or the reason why none does.

## Modules

| Module | Models | State | Actions |
| --- | --- | --- | --- |
| `AgentInstance` | the instance, its lease, the runs' calls, the watchdog, the operator | `replicas`, `lease` are the two API objects; `pc`, `wd` where each process is and what the pass read | one per API call, each with its three outcomes (answered, refused, landed but unanswered); `Crash`; `Tick` |
| `AgentInstanceProofs` | | | theorems about it |
| `ChunkLedger` | what the pipeline promises a producer | chunks published, applied, parked, vanished | `Publish`, `Apply`, `Park`, `Vanish`, in turn |
| `BatchProcessor` | the drain, the broker's side of it, the vault and its other writers | `stream` .. `claim` are the broker's, `vault` the vault, `item` .. `yields` a run's memory | one per call over a connection; `Decide` is all a run computes between its last read and its first write |
| `BatchProcessorProofs` | | | theorems about it |
| `LocalReplicator` | the replication cycle, origin, a person at the device | `tag`, `known`, `head`, `tree`, `locks` are the clone's, `commits` origin's, `device` the iCloud tree, `spool` every entry ever written | one per git command, one per path of an rsync; `Dies` between any two, `GitKilled` inside a git command, `TripsOnLock` after it |
| `LocalReplicatorProofs` | | | theorems about it |
| `VaultCommitter` | the committer's runs, the remotes, the vault and its volume | `local`, `fetched`, `index`, `frozen`, `locked` are the git-dir's, `remote` the remotes', `vault` and `mount` the volume's | one per git command that matters, one per path frozen and per remote pushed to; `Dies` anywhere |
| `VaultCommitterProofs` | | | theorems about it |
| `SpoolStore` | what the spool promises the replication cycle | entries held, taken, relied on | `Store`, `Rely`, `Take`, `Remove` |
| `SpoolDrainer` | the spool directory, its writer, the drains | `name`, `body` are the files; `wpc`, `dpc` where the writer and each drain are, `listed` what a drain has still to come to | one per file operation of `write_spool_entry` and `drain_once`; kills of either |
| `DeviceSettings` | what the cycle does about `.obsidian` | `origin`, `parked`, `head`, `clone`, `locks` are git's, `device`, `folder`, `marker` the device's, `said` the cycle's log | one per step of the cycle and of the seed, two per copied file; `CheckoutRefused`, `Dies`, `GitKilled`, `StopsOnLock`; Obsidian's `Touch`, a `Reset`, `LoseClone` |
| `DeviceProofs` | | | theorems about `SpoolDrainer`, about `DeviceSettings`, and of the types of both together |
| `Normalise` | the lint pass's pure part: what normalisation makes of a front matter, what admission refuses | | operators |
| `LintPass` | passes over the vault, other writers, the MCP server | `vault`, `audit`, `late` outlive a pass; `snap`, `todo`, `inhand`, `applied`, `failing` are a pass's memory | one per file read, call and record; `Killed`; `LandLate`; `Edit` |
| `LintPassProofs` | | | theorems about it and about `Normalise` |
| `Patching` | reading and applying the hunks of a patch, against any patch git may make | `old`, `new`, `patch`, `result` | `Produce` (git), `ApplyPatch` |
| `PatchingProofs` | | | theorems about it |
| `BatchProducer` | the producer's runs, the owner of its checkout, and what the processor makes of the stream | `index`, `stream`; `entries`, `units`, `chunks`, `sent` are a run's memory; `vault`, `taken`, `blocked` the drain's | one per git call, per publish and per way a chunk is settled; `CallFails`, `ProducerDies`, `ApplyUnsettled`, `Restage` |
| `ImportProofs` | | | theorems about `BatchProducer` |

How they fit together: `BatchProcessor` uses `ChunkLedger` as its promise, as
`SpoolDrainer` uses `SpoolStore`.  `LintPass` extends `Normalise`.
`BatchProducer` drains its stream itself, a chunk at a time (`ApplyChunk`,
`SettleDone`, `ParkDependent`, `ParkRefused`): there the chunks are the ones the
producer makes of real changes, where `BatchProcessor` takes any chunk and has
the reads, writes, failures and redeliveries of each.  `Patching` is the
arithmetic both take as given.  `LocalReplicator` takes an entry as stored
when the spool says so, which `SpoolDrainer` shows, and leaves `.obsidian` to
`DeviceSettings`.

`MC*` modules give the constants of the runs their values; `MCDevice` and
`MCImport` each explore two specifications that share no state, one at rest while
the other runs.  A definition named
`XMut...` is a plausible bug in `X`, kept beside it: no specification uses it,
and each property listed below is falsified when one of them takes `X`'s place.

Variables marked as observation record history for the properties; no action's
guard reads them.

### Abstractions

* Contents, paths, batches and runs are model values.  A patch is what it does to
  each path of its chunk (`op`, the content it was made against, the content it
  leaves); a chunk whose text does not parse or does not apply has a `form`.
* In `AgentInstance` the drain is a phase in which the run may renew its lease.
  `MaxGap` is the longest time a live run lets pass between two signs of life;
  the program bounds it only by its timeouts and retries, so `MaxGap < TTL` is an
  assumption: without it the watchdog restarts the instance under a slow run.
* In `BatchProcessor` a call stands for all its retries.  A failed write may have
  landed, at the moment it fails and not later.  What the program takes as fatal
  outside a chunk (a failed renewal, a connection lost, a depth that cannot be
  read) is `Crash`.
* In `LocalReplicator` a rename is one between identical contents; `.obsidian/`
  and the noise list are outside both rsyncs and outside the model; a person's
  edits count from the first tag on, and not across the loss of the clone, which
  docs/adr's ADR-0025 gives up on.  `EditsMidCycle` says whether a person may
  type at a path a running cycle has read and not yet published.
* In `LocalReplicator` and `DeviceSettings` a git command that is killed leaves
  one of the lock files it takes, or none, and the work tree moved at any of the
  paths it was to move; the next command that takes the same lock fails.  Which
  command takes which lock was taken from git itself.
* In `VaultCommitter` a branch is the sequence of its commits, each with a number
  of its own; the settings are what the allowlist takes of `.obsidian`, which the
  editor makes in one step and afterwards only edits; the walk of `.obsidian` and
  the forced add are one step.  What git does with the index was taken from git
  itself: a forced add fails for the paths that have their skip-worktree bit,
  setting the bit fails for a path not in the index, `read-tree` clears the bits,
  `add --all` leaves a path that has it alone.  Runs do not overlap (the CronJob
  forbids it), pull requests change nothing under `.obsidian`, and a read of a ref
  does not fail.
* In `SpoolDrainer` an entry is its number in the order of the file names, and its
  text is there in part or whole.  A power cut that takes back a rename (the
  directory is not synced) is left out.
* In `DeviceSettings` `.obsidian` is three files, two of them on the allowlist.
  Whether a cycle that compared may publish is `LocalReplicator`'s to decide and
  is free here; one with nothing to compare with always may.  Symbolic links and
  files iCloud has evicted are among what a walk or a
  comparison cannot read; an evicted marker, which the code would take for none,
  is left out.
* In `Normalise` a text is a model value that the code can tell from others: does
  it parse as a date, what is it in lower case.  In `LintPass` a note is its front
  matter, a hash is the note, a pass's attempts at a write are steps of their own,
  and a write given up on may still be carried out.  The report, the log line and
  the digest count for their failure alone; all passes are of one day.
* In `BatchProducer` a file's diff is its two sides and `base_rev` is `HEAD`, the
  default.  config.py:233 says one setting serves the diff and the hashes; the
  diff (`GitRunner.staged_patch_bytes`) takes no revision, so another value
  makes chunks the pipeline refuses.  Git prints no text of contents with a NUL
  byte, which the patch reader refuses, as it does the creation or deletion of an
  empty file; text that is not UTF-8 ends the producer's run.  The drain's reads
  and writes succeed and nobody else writes to the vault.  What a diff links to
  and what admission refuses of a path are constants, `Links` and `Unfit`.  How many
  bytes git's text of some diffs has is a constant, `PatchBytes`, any number for each.  There are finitely many
  paths, numbered in the order git lists them.
* In `Patching` git is any script that keeps, deletes and inserts lines and turns
  the one side into the other, with any number of context lines; a hunk's header
  is its old start and its counts, a line its kind and text.
* Wording, logging, exit codes and metrics are left out, but for the zero or not
  of the committer, the lint pass and the producer, and the events of the device
  baseline that `SeededOrSaidWhy` is about.

## Runs

| Run | Question | Bounds |
| --- | --- | --- |
| `AgentInstance` | do crashes, failed calls and overlaps strand the instance, clean up after the living, or undo a hold?  Does the instance come back, does debris go? | two runs, TTL 2, gap 1, leases taken or renewed until 2, one failed call, two operator interventions, hand-run Jobs allowed |
| `BatchRun` | is each answer to the broker behind the work, and does the pipeline implement `ChunkLedger`? | one run at a time, three chunks of two batches, two faults, two deliveries |
| `BatchOverlap` | what may never be overwritten, and is what the broker takes as settled accounted for? | two runs, any one of eight chunks, two faults, a foreign write, three vaults |
| `BatchLive` | is every chunk settled, and does every run end? | one run, two chunks, two faults, one yield, a promotion stream that comes and goes |
| `BatchDocVanish` | a sentence of a test | one chunk and two faults |
| `Replica` | is an edit lost, does the tag lie, is a leftover taken for an edit?  Does the device converge? | a note and a picture, three commits, two edits, one failure or kill, one lost clone |
| `ReplicaDocTyping` | a sentence of a test's docstring | see the cfg |
| `Committer` | is a commit lost, does history fork, does the baseline change, is a loss committed, does success mean recorded?  Does what the vault holds reach origin? | two files, two settings, two remotes, any three of: edits, kills, failures, bad reads, blank volumes, lost git-dirs, merges |
| `CommitterDocJam` | a comment on what a failed run leaves behind | one remote, one fault |
| `Device` | is an entry of the spool ever lost, seen in part, or held up by another?  What does the seed's marker vouch for, and can a device stay unconfigured unnoticed? | three entries, one of them stuck, two drains, two mishaps; three settings, one later baseline, two writes or resets at the device, two failures |
| `Lint` | is an edit overwritten, a record missing, a fixed note unfinished?  Does every note get normalised? | any block of four fields and an unknown key, one pass; or three notes of three zones, two passes, one edit, one failure |
| `Import` | does what is staged arrive, and nothing else, and what may be missing?  Are the chunks as few as they can be?  Does a patch rebuild the note? | changes at up to three of five paths, five contents (one binary, one not UTF-8, one empty), a raw-layer path, a link, a note admission refuses; two runs, one fault, one restage; notes of up to three lines, any patch of them |

Why the bounds are enough.  Two runs are one more than the lease and the consumer
are designed for, which is where overlap begins; a third acts as one of the two.
TTL 2 and gap 1 are the least numbers with a gap shorter than the TTL and room
for a tick on either side.  Two deliveries are a first and a last one, and the code
distinguishes nothing else.  Three chunks are a failed one, one that depends on it,
and one that depends on that; two batches tell the keying of the blocked set.
Two faults are the one that starts a recovery and one that interrupts it.  In the
replicator three commits are the tag's, a fetched one and a newer one; two
paths are both ends of a rename.  In the committer two settings are the least a
baseline can be part of; three events are the loss of the git-dir, a fault in the
run that recovers from it and one in the run after, or an edit, a merge and a
fault; with four the safety properties hold too (six million states).  In the
replicator one failure is a cycle cut short anywhere, the next one following on
what it left; with two (and no liveness) the safety properties hold as well.  Of
the spool's three entries one is stuck and stands before the others; the second
drain removes what the first has listed.  Two troubles of a seed are one that
cuts it short and one in the cycle that repeats it.  The lint pass's two attempts
at a write are a first and a last one.  Three staged paths hold a rename, a
change beside it, and both sides of a budget; two producer runs are one that
is cut short and one that repeats it, over chunks that are there already.  Three
lines are a hunk at the start, one at the end, and a line between them that a
context of none leaves out.

`SYMMETRY` is used for runs in safety runs only.  Deadlock is checked except in
two runs, in which the system may really stop: `Device`, where all entries are
drained, and `Import`, where the producer is a command somebody runs a few times
and a patch is applied once.

What the violations show is in `PROJECT.json` under "findings".  Three more
sentences were found not to hold and are recorded here only.
`agent_instance.py:22` says the order of the writes keeps "stopped with no lease"
from being reached; a watchdog pass that decided to drop a stale lease drops the
one a new run took since, and if that run dies the instance is left so.
`tests/test_local_replicator_crash_injection.py:531` says content a publish placed
is recorded as matching upstream; the comparison (cycle.py:418) is with the fetched
head, so what an interrupted publish of an older one placed is recorded as
differing.
A third: `cycle.py:54` calls a cycle idempotent from any starting state, and the
clone it starts from is repaired but for git's lock files.  A `config.lock` or an
`index.lock` that a killed git command left ends every later cycle at its first
steps, and a `LAST_CHECKOUT` lock every publishing one at its last, until somebody
removes the file or the clone is lost.  The committer clears such files
(`provisioning.py:98`); the replicator has no counterpart.  Checked without its
exception for `locks`, `DeviceCatchesUp` is violated so.  No safety property is:
the lock stops a cycle, and it stops it loudly.

### Fairness

* `AgentInstance`: weak fairness of a live run's own steps (every call has a
  timeout and bounded retries, and `_drain` ends with the stream or with too many
  yields), of the watchdog's passes (a CronJob, a process of its own), and of
  time.  Nothing is assumed of calls that fail: the liveness properties hold once
  `MaxFaults` is used up.
* `BatchProcessor`: weak fairness of each run's steps and of the schedule that
  starts runs, of the ack deadline and of a nak's delay.  None of the promotion
  stream nor of other writers: `BatchesDrain` asks that the promotion stream is
  quiet in the end where it says that chunks are settled, and not where it says
  that runs end.
* `LocalReplicator`: weak fairness of a cycle's steps, that which fails at a lock
  among them; cycles are scheduled for ever.  `DeviceCatchesUp` leaves out two ways
  of not getting there: a binary that exists nowhere else, which holds the publish
  back by design, and a lock that a killed git command left.
* `VaultCommitter`: weak fairness of a run's steps, its start by the schedule
  among them.  None of the environment: `EditsReachOrigin` is about what the vault
  is left holding when nothing more goes wrong, blank volume or not, and leaves out
  three ways of not getting there that the code means to have a person end: the
  guard's refusal, diverged histories, and the jam `CommitterDocJam` shows, which
  it does not mean to have.
* `SpoolDrainer`: weak fairness of each drain's steps (a schedule starts drains
  for ever, and a sink returns or raises).  None of the writer, none of kills.
* `DeviceSettings`: weak fairness of the cycle's steps (`Cycled` in `MCDevice`, as
  `Drained` is a drain's); nothing says that a cycle may ever publish, and a lock or
  a refused checkout may stop every one, which is why `SeededOrSaidWhy` is about the
  log too.  A cycle that fails says so: `replicate.py` logs `cycle_failed`, and a
  fetch given up on has its retries' warnings and a traceback.
* `LintPass`: weak fairness of each pass's steps, the schedule that starts passes
  among them, and of a late write: the server carries out or drops what it took.

## Proofs

`AgentInstanceProofs` proves for any set of runs and any values of the bounds
(tlapm checks every step):

| Theorem | States | Assumes |
| --- | --- | --- |
| `TypeCorrect` | `Spec => []TypeOK` | `AgentInstanceAssumption` |
| `StopHasADeadline` | `Spec => []NeverStranded` | and `MaxGap < TTL` |
| `CleanupSparesTheLiving` | `Spec => []OnlyTheDeadAreCleanedUp` | and `MaxGap < TTL` |
| `DrainIsExclusive` | `Spec => []DrainHasTheDoor` | and `MaxGap < TTL` |
| `HoldsSurvive` | `Spec => []HoldsAreKept` | and `MaxGap < TTL` |

None of the four safety properties is inductive.  `IInv` (at the end of
`AgentInstance`) adds what they rest on, all but the first two lines under the
hypothesis that no run has acquired the lease in a disputed way: at most one run
lives; a live run's lease is as fresh as its last sign of life, so it has not
expired by the pass's own clock reading, which is never ahead of the clock; the
lease is released only after a start; a run that stopped the instance behind a
pass that saw it running has a deadline beyond that pass's reading; a pass about
to start the instance has a lease to release; and a hold is what it says.  The
watchdog's release is the step that needs most of it: it must not take away the
deadline of an instance a run has stopped.

`LocalReplicatorProofs` proves for any paths, contents and seeds and any number
of commits, edits, failures and lost clones:

| Theorem | States | Assumes |
| --- | --- | --- |
| `TypeCorrect` | `Spec => []TypeOK` | `LocalReplicatorAssumption` |
| `TagFollowsTheDevice` | `Spec => []TagNamesWhatWasPlaced` | the same |
| `TypedIsKept` | `Spec => []NothingTypedIsLost` | and `~EditsMidCycle` |
| `DriftIsNotSelfMade` | `Spec => []DriftHasACause` | and `~EditsMidCycle` |

`~EditsMidCycle` is what `ReplicaDocTyping` shows cannot be dropped: the code has
no answer to a note saved between the overlay's read of it and the publish.
Again none is inductive.  `IInv` (at the end of `LocalReplicator`) is built in
layers, each proved from the ones before it:

1. `Core`: types, where `HEAD` is in each phase (`CloneFollowsCycle`), and that
   the tag is never ahead of the fetched ref (`KnownIsAhead`).
2. `PlacedByNow`: the paths a publish is done with are as its commit has them.
   The tag moves when none is left, which gives `TagNamesWhatWasPlaced`.
3. `OverlayIsTheDevice`: the overlaid paths of the work tree are the device's.
   `Provenance`: a path holds what was last placed there unless a person had the
   last word.  `NothingOwedUntracked`: before the first tag no typing is owed.
4. `SafeToReplace`: what a person typed at a path that a publish may still
   replace is in a commit, in the spool, or in an entry about to be spooled.
   Capturing every difference from the tag, and spooling all of them before the
   reset, keeps it, and it gives `NothingTypedIsLost`.
5. `EntriesAreDrift`: each entry waiting to be spooled names paths at which the
   device differs from the tag's commit; with `Provenance`, `DriftHasACause`.

`DeviceProofs` proves of the spool, for any number of entries, any set of drains, any set
of entries the sink is stuck on and any number of mishaps:

| Theorem | States | Assumes |
| --- | --- | --- |
| `SpoolTypeCorrect` | `SpoolSpec => []SpoolTypeOK` | `SpoolDrainerAssumption` |
| `SpoolKeepsItsPromise` | `SpoolSpec => ImplementsSpool`, the refinement of `SpoolStore` | the same |

`SpoolInv` has what the refinement rests on: what the writer has in hand at each
of its steps; that what is under a final name is whole and what the sink took was
once there; and that each entry a drain has listed is still held or was taken,
by it or by another.  Every step is then a step of the store or none
(`StepMaps`), from which it follows that nothing held or taken is ever neither
(`NothingIsLost`), which in turn keeps the invariant.

And of the settings, for any trees, allowlist and bounds:

| Theorem | States | Assumes |
| --- | --- | --- |
| `SeedStaysTheCommit` | `SettingsSpec => SeedIsTheCommit` | `DeviceSettingsAssumption` |
| `DeviceTypeCorrect` | `Spec => []DeviceTypeOK`, of `MCDevice` | and `SpoolDrainerAssumption` |

`SettingsInv` has the reason the seed can be trusted: the clone's `.obsidian` is
the commit's unless the log owns up to residue it could not prune; while a seed
walks it the clone holds all of the commit's files; and each selected file is
still to be copied, placed, or among those it could not read, which is what keeps
the marker back.

`BatchProcessorProofs` proves for any paths, chunks and vaults, any numbers of
faults, deliveries and yields:

| Theorem | States | Assumes |
| --- | --- | --- |
| `BatchTypeCorrect` | `Spec => []TypeOK` | `BatchProcessorAssumption` |
| `AnswersAreAccountedFor` | `Spec => []SettledIsAccountedFor` | the same |
| `WritesStayAllowed` | `Spec => WritesAreAllowed` | the same |
| `AckSaysItIsThere` | `Spec => AckMeansItsWorkIsThere` | and `Alone` |
| `WritesFindTheirBase` | `Spec => WritesMeetTheirBase` | and `Alone` |
| `LinksFindTheirNotes` | `Spec => LinksLandOnNotes` | and `Alone` |
| `RunKeepsTheLedger` | `Spec => LedgerSpec`, the refinement of `ChunkLedger` | and `Alone` |

The first three hold of any number of overlapping runs and other writers.
`Alone` is one run at a time, however often it dies and starts again, and nobody
else writing: what the consumer's `max_ack_pending` of one and the stopped
instance are for.  Without it each of the four is false: with
two runs and one foreign write TLC finds a counterexample to every one, since the
vault's writes take no precondition and a run may go on with a chunk the broker
has given to another.  The invariants, each on top of the last:

1. `BatchInv`: types, and what a run holds: a chunk that was published and whose
   turn it is, the paths it has left being that chunk's.
2. `AnswersStand`: every answered chunk, and every chunk at its last delivery, is
   finished, parked, orphaned or in the hands of a run that knows it is the last.
3. `HandInv`: a run alone holds the oldest chunk or the one the broker dropped
   under its hands, and nothing later is finished or parked.
4. `VaultInv`: from its decision on, each path of the chunk in hand is as the
   patch wants it or, if its write is to come, as the patch found it, whatever a
   failed write did.  This gives the acknowledgement and the writes' bases.
5. `LinksInv`: what an earlier chunk of the batch that the run was done with
   created is in the vault still, or blocked, or was removed by a chunk in between.

`VaultCommitterProofs` proves for any paths, settings and remotes, any numbers of
edits, merges, failures, blank volumes and lost git-dirs:

| Theorem | States | Assumes |
| --- | --- | --- |
| `CommitterTypeCorrect` | `Spec => []TypeOK` | `VaultCommitterAssumption` |
| `UnpushedStays` | `Spec => UnpushedIsKept` | the same |
| `HistoryIsOneLine` | `Spec => []OneLineage` | the same |
| `SuccessIsRecorded` | `Spec => []SuccessMeansRecorded` | the same |
| `NoCommitLoses` | `Spec => []NoCommitIsALoss` | and `Num < Den` |
| `BaselineStays` | `Spec => []BaselineIsKept` | and `MergedPaths \cap Settings = {}` |

`Num < Den` is a guard that is on: a fraction of one or more turns it off, the
escape hatch of deletion_assessment.py.  The other assumption is
the pull requests' side of the bargain: nothing in the committer looks at what
they do to `.obsidian`.  Behind the theorems:

* `LineInv`: every remote's branch is a beginning of the local one, or of
  origin's when the git-dir has none; a run that has none, past its sync, found
  none at origin to advance to (`RootIsFirst`).
* `PushKnows`: what a run that has not failed knows while it pushes.
* `NoLossAnywhere`: no history holds a loss, and between the guard and the commit
  the index is what the guard saw.
* `BaselineInv`: commits are numbered once (`Numbered`), a history keeps a
  baseline, and what origin has beyond a branch leaves it alone (`HistoriesKeep`);
  the index has `HEAD`'s settings, with their bits set before anything is staged
  (`IndexKeeps`); and a capture no run died in the middle of takes all of them
  (`CaptureIsWhole`).

`LintPassProofs` proves for any schema, vault, edits, zones and number of passes:

| Theorem | States | Assumes |
| --- | --- | --- |
| `LintTypeCorrect` | `Spec => []TypeOK` | `NormaliseAssumption`, `LintPassAssumption` |
| `AuditStaysComplete` | `Spec => []AuditTellsAll` | the same |
| `EditsStaySafe` | `Spec => []EditsSurvive` | the same |
| `FixedNotesStayDone` | `Spec => []FixedNotesStand` | the same |

They rest on what normalisation is: of a well-formed block it makes a well-formed
block (`NormalIsWellFormed`) with no change left to make (`NormalIsDone`: it is
idempotent), which says neither less nor more (`NormalSaysTheSame`) and keeps the
keys the schema does not name in the order found (`NormalKeepsTheRest`).  Their
ground is lemmas on `Without`, a recursive function, by induction on the prefix:
the numbers up to which a claim fails are a set, a non-empty set of numbers has a
least member, and there the claim follows from the one before (`Ladder`).  That is
how a proof goes by induction without the library's theorems of it, whose
operator parameter no installed prover can instantiate.  The invariants are
`LintInv`, what a pass knows at each step; `RowsKept`, that the rows of the fixes
made are with the pass and later in the audit trail; and `NotesStand`, that a note
is what was last left there or its normal form, a write under way or still with
the server included.

`ImportProofs` proves for any paths, contents, tree and staging, any sizes of
diffs and any budget, any numbers of runs, restagings and failures:

| Theorem | States | Assumes |
| --- | --- | --- |
| `ImportTypeCorrect` | `ImportSpec => []ImportTypeOK` | `BatchProducerAssumption` |
| `ChunksStayFew` | `ImportSpec => []ChunksAreFewAndInOrder` | the same |
| `StagedArrives` | `ImportSpec => []StagedIsWhatArrives` | the same |

`ImportTypeOK` has what the processor is entitled to of a chunk on the stream,
whatever is restaged between two git calls; `ProducerInv` gets it from
`RunKnows`, that what a run is about to publish passed the validation.  That the
packing cuts the list within the budget is an induction along it (`PackingCuts`);
that no other cut has fewer chunks is that the greedy one is never behind: its
n-th cut comes no earlier than any other's (`PackingIsBest`).  `StagingStands`,
the invariant behind `StagedIsWhatArrives`, says that while the staging stands a
run has read a beginning of git's list, each unit being its entry's own diff
(`Halfway`), and that the stream is whole batches and beginnings of batches of
the same chunks (`StreamHas`).  It rests on what the diff is:

* `RenamesPair`, `DiffCovers`: however git pairs the renames, each changed path is
  at one side of one diff and no other; so the diff of one entry's paths alone is
  that entry (`DiffAlone`), which is why reading entry by entry reads the list.
* `GroupsSpan`, `PartIs`, `PartsApart`, `PartsCover`: the chunks are a partition
  of the diff.
* `PartFits`, `PartWrites`: a chunk none of whose diffs is in the vault yet is
  applied, unless one of them is refused wherever it is (`Barred`), and puts them
  there.  `PartStale`, `PartSettled`: one whose diffs are in the vault, from an
  earlier run, is never applied again, and only such a one is settled as there.

`DrainStands` is the invariant of the drain: some whole chunks of the staging are
done, the vault is the base with just those changes, and each chunk taken is done,
parked for a refused change or because it was done, or held back by a parked one
(`HasDrained`; `Advances`, `SettledIsDone`, `RefusedIs` are its steps).  In a first
run in which nothing fails no chunk comes twice, so none is parked as done.

`PatchingProofs` proves for any lines, any two notes and any bounds:

| Theorem | States | Assumes |
| --- | --- | --- |
| `PatchRebuilds` | `PatchSpec => []PatchRebuildsTheNote` | `PatchingAssumption` |

`PatchInv` is the property with what the patch is; the work is `DiffRebuilds`, an
induction along git's script.  `Reading` says how far the parser and the work on
the parsed hunks are after a line of the script.  Outside a hunk, all hunks are
complete and the new side is made but for the last few lines, which are context,
and the same in the note (`Between`, `Passed`).  Inside one, the last hunk has read
the lines its header counts up to there, the hunks before it leave the work where
its start says, and the work has made the new side to the line (`Within`, from
`HeaderRead`, `LineRead` and `MarkerRead`).  The hard part is the terminator: that
the marker is read where the header's counts put it or, the counts met, once more
(`HunkWants`, `closed`); that it is the new side's by the line before it (`Told`);
and that when a hunk reaches the note's end the last such marker was seen, or, when
none does, both sides end alike (`NothingAfterTheEnd`, `HunkDone`, `ReadAll`).

Each of these invariants was checked by TLC on the constants of its module's run,
before it was proved.  An attempt that failed for a good reason: `LinksLandOnNotes`
was first stated without the case of a chunk, taken up in between, that removes
the note; the run had passed only because its three chunks are too few for it.

## Only model-checked

* Liveness (`DeadRunsAreCleanedUp`, `BatchesDrain`, `DeviceCatchesUp`,
  `EditsReachOrigin`, `EveryEntryIsDrained`, `SeededOrSaidWhy`,
  `NotesGetNormalised`), which is beyond the proof system used here.
* The `Doc` runs, which are counterexamples.

## Not modelled

The exporter (a read-only scrape), the command line, configuration and logging,
host keys and ssh, the retry's waits; the parsers and emitters of front matter,
envelopes, git's name-status output and a patch's headers; the link graph the lint
pass reports on, and its texts; the admission of finance notes and of integers;
the date forms.  They hold no state between calls; a wrong table or parser is a
unit test's to find.  Neither is a later landing of an unanswered write modelled in
`BatchProcessor` (it is in `LintPass`), nor a baseline captured while the editor is
still writing it, nor a file system that takes back a rename.

Of the replicator: a first checkout, before there is a `LAST_CHECKOUT`, that a kill
stops half way without a lock left behind.  The next cycle has no commit to force
the clone back to, and its plain `checkout -B` may be refused by the files that
are there or carry them along; `LocalReplicator` has the clone empty until its
first checkout is done.  Likewise nobody removes a lock file by hand, other than
with the clone.

## Plan

Done: every module above, with proofs of all the safety properties the passing
runs check.  Left, in order:

1. Pure algorithms against reference definitions: the mass-deletion fractions and
   the back-off.
2. A composition of `AgentInstance` and `BatchProcessor`: writes land only while
   the door is shut.
