----------------------------- MODULE BatchProducer -----------------------------
(***************************************************************************)
(* The batch stream's producer: what is staged in a checkout becomes a     *)
(* batch of chunks, enqueued one by one.  The index is read with one git   *)
(* call for the list of changes and two for each change, and whoever owns  *)
(* the checkout may stage something else between any two.  A publish may   *)
(* fail, or land and lose its answer, and the producer may die; it is then *)
(* run again and enqueues the whole batch under another id.                *)
(*                                                                         *)
(* HEAD stands still and is where base_rev points; a file's diff is its    *)
(* two sides (Patching has the lines); paths are numbered in git's order.  *)
(* The processor drains the stream meanwhile: each chunk is applied whole, *)
(* settled as already there, or parked.  How a chunk is applied in part or *)
(* delivered again after a failed read or write is BatchProcessor's; here  *)
(* the processor may be killed once it has applied a chunk, before it says *)
(* so.  Nobody else writes to the vault.                                   *)
(***************************************************************************)
EXTENDS Integers, Sequences, FiniteSets, Functions

CONSTANTS
  Paths,
  Contents,
  Absent,
  Foreign,     \* contents that are not UTF-8
  Nul,         \* contents with a NUL byte, of which git prints no text
  Vacant,      \* contents of no bytes
  Garbled,     \* diffs that print text which is not UTF-8
  Links(_),    \* the paths a diff's text links to
  Raw,         \* paths of the raw layer
  Unfit,       \* paths with the contents admission refuses there
  Kin,         \* content -> its likeness: git pairs like with like as a rename
  Base,        \* HEAD's tree, and the vault's when the import starts
  PatchBytes(_),  \* the size of the text git makes of a set of diffs
  MaxBytes,    \* max_patch_bytes
  MaxRuns, MaxRestages, MaxFaults   \* bounds

Trees == [Paths -> Contents \cup {Absent}]
Diffs ==
  {d \in [old : Paths \cup {Absent}, new : Paths \cup {Absent},
          from : Contents \cup {Absent}, to : Contents \cup {Absent}] :
     (d.old = Absent <=> d.from = Absent) /\ (d.new = Absent <=> d.to = Absent)}
\* What two paths can have changed.
Patches == {{}} \cup {{d, e} : d, e \in Diffs}

ASSUME BatchProducerAssumption ==
  /\ Paths \subseteq Nat /\ IsFiniteSet(Paths)
  /\ Absent \notin Paths \cup Contents /\ Foreign \subseteq Contents
  /\ Raw \subseteq Paths /\ Unfit \subseteq Paths \X Contents
  /\ Base \in Trees /\ DOMAIN Kin = Contents
  /\ \A patch \in Patches : PatchBytes(patch) \in Nat
  /\ {MaxBytes, MaxRuns, MaxRestages, MaxFaults} \subseteq Nat

VARIABLES
  vault,     \* path -> what the vault has there
  taken,     \* how many chunks of the stream the processor is done with
  blocked,   \* of its run: a batch, and a path a parked chunk of it creates
  parked, waiting,
             \* observation: the places of chunks parked for themselves, and
             \* for linking to what an earlier one would have created
  index,     \* path -> what is staged there
  stream,    \* the chunks the broker has
  step, entries, units, chunks, sent, exit,
             \* of the run: where it is; the entries it has yet to read, the
             \* units it has, the chunks it made; how many were acknowledged;
             \* how the last run ended
  run,       \* runs so far: the batch id
  restages, faults,  \* how many more may come
  steady     \* observation: is the index what it was at the first run?

runVars == <<step, entries, units, chunks, sent, exit>>
drainVars == <<vault, taken, blocked, parked, waiting>>
producerVars == <<index, stream, runVars, run, restages, steady>>
importVars == <<producerVars, faults, drainVars>>

TargetRecords == [path : Paths, op : {"create", "modify", "delete"},
                  base : Contents \cup {Absent}]

DrainTypeOK ==
  /\ vault \in Trees /\ taken \in 0..Len(stream)
  /\ blocked \subseteq Nat \X Paths
  /\ parked \subseteq 1..taken /\ waiting \subseteq 1..taken

ImportTypeOK ==
  /\ index \in Trees
  /\ step \in {"idle", "list", "diff", "hash", "pack", "connect", "publish"}
  /\ entries \subseteq Diffs
  /\ units \in Seq([patch : Patches, targets : SUBSET TargetRecords])
  /\ \A i \in DOMAIN stream :
       /\ stream[i].targets # {} /\ UNION Range(stream[i].patch) # {}
       /\ \A t, u \in stream[i].targets : t.path = u.path => t = u
  /\ sent \in 0..Len(chunks)
  /\ exit \in {"none", "ok", "failed", "died"}
  /\ run \in 0..MaxRuns /\ restages \in 0..MaxRestages /\ faults \in 0..MaxFaults
  /\ steady \in {"yes", "no"}
  /\ DrainTypeOK

ImportInit ==
  /\ index \in Trees /\ stream = <<>>
  /\ step = "idle" /\ entries = {} /\ units = <<>> /\ chunks = <<>>
  /\ sent = 0 /\ exit = "none" /\ run = 0
  /\ restages = MaxRestages /\ faults = MaxFaults /\ steady = "yes"
  /\ vault = Base /\ taken = 0 /\ blocked = {} /\ parked = {} /\ waiting = {}

-----------------------------------------------------------------------------
(* git diff --cached, external.                                            *)

\* Deletions and additions of alike files, paired one to one.
Renames(tree, paths) ==
  LET gone == {p \in paths : Base[p] # Absent /\ tree[p] = Absent}
      come == {p \in paths : Base[p] = Absent /\ tree[p] # Absent}
      Pairings == {m \in SUBSET (gone \X come) :
                     /\ \A p \in m : Kin[Base[p[1]]] = Kin[tree[p[2]]]
                     /\ \A p, q \in m : p[1] = q[1] <=> p[2] = q[2]}
  IN CHOOSE m \in Pairings : \A o \in Pairings : Cardinality(o) <= Cardinality(m)

\* The changes of tree to Base at the paths asked for, as git pairs them.
StagedDiff(tree, paths) ==
  LET renames == Renames(tree, paths)
      single == {p \in paths : Base[p] # tree[p]} \ UNION {{r[1], r[2]} : r \in renames}
  IN {[old |-> r[1], new |-> r[2], from |-> Base[r[1]], to |-> tree[r[2]]] : r \in renames}
       \cup {[old |-> IF Base[p] = Absent THEN Absent ELSE p,
              new |-> IF tree[p] = Absent THEN Absent ELSE p,
              from |-> Base[p], to |-> tree[p]] : p \in single}

At(d) == IF d.new = Absent THEN d.old ELSE d.new
\* The first of git's list, which is in the order of the paths.
Foremost(listed) == CHOOSE d \in listed : \A e \in listed : At(d) <= At(e)

-----------------------------------------------------------------------------
(* collect_patch_units, pack_units.                                        *)

Target(path, op, base) == [path |-> path, op |-> op, base |-> base]

\* targets_for_status: the paths an entry writes, and how.
TargetsFor(d) ==
  IF d.old = d.new THEN {Target(d.new, "modify", Base[d.new])}
  ELSE {Target(p, "delete", Base[p]) : p \in {d.old} \ {Absent}}
         \cup {Target(p, "create", Absent) : p \in {d.new} \ {Absent}}

\* Mutant of DiffPaths: a rename's source is left out of the invocation.
DiffPathsMutNew(d) == {At(d)}

DiffPaths(d) == {d.old, d.new} \ {Absent}

\* "Binary files differ" is all git prints of contents with a NUL byte.
Placeholder(d) == d.from # d.to /\ {d.from, d.to} \cap Nul # {}
HasText(d) == d.from # d.to /\ ~Placeholder(d)

UnitBytes(unit) == PatchBytes(unit.patch)
\* The bytes of a list's first units, for each number of them.
RunningBytes(list) ==
  LET upto[i \in 0..Len(list)] == IF i = 0 THEN 0 ELSE upto[i - 1] + UnitBytes(list[i])
  IN upto
GroupBytes(group) == RunningBytes(group)[Len(group)]

\* Mutant of Fits: a chunk is closed when full, the next unit fitting or not.
FitsMutStrict(group, unit) == GroupBytes(group) + UnitBytes(unit) < MaxBytes

Fits(group, unit) == GroupBytes(group) + UnitBytes(unit) <= MaxBytes

\* Into the last group, or a new one when the unit does not fit it.
Placed(groups, unit) ==
  IF groups # <<>> /\ Fits(groups[Len(groups)], unit)
  THEN [groups EXCEPT ![Len(groups)] = Append(@, unit)]
  ELSE Append(groups, <<unit>>)

PackUnits(list) ==
  LET upto[i \in 0..Len(list)] == IF i = 0 THEN <<>> ELSE Placed(upto[i - 1], list[i])
  IN upto[Len(list)]

ChunkOf(groups, i) ==
  [batch |-> run, index |-> i, count |-> Len(groups),
   patch |-> [k \in DOMAIN groups[i] |-> groups[i][k].patch],
   targets |-> UNION {unit.targets : unit \in Range(groups[i])}]

BuildChunks(list) == LET groups == PackUnits(list)
                     IN [i \in DOMAIN groups |-> ChunkOf(groups, i)]

Twice(list) ==
  \E i, j \in DOMAIN list : \E t \in list[i].targets, u \in list[j].targets :
    t.path = u.path /\ (i # j \/ t # u)

\* Mutant of Invalid: an empty patch is let through.
InvalidMutEmpty(list) == Twice(list)

\* validate_batch: a patch that is not empty, and no path twice.
Invalid(list) == Twice(list) \/ \E i \in DOMAIN list : UNION Range(list[i].patch) = {}

-----------------------------------------------------------------------------
(* run, _publish_all.                                                      *)

Ends(how) ==
  /\ step' = "idle" /\ exit' = how
  /\ entries' = {} /\ units' = <<>> /\ chunks' = <<>> /\ sent' = 0

Fault == faults > 0 /\ faults' = faults - 1

BeginImport ==
  /\ step = "idle" /\ run < MaxRuns
  /\ run' = run + 1 /\ step' = "list" /\ exit' = "none"
  /\ UNCHANGED <<index, stream, entries, units, chunks, sent, restages, faults, steady, drainVars>>

ListStaged ==
  /\ step = "list"
  /\ IF StagedDiff(index, Paths) = {} THEN Ends("ok")
     ELSE /\ entries' = StagedDiff(index, Paths) /\ step' = "diff"
          /\ UNCHANGED <<units, chunks, sent, exit>>
  /\ UNCHANGED <<index, stream, run, restages, faults, steady, drainVars>>

\* staged_patch_bytes for the next entry; text that is not UTF-8 ends the run.
\* A file moved as it is, or with a NUL byte, shows none of its contents.
ReadPatch ==
  /\ step = "diff"
  /\ LET patch == StagedDiff(index, DiffPaths(Foremost(entries)))
     IN IF \E d \in patch \cap Garbled : HasText(d) THEN Ends("failed")
        ELSE /\ units' = Append(units, [patch |-> patch, targets |-> {}])
             /\ step' = "hash"
             /\ UNCHANGED <<entries, chunks, sent, exit>>
  /\ UNCHANGED <<index, stream, run, restages, faults, steady, drainVars>>

\* blob_bytes, of HEAD and so of what the entry had when it was listed.
HashTargets ==
  /\ step = "hash"
  /\ units' = [units EXCEPT ![Len(units)].targets = TargetsFor(Foremost(entries))]
  /\ entries' = entries \ {Foremost(entries)}
  /\ step' = IF entries' = {} THEN "pack" ELSE "diff"
  /\ UNCHANGED <<index, stream, chunks, sent, exit, run, restages, faults, steady, drainVars>>

\* A unit over the budget by itself, or a batch that is not well formed, is
\* refused whole.
Pack ==
  /\ step = "pack"
  /\ IF (\E i \in DOMAIN units : UnitBytes(units[i]) > MaxBytes) \/ Invalid(BuildChunks(units))
     THEN Ends("failed")
     ELSE /\ chunks' = BuildChunks(units) /\ step' = "connect"
          /\ UNCHANGED <<entries, units, sent, exit>>
  /\ UNCHANGED <<index, stream, run, restages, faults, steady, drainVars>>

Connect ==
  /\ step = "connect" /\ step' = "publish"
  /\ UNCHANGED <<index, stream, entries, units, chunks, sent, exit>>
  /\ UNCHANGED <<run, restages, faults, steady, drainVars>>

Enqueue == stream' = Append(stream, chunks[sent + 1])

PublishChunk ==
  /\ step = "publish" /\ sent < Len(chunks)
  /\ Enqueue /\ sent' = sent + 1
  /\ UNCHANGED <<index, step, entries, units, chunks, exit>>
  /\ UNCHANGED <<run, restages, faults, steady, drainVars>>

\* Mutant of StopsHere: the chunk is skipped and the batch goes on.
StopsHereMutSkips == sent' = sent + 1 /\ UNCHANGED <<step, entries, units, chunks, exit>>

\* A failed publish stops the batch where it is.
StopsHere == Ends("failed")

\* No answer: the chunk is on the stream or is not.
PublishUnanswered ==
  /\ step = "publish" /\ sent < Len(chunks) /\ Fault
  /\ Enqueue \/ UNCHANGED stream
  /\ StopsHere
  /\ UNCHANGED <<index, run, restages, steady, drainVars>>

AllEnqueued ==
  /\ step = "publish" /\ sent = Len(chunks)
  /\ Ends("ok")
  /\ UNCHANGED <<index, stream, run, restages, faults, steady, drainVars>>

-----------------------------------------------------------------------------
(* A git call or the connection fails; the process is killed; the owner of *)
(* the checkout stages something else.                                     *)

CallFails ==
  /\ step \in {"list", "diff", "hash", "connect"} /\ Fault
  /\ Ends("failed")
  /\ UNCHANGED <<index, stream, run, restages, steady, drainVars>>

ProducerDies ==
  /\ step # "idle" /\ Fault
  /\ Ends("died")
  /\ UNCHANGED <<index, stream, run, restages, steady, drainVars>>

Restage ==
  /\ restages > 0 /\ restages' = restages - 1
  /\ \E p \in Paths, c \in Contents \cup {Absent} :
       c # index[p] /\ index' = [index EXCEPT ![p] = c]
  /\ steady' = IF run = 0 THEN steady ELSE "no"
  /\ UNCHANGED <<stream, runVars, run, faults, drainVars>>

-----------------------------------------------------------------------------
(* The processor: _process, for a chunk read and written without a failure. *)

ChunkDiffs(chunk) == UNION Range(chunk.patch)
\* created_paths
Creates(chunk) == {t.path : t \in {t \in chunk.targets : t.op = "create"}}

\* parse_patch: no placeholder, and a pair of paths for each file, which one
\* of no bytes has only when it moves.
Readable(d) ==
  /\ ~Placeholder(d)
  /\ Absent \notin {d.old, d.new} \/ {d.from, d.to} \cap Vacant = {}

\* assess_chunk: every target is as the chunk found it, and none of the raw
\* layer is anything but a create.  Contents that are not UTF-8 are never read
\* back as they were hashed.
Accepted(tree, chunk) ==
  \A t \in chunk.targets :
    /\ tree[t.path] = t.base /\ t.base \notin Foreign
    /\ t.path \in Raw => t.op = "create"

\* _check_against_targets: the patch writes what the targets declare.
Agrees(chunk, diffs) ==
  {<<t.path, t.op>> : t \in chunk.targets}
    = {<<d.new, IF d.old = d.new THEN "modify" ELSE "create">> :
         d \in {d \in diffs : d.new # Absent}}
        \cup {<<d.old, "delete">> : d \in {d \in diffs : d.old \notin {Absent, d.new}}}

\* A diff of no hunks fits any text; another, the text it was made from.
Applies(tree, d) == Absent \notin {d.old, d.new} /\ d.from # d.to => tree[d.old] = d.from

Written(tree, diffs, p) ==
  IF \E d \in diffs : d.new = p
  THEN LET d == CHOOSE d \in diffs : d.new = p
       IN IF d.from = d.to THEN tree[d.old] ELSE d.to
  ELSE IF \E d \in diffs : d.old = p THEN Absent ELSE tree[p]

\* plan_writes, and the admission of every note it would write.
Plannable(tree, chunk) ==
  LET diffs == ChunkDiffs(chunk)
  IN /\ \A d \in diffs : Readable(d) /\ Applies(tree, d)
     /\ Agrees(chunk, diffs)
     /\ \A d \in diffs : d.new # Absent => <<d.new, Written(tree, diffs, d.new)>> \notin Unfit

Applicable(tree, chunk) == Accepted(tree, chunk) /\ Plannable(tree, chunk)

\* already_applied: of creates and deletes alone, each there already.
AlreadyApplied(tree, chunk) ==
  LET diffs == ChunkDiffs(chunk)
  IN /\ \A d \in diffs : Readable(d) /\ (d.old = Absent \/ d.new = Absent)
     /\ Creates(chunk) = {d.new : d \in diffs} \ {Absent}
     /\ \A d \in diffs : d.new # Absent => tree[d.new] = d.to
     /\ \A t \in chunk.targets : t.op # "create" => tree[t.path] = Absent

\* referenced_blocked_paths
Waits(chunk) == \E d \in ChunkDiffs(chunk) : \E p \in Links(d) : <<chunk.batch, p>> \in blocked

Pending == taken < Len(stream)
Delivered == stream[taken + 1]

NextWritten == vault' = [p \in Paths |-> Written(vault, ChunkDiffs(Delivered), p)]

ApplyChunk ==
  /\ Pending /\ ~Waits(Delivered) /\ Applicable(vault, Delivered)
  /\ NextWritten /\ taken' = taken + 1
  /\ UNCHANGED <<producerVars, faults, blocked, parked, waiting>>

\* Killed before the acknowledgement: the next run is handed the chunk again.
ApplyUnsettled ==
  /\ Pending /\ ~Waits(Delivered) /\ Applicable(vault, Delivered) /\ Fault
  /\ NextWritten /\ blocked' = {}
  /\ UNCHANGED <<producerVars, taken, parked, waiting>>

SettleDone ==
  /\ Pending /\ (Waits(Delivered) \/ ~Accepted(vault, Delivered))
  /\ AlreadyApplied(vault, Delivered)
  /\ taken' = taken + 1
  /\ UNCHANGED <<producerVars, faults, vault, blocked, parked, waiting>>

\* It blocks nothing itself.
ParkDependent ==
  /\ Pending /\ Waits(Delivered) /\ ~AlreadyApplied(vault, Delivered)
  /\ taken' = taken + 1 /\ waiting' = waiting \cup {taken + 1}
  /\ UNCHANGED <<producerVars, faults, vault, blocked, parked>>

ParkRefused ==
  /\ Pending /\ ~Waits(Delivered) /\ ~Applicable(vault, Delivered)
  /\ Accepted(vault, Delivered) \/ ~AlreadyApplied(vault, Delivered)
  /\ taken' = taken + 1 /\ parked' = parked \cup {taken + 1}
  /\ blocked' = blocked \cup {<<Delivered.batch, p>> : p \in Creates(Delivered)}
  /\ UNCHANGED <<producerVars, faults, vault, waiting>>

\* A run of the processor ends and the next one knows of nothing blocked.
DrainEnds ==
  /\ blocked # {} /\ blocked' = {}
  /\ UNCHANGED <<producerVars, faults, vault, taken, parked, waiting>>

ImportNext ==
  \/ BeginImport \/ ListStaged \/ ReadPatch \/ HashTargets \/ Pack \/ Connect
  \/ PublishChunk \/ PublishUnanswered \/ AllEnqueued
  \/ CallFails \/ ProducerDies \/ Restage
  \/ ApplyChunk \/ ApplyUnsettled \/ SettleDone \/ ParkDependent \/ ParkRefused \/ DrainEnds

ImportSpec == ImportInit /\ [][ImportNext]_importVars

-----------------------------------------------------------------------------
\* The changes the processor refuses wherever they are: the patch cannot be
\* read, the file is not UTF-8, the raw layer is not written twice, admission
\* refuses the note.
Barred(d) ==
  \/ ~Readable(d) \/ d.from \in Foreign
  \/ d.old \in Raw \/ <<d.new, d.to>> \in Unfit

ItIsIn(d) == \A p \in DiffPaths(d) : vault[p] = index[p]

\* The place of a chunk parked for a link to what a chunk before it in its
\* batch, parked for itself, would have created.
HeldBack(i) ==
  /\ i \in waiting
  /\ \E j \in parked : /\ j < i /\ stream[j].batch = stream[i].batch
                       /\ \E d \in ChunkDiffs(stream[i]) : Links(d) \cap Creates(stream[j]) # {}

\* While the staging stands, whatever producer runs fail, die or are repeated,
\* and with a processor that may be killed but whose reads and writes succeed:
\* no note is anything but what it was or what is staged, a rename is there
\* with both its halves or not at all, and a chunk is parked for itself only
\* when it has a change that is refused wherever it is, or when all it changes
\* is in the vault already.  And once a run exits zero and the stream is
\* drained, every staged change is in the vault unless that run's own chunk of
\* it was refused so, or held back by a chunk parked before it (producer.run,
\* _publish_all, processor._process).  So a first import in which nothing
\* fails, of changes none of which is refused, arrives whole; one repeated
\* after it was cut short may leave chunks held back by a chunk whose changes
\* are there already.
StagedIsWhatArrives ==
  steady = "yes" =>
    /\ \A p \in Paths : vault[p] \in {Base[p], index[p]}
    /\ \A d \in StagedDiff(index, Paths) :
         d.old # Absent /\ d.new # Absent /\ d.old # d.new =>
           (vault[d.old] = index[d.old] <=> vault[d.new] = index[d.new])
    /\ \A i \in parked :
         \/ \E d \in ChunkDiffs(stream[i]) : Barred(d)
         \/ \A d \in ChunkDiffs(stream[i]) : ItIsIn(d)
    /\ exit = "ok" /\ taken = Len(stream) =>
         \A d \in StagedDiff(index, Paths) :
           \/ ItIsIn(d)
           \/ \E i \in parked \cup waiting :
                /\ stream[i].batch = run /\ d \in ChunkDiffs(stream[i])
                /\ HeldBack(i) \/ (i \in parked /\ \E e \in ChunkDiffs(stream[i]) : Barred(e))
    /\ exit = "ok" /\ taken = Len(stream) /\ run = 1 /\ faults = MaxFaults =>
         vault = index \/ \E d \in StagedDiff(index, Paths) : Barred(d)

\* The chunks hold the units in their order, none over the budget, and no
\* other cut of that order into runs within the budget has fewer
\* (pack_units, build_chunks).
ChunksAreFewAndInOrder ==
  chunks # <<>> =>
    LET upto == RunningBytes(units)
        \* the cuts into n runs within the budget: where each run ends
        Cuts(n) == {c \in [0..n -> 0..Len(units)] :
                      /\ c[0] = 0 /\ c[n] = Len(units)
                      /\ \A i \in 1..n :
                           c[i - 1] <= c[i] /\ upto[c[i]] - upto[c[i - 1]] <= MaxBytes}
    IN /\ \E c \in Cuts(Len(chunks)) : \A i \in DOMAIN chunks :
            /\ chunks[i].patch = [k \in 1..(c[i] - c[i - 1]) |-> units[c[i - 1] + k].patch]
            /\ chunks[i].index = i /\ chunks[i].count = Len(chunks)
       /\ \A n \in 0..Len(units) : Cuts(n) # {} => Len(chunks) <= n

=============================================================================
