---------------------------- MODULE BatchProcessor ----------------------------
(***************************************************************************)
(* Batch runs draining the batch stream into the vault: fetch one chunk,   *)
(* read all its targets, decide, write, and settle it with the broker or   *)
(* park it on the dead-letter stream.                                      *)
(*                                                                         *)
(* Every call over a connection is a step of its own, so other writers of  *)
(* the vault, the broker's ack deadline, a crash and a second (hand-run)   *)
(* run may come between any two.  A step of a run that computes from what  *)
(* it holds (Decide) is one step.  Paths and contents are model values, a  *)
(* chunk's patch is what it does to each path: parsing and applying the    *)
(* patch text are not modelled here.                                       *)
(*                                                                         *)
(* The broker and the vault server are external: they are modelled from    *)
(* what consumer.py and mcp_client.py configure, send and expect.          *)
(***************************************************************************)
EXTENDS Integers, Sequences, FiniteSets

CONSTANTS
  Runs,          \* processor processes; more than one: a Job run by hand
  Paths,         \* vault paths
  RawPaths,      \* the write-once layer
  Curated,       \* the paths admission judges
  Contents,      \* note contents
  Inadmissible,  \* the contents admission refuses
  Absent,        \* no note at the path
  Unread,        \* the path was not read yet
  Batches,
  Publishable,   \* the chunks producers may publish
  Vaults,        \* the vaults a first run may find
  PromotionConfigured, \* does the run yield to a promotion stream at all?
  MaxDeliver,    \* the consumer's max_deliver
  MaxYields,     \* BATCH max_consecutive_yields
  MaxPublished,  \* bound: chunks ever published
  MaxFaults,     \* bound: failed calls and crashes
  MaxForeign     \* bound: writes by anybody else

Holdings == Contents \cup {Absent}
Ops == {"create", "modify", "delete", "moveIn", "moveOut"}
Forms == {"good", "unapplicable", "undecodable"}
Edits == [op : Ops, base : Holdings, post : Holdings]

\* Targets and patch of a chunk: what it does to each path it touches, and
\* the paths its patch links to.  A rename is a moveOut and a moveIn.
Chunks ==
  [batch : Batches,
   edits : UNION {[S -> Edits] : S \in (SUBSET Paths) \ {{}}},
   links : SUBSET Paths,
   form : Forms]

Creating == {"create", "moveIn"}
Deleting == {"delete", "moveOut"}

ASSUME BatchProcessorAssumption ==
  /\ RawPaths \subseteq Paths /\ Curated \subseteq Paths
  /\ Inadmissible \subseteq Contents
  /\ Absent \notin Contents /\ Unread \notin Holdings
  /\ PromotionConfigured \in BOOLEAN
  /\ MaxDeliver \in Nat \ {0}
  /\ MaxYields \in Nat
  /\ MaxPublished \in Nat /\ MaxFaults \in Nat /\ MaxForeign \in Nat
  /\ Vaults \subseteq [Paths -> Holdings]
  /\ Publishable \subseteq Chunks
  /\ \A c \in Publishable : \A p \in DOMAIN c.edits :
       /\ c.edits[p].base = Absent <=> c.edits[p].op \in Creating
       /\ c.edits[p].post = Absent <=> c.edits[p].op \in Deleting

VARIABLES
  stream,     \* the chunks published, in order
  settled,    \* what became of the first Len(settled) of them, to the broker
  tries,      \* deliveries of the first unsettled chunk
  claim,      \* its delivery: "free", "held" by a client, or "delayed"
  dead,       \* the dead-letter stream: the chunk's number and the reason
  promotion,  \* the promotion stream's depth: "quiet", or "busy" from the
              \* threshold on
  vault,      \* path -> what is there
  pc,         \* run -> where it is
  item,       \* run -> the number of the chunk it holds, or NoItem
  attempt,    \* run -> the delivery count that came with it
  seen,       \* run -> path -> what it read there
  todo,       \* run -> the paths of the chunk it has not written yet
  reason,     \* run -> why it is parking the chunk
  blocked,    \* run -> the creates of what it parked, under their batch
  yields,     \* run -> consecutive yields to the promotion stream
  faults,     \* failures still allowed
  foreign,    \* writes by others still allowed
  \* The rest is observation: no step of the program reads it.
  done,       \* chunks some run saw finished in the vault
  orphaned,   \* chunks whose last delivery was dropped by the run holding it
  ended       \* run -> chunk -> how this run was done with it

brokerVars == <<settled, tries, claim>>
handVars == <<item, attempt, seen, todo, reason>>
ghosts == <<done, orphaned, ended>>
vars == <<stream, brokerVars, dead, promotion, vault, pc, handVars, blocked, yields,
          faults, foreign, ghosts>>

NoItem == 0
Numbers == 1..MaxPublished
Phases == {"off", "loop", "read", "write", "ack", "nak", "park", "term"}
Reasons == {"none", "undecodable_chunk", "unapplicable_patch", "mcp_refused",
            "partially_applied", "redelivery_exhausted",
            "depends_on_failed_chunk", "admission_refused", "rejected"}
Fates == {"acked", "termed", "dropped"}
Endings == {"applied", "failed", "dependent"}

TypeOK ==
  /\ stream \in Seq(Publishable) /\ Len(stream) <= MaxPublished
  /\ settled \in Seq(Fates) /\ Len(settled) <= Len(stream)
  /\ tries \in 0..MaxDeliver
  /\ claim \in {"free", "held", "delayed"}
  /\ dead \subseteq Numbers \X Reasons
  /\ promotion \in {"quiet", "busy"}
  /\ vault \in [Paths -> Holdings]
  /\ pc \in [Runs -> Phases]
  /\ item \in [Runs -> Numbers \cup {NoItem}]
  /\ attempt \in [Runs -> 0..MaxDeliver]
  /\ seen \in [Runs -> [Paths -> Holdings \cup {Unread}]]
  /\ todo \in [Runs -> SUBSET Paths]
  /\ reason \in [Runs -> Reasons]
  /\ blocked \in [Runs -> SUBSET (Batches \X Paths)]
  /\ yields \in [Runs -> 0..MaxYields]
  /\ faults \in Nat
  /\ foreign \in Nat
  /\ done \subseteq Numbers
  /\ orphaned \subseteq Numbers
  /\ ended \in [Runs -> [Numbers -> SUBSET Endings]]

-----------------------------------------------------------------------------
(* What a run decides off one reading of the vault.                        *)

Targets(c) == DOMAIN c.edits

\* The paths a chunk would bring into being; an undecodable body has none.
CreatedPaths(c) ==
  IF c.form = "undecodable" THEN {}
  ELSE {p \in Targets(c) : c.edits[p].op \in Creating}

\* Mutants of TargetRejected: the staleness check is gone; the raw layer is
\* judged like any other.
TargetRejectedMutStale(p, edit, held) ==
  \/ edit.op \in Creating /\ held # Absent
  \/ edit.op \notin Creating /\ (p \in RawPaths \/ held = Absent)
TargetRejectedMutRaw(p, edit, held) ==
  IF edit.op \in Creating THEN held # Absent ELSE held # edit.base

TargetRejected(p, edit, held) ==
  \/ edit.op \in Creating /\ held # Absent
  \/ edit.op \notin Creating /\ (p \in RawPaths \/ held # edit.base)

Rejected(c, held) == \E p \in Targets(c) : TargetRejected(p, c.edits[p], held[p])

\* Mutant of AlreadyApplied: presence is taken for the right content.
AlreadyAppliedMutPresence(c, held) ==
  /\ c.form = "good"
  /\ \A p \in Targets(c) :
       /\ c.edits[p].op \in {"create", "delete"}
       /\ held[p] = Absent <=> c.edits[p].op = "delete"

AlreadyApplied(c, held) ==
  /\ c.form = "good"
  /\ \A p \in Targets(c) :
       /\ c.edits[p].op \in {"create", "delete"}
       /\ held[p] = c.edits[p].post

\* Mutant of AdmissionRefused: the new side of a rename is not judged.
AdmissionRefusedMutRename(c) ==
  \E p \in Targets(c) \cap Curated :
    c.edits[p].op \in {"create", "modify"} /\ c.edits[p].post \in Inadmissible

AdmissionRefused(c) ==
  \E p \in Targets(c) \cap Curated :
    c.edits[p].op \notin Deleting /\ c.edits[p].post \in Inadmissible

DependsOn(c, block) == \E p \in c.links : <<c.batch, p>> \in block

\* Mutants of Blocks: a half-applied chunk blocks nothing; a dependent
\* blocks as any failed chunk does; all batches share one set.
BlocksMutPartial(c, why) ==
  IF why \in {"depends_on_failed_chunk", "partially_applied"} THEN {}
  ELSE {c.batch} \X CreatedPaths(c)
BlocksMutUnkeyed(c, why) == CreatedPaths(c)

Blocks(c, why) ==
  IF why = "depends_on_failed_chunk" THEN {} ELSE {c.batch} \X CreatedPaths(c)

\* Mutant of ExhaustedRedelivery: it looks for a delivery after the last.
ExhaustedRedeliveryMutNext(n) == n > MaxDeliver

ExhaustedRedelivery(n) == n >= MaxDeliver

\* Mutant of AfterYield: the count starts again on every turn of the loop.
AfterYieldMutReset(n) == 0

AfterYield(n) == n + 1

\* Mutant of Overwrites: every write may replace what is there.
OverwritesMutAlways(op) == op # "delete"

Overwrites(op) == op \notin Creating

-----------------------------------------------------------------------------
(* The broker's side.  One chunk is outstanding at a time (max_ack_pending *)
(* is 1), and the broker answers a client's settlement only for the chunk  *)
(* that is outstanding.                                                    *)

Oldest == Len(settled) + 1
Pending == Oldest <= Len(stream)
Chunk(r) == stream[item[r]]
Holds(r) == item[r] # NoItem

\* Mutant of Deliverable: only what was never delivered before.
DeliverableMutNew == Pending /\ claim = "free" /\ tries = 0

Deliverable == Pending /\ claim = "free" /\ tries < MaxDeliver

Settle(fate) ==
  /\ settled' = Append(settled, fate)
  /\ tries' = 0
  /\ claim' = "free"

Settles(r, fate) ==
  IF item[r] = Oldest THEN Settle(fate) ELSE UNCHANGED brokerVars

\* An unsettled delivery ended: the broker delivers again, or never again.
Redelivers(next) ==
  IF tries = MaxDeliver THEN Settle("dropped")
  ELSE claim' = next /\ UNCHANGED <<settled, tries>>

\* The client's deadline for the delivery passed.
AckWaitExpires ==
  /\ claim = "held"
  /\ Redelivers("free")
  /\ UNCHANGED <<stream, dead, promotion, vault, pc, handVars, blocked, yields, faults,
                 foreign, ghosts>>

NakDelayEnds ==
  /\ claim = "delayed"
  /\ claim' = "free"
  /\ UNCHANGED <<stream, settled, tries, dead, promotion, vault, pc, handVars, blocked,
                 yields, faults, foreign, ghosts>>

Publish(c) ==
  /\ Len(stream) < MaxPublished
  /\ stream' = Append(stream, c)
  /\ UNCHANGED <<brokerVars, dead, promotion, vault, pc, handVars, blocked, yields,
                 faults, foreign, ghosts>>

\* Interactive work arrives, or its own processor catches up.
PromotionMoves ==
  /\ PromotionConfigured
  /\ promotion' = IF promotion = "quiet" THEN "busy" ELSE "quiet"
  /\ UNCHANGED <<stream, brokerVars, dead, vault, pc, handVars, blocked, yields,
                 faults, foreign, ghosts>>

\* Anybody else with a way into the vault: a person, the replicator, the
\* agent's own interactive writes.
ForeignWrite(p, held) ==
  /\ foreign > 0
  /\ held # vault[p]
  /\ foreign' = foreign - 1
  /\ vault' = [vault EXCEPT ![p] = held]
  /\ UNCHANGED <<stream, brokerVars, dead, promotion, pc, handVars, blocked, yields,
                 faults, ghosts>>

-----------------------------------------------------------------------------
Goto(r, phase) == pc' = [pc EXCEPT ![r] = phase]

Fault == faults > 0 /\ faults' = faults - 1
FaultIf(bad) == IF bad THEN Fault ELSE UNCHANGED faults

\* The run puts the chunk down; only what it blocked and its ending stay.
EmptyHands(r) ==
  /\ item' = [item EXCEPT ![r] = NoItem]
  /\ attempt' = [attempt EXCEPT ![r] = 0]
  /\ seen' = [seen EXCEPT ![r] = [p \in Paths |-> Unread]]
  /\ todo' = [todo EXCEPT ![r] = {}]
  /\ reason' = [reason EXCEPT ![r] = "none"]

\* The run ends, one way or another.
Leave(r) ==
  /\ Goto(r, "off")
  /\ EmptyHands(r)
  /\ blocked' = [blocked EXCEPT ![r] = {}]
  /\ yields' = [yields EXCEPT ![r] = 0]
  /\ ended' = [ended EXCEPT ![r] = [i \in Numbers |-> {}]]

Orphans(r) == IF attempt[r] = MaxDeliver THEN {item[r]} ELSE {}

Park(r, why) ==
  /\ Goto(r, "park")
  /\ reason' = [reason EXCEPT ![r] = why]

RetryLater(r) ==
  IF ExhaustedRedelivery(attempt[r]) THEN Park(r, "redelivery_exhausted")
  ELSE Goto(r, "nak") /\ UNCHANGED reason

EndsAs(r, how) == ended' = [ended EXCEPT ![r][item[r]] = @ \cup {how}]

Init ==
  /\ stream = <<>>
  /\ settled = <<>>
  /\ tries = 0
  /\ claim = "free"
  /\ dead = {}
  /\ promotion = "quiet"
  /\ vault \in Vaults
  /\ pc = [r \in Runs |-> "off"]
  /\ item = [r \in Runs |-> NoItem]
  /\ attempt = [r \in Runs |-> 0]
  /\ seen = [r \in Runs |-> [p \in Paths |-> Unread]]
  /\ todo = [r \in Runs |-> {}]
  /\ reason = [r \in Runs |-> "none"]
  /\ blocked = [r \in Runs |-> {}]
  /\ yields = [r \in Runs |-> 0]
  /\ faults = MaxFaults
  /\ foreign = MaxForeign
  /\ done = {}
  /\ orphaned = {}
  /\ ended = [r \in Runs |-> [i \in Numbers |-> {}]]

(***************************************************************************)
(* A run.  Nothing it remembers outlives it.                               *)
(***************************************************************************)

BeginRun(r) ==
  /\ pc[r] = "off"
  /\ Goto(r, "loop")
  /\ UNCHANGED <<stream, brokerVars, dead, promotion, vault, handVars, blocked, yields,
                 faults, foreign, ghosts>>

\* The promotion stream is deep: wait, or end the run when the wait has gone
\* on too long.
Yield(r) ==
  /\ pc[r] = "loop"
  /\ promotion = "busy"
  /\ IF AfterYield(yields[r]) > MaxYields
     THEN Leave(r)
     ELSE /\ yields' = [yields EXCEPT ![r] = AfterYield(yields[r])]
          /\ UNCHANGED <<pc, handVars, blocked, ended>>
  /\ UNCHANGED <<stream, brokerVars, dead, promotion, vault, faults, foreign, done,
                 orphaned>>

FetchNothing(r) ==
  /\ pc[r] = "loop"
  /\ promotion = "quiet"
  /\ ~Deliverable
  /\ Leave(r)
  /\ UNCHANGED <<stream, brokerVars, dead, promotion, vault, faults, foreign, done,
                 orphaned>>

Fetch(r) ==
  /\ pc[r] = "loop"
  /\ promotion = "quiet"
  /\ Deliverable
  /\ claim' = "held"
  /\ tries' = tries + 1
  /\ item' = [item EXCEPT ![r] = Oldest]
  /\ attempt' = [attempt EXCEPT ![r] = tries + 1]
  /\ yields' = [yields EXCEPT ![r] = 0]
  /\ IF stream[Oldest].form = "undecodable"
     THEN Park(r, "undecodable_chunk")
     ELSE Goto(r, "read") /\ UNCHANGED reason
  /\ UNCHANGED <<stream, settled, dead, promotion, vault, seen, todo, blocked, faults,
                 foreign, ghosts>>

Unseen(r) == {p \in Targets(Chunk(r)) : seen[r][p] = Unread}

\* read_targets: one call per target, all of them before anything is decided.
ReadTarget(r, p) ==
  /\ pc[r] = "read"
  /\ p \in Unseen(r)
  /\ seen' = [seen EXCEPT ![r][p] = vault[p]]
  /\ UNCHANGED <<stream, brokerVars, dead, promotion, vault, pc, item, attempt, todo,
                 reason, blocked, yields, faults, foreign, ghosts>>

CannotRead(r, refused) ==
  /\ pc[r] = "read"
  /\ Unseen(r) # {}
  /\ Fault
  /\ IF refused THEN Park(r, "mcp_refused") ELSE RetryLater(r)
  /\ UNCHANGED <<stream, brokerVars, dead, promotion, vault, item, attempt, seen, todo,
                 blocked, yields, foreign, ghosts>>

\* Everything between the last read and the first write.
Decide(r) ==
  LET c == Chunk(r)
      dependent == DependsOn(c, blocked[r])
      rejected == Rejected(c, seen[r])
      settles == (dependent \/ rejected) /\ AlreadyApplied(c, seen[r])
  IN
  /\ pc[r] = "read"
  /\ Unseen(r) = {}
  /\ \/ /\ settles
        /\ Goto(r, "ack")
        /\ done' = done \cup {item[r]}
        /\ UNCHANGED <<todo, reason>>
     \/ /\ ~settles
        /\ \/ dependent /\ Park(r, "depends_on_failed_chunk")
           \/ ~dependent /\ rejected /\ Park(r, "rejected")
           \/ /\ ~dependent /\ ~rejected /\ c.form = "unapplicable"
              /\ Park(r, "unapplicable_patch")
           \/ /\ ~dependent /\ ~rejected /\ c.form = "good"
              /\ AdmissionRefused(c)
              /\ Park(r, "admission_refused")
        /\ UNCHANGED <<todo, done>>
     \/ /\ ~dependent /\ ~rejected /\ c.form = "good" /\ ~AdmissionRefused(c)
        /\ Goto(r, "write")
        /\ todo' = [todo EXCEPT ![r] = Targets(c)]
        /\ UNCHANGED <<reason, done>>
  /\ UNCHANGED <<stream, brokerVars, dead, promotion, vault, item, attempt, seen,
                 blocked, yields, faults, foreign, orphaned, ended>>

\* Deletes come after every write that leaves content.
NextWrites(r) ==
  LET writing == {p \in todo[r] : Chunk(r).edits[p].op \notin Deleting}
  IN IF writing # {} THEN writing ELSE todo[r]

\* The server refuses a write that may not overwrite and would have to.
Clobbers(r, p) ==
  LET op == Chunk(r).edits[p].op
  IN op \notin Deleting /\ ~Overwrites(op) /\ vault[p] # Absent

LandsOn(r, p) == vault' = [vault EXCEPT ![p] = Chunk(r).edits[p].post]

WriteTarget(r, p) ==
  /\ pc[r] = "write"
  /\ p \in NextWrites(r)
  /\ ~Clobbers(r, p)
  /\ LandsOn(r, p)
  /\ todo' = [todo EXCEPT ![r] = @ \ {p}]
  /\ IF todo'[r] = {}
     THEN Goto(r, "ack") /\ done' = done \cup {item[r]}
     ELSE UNCHANGED <<pc, done>>
  /\ UNCHANGED <<stream, brokerVars, dead, promotion, item, attempt, seen, reason,
                 blocked, yields, faults, foreign, orphaned, ended>>

\* A call that failed, after all its retries.  Unanswered, it may have landed;
\* so may one refused: a create's retry meets its own first attempt.
CannotWrite(r, p, refused, landed) ==
  LET applied == Targets(Chunk(r)) \ todo[r] IN
  /\ pc[r] = "write"
  /\ p \in NextWrites(r)
  /\ landed => ~Clobbers(r, p)
  /\ landed /\ refused => ~Overwrites(Chunk(r).edits[p].op)
                            /\ Chunk(r).edits[p].op \notin Deleting
  /\ FaultIf(~(refused /\ Clobbers(r, p)))
  /\ IF landed THEN LandsOn(r, p) ELSE UNCHANGED vault
  /\ \/ applied = {} /\ ~refused /\ RetryLater(r)
     \/ applied = {} /\ refused /\ Park(r, "mcp_refused")
     \/ applied # {} /\ Park(r, "partially_applied")
  /\ UNCHANGED <<stream, brokerVars, dead, promotion, item, attempt, seen, todo,
                 blocked, yields, foreign, done, orphaned, ended>>

\* ack, nak and term are fire and forget: lost, they leave the chunk to its
\* deadline, and the run goes on.
Ack(r, lost) ==
  /\ pc[r] = "ack"
  /\ FaultIf(lost)
  /\ IF lost THEN UNCHANGED brokerVars ELSE Settles(r, "acked")
  /\ Goto(r, "loop")
  /\ EndsAs(r, "applied")
  /\ EmptyHands(r)
  /\ UNCHANGED <<stream, dead, promotion, vault, blocked, yields, foreign, done,
                 orphaned>>

\* The broker takes a nak only from the delivery it is waiting for.
Nak(r, lost) ==
  /\ pc[r] = "nak"
  /\ FaultIf(lost)
  /\ IF ~lost /\ item[r] = Oldest /\ attempt[r] = tries /\ claim = "held"
     THEN Redelivers("delayed")
     ELSE UNCHANGED brokerVars
  /\ Goto(r, "loop")
  /\ EmptyHands(r)
  /\ UNCHANGED <<stream, dead, promotion, vault, blocked, yields, foreign, ghosts>>

\* Mutant of DeadLetter: the chunk is terminated without its copy.
DeadLetterMutSkips(r) ==
  /\ pc[r] = "park"
  /\ Goto(r, "term")
  /\ UNCHANGED <<stream, brokerVars, dead, promotion, vault, handVars, blocked,
                 yields, faults, foreign, ghosts>>

DeadLetter(r) ==
  /\ pc[r] = "park"
  /\ dead' = dead \cup {<<item[r], reason[r]>>}
  /\ Goto(r, "term")
  /\ UNCHANGED <<stream, brokerVars, promotion, vault, handVars, blocked, yields, faults,
                 foreign, ghosts>>

\* The publish raised, whether or not the copy is on the stream: the run ends
\* with the chunk unsettled.
CannotDeadLetter(r, landed) ==
  /\ pc[r] = "park"
  /\ Fault
  /\ dead' = IF landed THEN dead \cup {<<item[r], reason[r]>>} ELSE dead
  /\ orphaned' = orphaned \cup Orphans(r)
  /\ Leave(r)
  /\ UNCHANGED <<stream, brokerVars, promotion, vault, foreign, done>>

Term(r, lost) ==
  /\ pc[r] = "term"
  /\ FaultIf(lost)
  /\ IF lost THEN UNCHANGED brokerVars ELSE Settles(r, "termed")
  /\ blocked' = [blocked EXCEPT ![r] = @ \cup Blocks(Chunk(r), reason[r])]
  /\ EndsAs(r, IF reason[r] = "depends_on_failed_chunk" THEN "dependent"
               ELSE "failed")
  /\ Goto(r, "loop")
  /\ EmptyHands(r)
  /\ UNCHANGED <<stream, dead, promotion, vault, yields, foreign, done, orphaned>>

\* A kill, a node lost, or an exception that leaves the drain: a renewal or a
\* reading of the promotion depth that failed, a connection gone.
Crash(r) ==
  /\ pc[r] # "off"
  /\ Fault
  /\ orphaned' = IF Holds(r) THEN orphaned \cup Orphans(r) ELSE orphaned
  /\ Leave(r)
  /\ UNCHANGED <<stream, brokerVars, dead, promotion, vault, foreign, done>>

RunStep(r) ==
  \/ Yield(r) \/ FetchNothing(r) \/ Fetch(r)
  \/ \E p \in Paths : ReadTarget(r, p) \/ WriteTarget(r, p)
  \/ \E refused \in BOOLEAN : CannotRead(r, refused)
  \/ Decide(r)
  \/ \E p \in Paths, refused, landed \in BOOLEAN :
       CannotWrite(r, p, refused, landed)
  \/ \E lost \in BOOLEAN : Ack(r, lost) \/ Nak(r, lost) \/ Term(r, lost)
  \/ DeadLetter(r)
  \/ \E landed \in BOOLEAN : CannotDeadLetter(r, landed)

Next ==
  \/ \E r \in Runs : BeginRun(r) \/ RunStep(r) \/ Crash(r)
  \/ AckWaitExpires
  \/ NakDelayEnds
  \/ PromotionMoves
  \/ \E c \in Publishable : Publish(c)
  \/ \E p \in Paths, held \in Holdings : ForeignWrite(p, held)

Spec == Init /\ [][Next]_vars

\* A run's own steps are taken while it lives, the broker keeps its deadlines
\* and the schedule starts runs for ever.  Nothing is assumed of the promotion
\* stream or of other writers.
FairSpec ==
  /\ Spec
  /\ \A r \in Runs : WF_vars(RunStep(r)) /\ WF_vars(BeginRun(r))
  /\ WF_vars(AckWaitExpires)
  /\ WF_vars(NakDelayEnds)

-----------------------------------------------------------------------------
(* Properties.                                                             *)

InHand(i) == \E r \in Runs : item[r] = i
Parked(i) == \E why \in Reasons : <<i, why>> \in dead
Dropped(i) == i < Oldest /\ settled[i] = "dropped"

\* A step in which run r's write to p lands.
Writes(r, p) ==
  /\ pc[r] = "write" /\ p \in todo[r]
  /\ vault'[p] # vault[p]
  /\ pc'[r] # "write" \/ p \notin todo'[r]
EditOf(r, p) == Chunk(r).edits[p]

(***************************************************************************)
(* The broker's answer is never ahead of the work: an acknowledged chunk   *)
(* was finished in the vault, a terminated one has its copy on the         *)
(* dead-letter stream, and one the broker gave up on has one or the other, *)
(* unless a run holds it still or dropped its last delivery.               *)
(* processor._process, _retry_later and _dead_letter.                      *)
(***************************************************************************)
SettledIsAccountedFor ==
  \A i \in 1..Len(settled) :
    CASE settled[i] = "acked" -> i \in done
      [] settled[i] = "termed" -> Parked(i)
      [] settled[i] = "dropped" ->
           i \in done \/ Parked(i) \/ InHand(i) \/ i \in orphaned

(***************************************************************************)
(* When a run acknowledges a chunk, the vault holds what the chunk asked   *)
(* for, at every path of it.  Of a run with the vault to itself: another   *)
(* writer may have moved on by then.  processor._process,                  *)
(* patching.already_applied, apply_writes.                                 *)
(***************************************************************************)
AckMeansItsWorkIsThere ==
  [][\A r \in Runs : pc[r] = "ack" /\ pc'[r] = "loop" =>
       \A p \in Targets(Chunk(r)) : vault[p] = EditOf(r, p).post]_vars

(***************************************************************************)
(* A modify replaces exactly the note its patch was made against, and a    *)
(* delete removes exactly that note (or finds it gone), crashes,           *)
(* redeliveries and half-applied chunks notwithstanding.  Of a run with    *)
(* the vault to itself.  preflight.assess_chunk before apply_writes.       *)
(***************************************************************************)
WritesMeetTheirBase ==
  [][\A r \in Runs, p \in Paths : Writes(r, p) =>
       vault[p] = EditOf(r, p).base]_vars

(***************************************************************************)
(* Whoever else writes to the vault, and whatever was read before they     *)
(* did: no create and no rename replaces a note, nothing of the write-once *)
(* layer is changed or removed, and no chunk with one post-image admission *)
(* refuses writes any of its paths.  preflight._assess_target,             *)
(* processor._admission_refusals, apply_writes and its overwrite flag      *)
(* (ADR-0053).                                                             *)
(***************************************************************************)
WritesAreAllowed ==
  [][\A r \in Runs, p \in Paths : Writes(r, p) =>
       /\ EditOf(r, p).op \in Creating \/ p \in RawPaths => vault[p] = Absent
       /\ \A q \in Targets(Chunk(r)) \cap Curated :
            EditOf(r, q).post \notin Inadmissible]_vars

Removes(c, q) == q \in Targets(c) /\ c.edits[q].op \in Deleting

(***************************************************************************)
(* What a run writes links only to what is there: a path that an earlier   *)
(* chunk of the same batch creates, and that this run was done with itself *)
(* (applied, or parked for a failure of its own), exists when the write    *)
(* lands, unless a chunk the run took up in between was to remove it.  Of  *)
(* a run with the vault to itself.  _dead_letter and                       *)
(* dependency.referenced_blocked_paths.                                    *)
(***************************************************************************)
LinksLandOnNotes ==
  [][\A r \in Runs, p \in Paths : Writes(r, p) =>
       \A i \in 1..(item[r] - 1) :
         /\ stream[i].batch = Chunk(r).batch
         /\ ended[r][i] \cap {"applied", "failed"} # {}
         => \A q \in CreatedPaths(stream[i]) \cap Chunk(r).links :
              \/ vault[q] # Absent
              \/ \E j \in (i + 1)..item[r] :
                   /\ j = item[r] \/ ended[r][j] \cap {"applied", "failed"} # {}
                   /\ Removes(stream[j], q)]_vars

(***************************************************************************)
(* Every chunk published is settled in the end, whatever the runs that     *)
(* took it died of, once failures and interactive work stop: bulk work     *)
(* yields to a busy promotion stream for as long as it is busy.  And every *)
(* run ends, even if that stream never drains, once nothing more is        *)
(* published: the agent instance it keeps stopped comes back.              *)
(* consumer.connect; _drain and its limit on consecutive yields.           *)
(***************************************************************************)
BatchesDrain ==
  /\ <>[](promotion = "quiet") =>
       \A i \in Numbers : (Len(stream) >= i) ~> (Len(settled) >= i)
  /\ \A r \in Runs : (pc[r] # "off") ~> (pc[r] = "off")

(***************************************************************************)
(* What the repository says: "Nothing vanishes: every chunk is applied,    *)
(* parked on the dead-letter stream, or still owed by the broker"          *)
(* (tests/test_batch_processor_crash_injection.py).  It is not so when the *)
(* run holding the last delivery dies; SettledIsAccountedFor is what holds. *)
(***************************************************************************)
NothingVanishes ==
  \A i \in 1..Len(stream) : i >= Oldest \/ i \in done \/ Parked(i) \/ InHand(i)

-----------------------------------------------------------------------------
(* The chunk ledger, which a single run at a time implements.              *)

Vanished ==
  {i \in Numbers : Dropped(i) /\ ~(i \in done \/ Parked(i) \/ InHand(i))}

Ledger == INSTANCE ChunkLedger WITH
  published <- Len(stream),
  applied <- done,
  parked <- {i \in Numbers : Parked(i)},
  vanished <- Vanished

LedgerSpec == Ledger!Spec
=============================================================================
