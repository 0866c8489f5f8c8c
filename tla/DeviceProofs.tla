----------------------------- MODULE DeviceProofs -----------------------------
(***************************************************************************)
(* Proofs about what runs beside the cycle on a device.  Of the spool, for *)
(* any entries and drains: its types, and that with its writer and its     *)
(* drains it implements SpoolStore.  Of the settings, for all trees and    *)
(* allowlists and any number of commits, touches and troubles: their       *)
(* types, and that what the seed copies and vouches for is what the commit *)
(* holds.                                                                  *)
(***************************************************************************)
EXTENDS MCDevice, WellFoundedInduction, TLAPS

-----------------------------------------------------------------------------
(* The spool: the invariant the refinement rests on.                       *)

\* What the writer has in hand, by where it is.
WriterKnows ==
  /\ wpc # "idle" => writing \in Entries
  /\ wpc \in {"write", "rename"} => name[writing] = "temp"
  /\ wpc = "rename" => body[writing] = "whole"
  /\ wpc = "return" => writing \in Held \cup sent

\* What is under an entry's name, and what has no name yet.
FilesAreWhole ==
  /\ \A e \in Entries : name[e] = "final" => body[e] = "whole"
  /\ \A e \in Entries : e > writing => name[e] = "none"
  /\ \A e \in sent : e <= writing /\ name[e] # "temp"

\* An entry a drain has listed goes only after some sink took it.
DrainsKnow ==
  \A d \in Drains :
    /\ listed[d] \subseteq Held \cup sent
    /\ dpc[d] # "idle" => listed[d] # {}
    /\ dpc[d] = "unlink" => Current(d) \in sent

SpoolInv == SpoolTypeOK /\ WriterKnows /\ FilesAreWhole /\ DrainsKnow /\ relied \subseteq Held \cup sent

-----------------------------------------------------------------------------
\* The file a drain is at is one it has listed: there is a first by name.
LEMMA FirstIsListed ==
  ASSUME NEW s \in SUBSET Entries, s # {}
  PROVE  (CHOOSE e \in s : \A f \in s : e <= f) \in s
<1>1. s \subseteq Nat
  BY SpoolDrainerAssumption DEF Entries
<1>2. \E e \in s : \A f \in s : <<f, e>> \notin OpToRel(<, Nat)
  BY <1>1, NatLessThanWellFounded, WFMin, Zenon
<1>3. \E e \in s : \A f \in s : ~(f < e)
  BY <1>1, <1>2, Zenon DEF OpToRel
<1>4. \E e \in s : \A f \in s : e <= f
  BY <1>1, <1>3
<1>. QED
  BY <1>4

\* So a drain that is under way is at an entry the spool had.
LEMMA CurrentIsKnown ==
  ASSUME SpoolTypeOK, DrainsKnow, NEW d \in Drains, dpc[d] # "idle"
  PROVE  /\ Current(d) \in listed[d]
         /\ Current(d) \in Entries
         /\ Current(d) \in Held \cup sent
<1>1. listed[d] \in SUBSET Entries /\ listed[d] # {} /\ listed[d] \subseteq Held \cup sent
  BY DEF SpoolTypeOK, DrainsKnow
<1>2. Current(d) \in listed[d]
  BY <1>1, FirstIsListed DEF Current
<1>. QED
  BY <1>1, <1>2

-----------------------------------------------------------------------------
\* Every step of the spool is a step of the store, or none (ImplementsSpool).
LEMMA StepMaps ==
  ASSUME SpoolInv, [SpoolNext]_spoolVars
  PROVE  [Store!Next]_<<Held, sent, relied>>
<1>. USE DEF SpoolInv
<1>1. CASE OpenTemp
  <2>1. writing + 1 \in Entries /\ name[writing + 1] = "none"
    BY <1>1, SpoolDrainerAssumption DEF OpenTemp, SpoolTypeOK, FilesAreWhole, Entries
  <2>2. Held' = Held
    BY <1>1, <2>1 DEF OpenTemp, SpoolTypeOK, Held
  <2>. QED
    BY <1>1, <2>2 DEF OpenTemp, drainVars
<1>2. CASE FlushTemp
  <2>1. writing \in Entries /\ name[writing] = "temp"
    BY <1>2 DEF FlushTemp, WriterKnows
  <2>2. Held' = Held
    BY <1>2, <2>1 DEF FlushTemp, SpoolTypeOK, Held
  <2>. QED
    BY <1>2, <2>2 DEF FlushTemp, drainVars
<1>3. CASE Rename
  <2>1. writing \in Entries /\ name[writing] = "temp" /\ body[writing] = "whole"
    BY <1>3 DEF Rename, WriterKnows
  <2>2. writing \notin Held \cup sent
    BY <2>1 DEF FilesAreWhole, Held
  <2>3. Held' = Held \cup {writing}
    BY <1>3, <2>1 DEF Rename, SpoolTypeOK, Held
  <2>4. Store!Store(writing)
    BY <1>3, <2>2, <2>3 DEF Rename, drainVars, Store!Store
  <2>. QED
    BY <2>1, <2>4 DEF Store!Next
<1>4. CASE Return
  <2>1. writing \in Entries /\ writing \in Held \cup sent
    BY <1>4 DEF Return, WriterKnows
  <2>2. Store!Rely(writing)
    BY <1>4, <2>1 DEF Return, drainVars, Held, Store!Rely
  <2>. QED
    BY <2>1, <2>2 DEF Store!Next
<1>5. CASE WriteFails
  <2>1. writing \in Entries /\ name[writing] = "temp"
    BY <1>5 DEF WriteFails, WriterKnows
  <2>2. Held' = Held
    BY <1>5, <2>1 DEF WriteFails, SpoolTypeOK, Held
  <2>. QED
    BY <1>5, <2>2 DEF WriteFails, drainVars
<1>6. CASE WriterDies
  BY <1>6 DEF WriterDies, drainVars, Held
<1>7. CASE \E d \in Drains : DrainStep(d) \/ DrainDies(d)
  <2>. PICK d \in Drains : DrainStep(d) \/ DrainDies(d)
    BY <1>7
  <2>1. CASE List(d) \/ Read(d) \/ SinkFails(d) \/ DrainDies(d)
    BY <2>1 DEF List, Read, SinkFails, DrainDies, writeVars, Held
  <2>2. CASE Sink(d)
    <3>. DEFINE e == Current(d)
    <3>1. e \in Entries /\ e \in Held \cup sent
      BY <2>2, CurrentIsKnown DEF Sink
    <3>2. sent' = sent \cup {e} /\ UNCHANGED <<Held, relied>>
      BY <2>2 DEF Sink, writeVars, Held
    <3>3. CASE e \in Held
      BY <3>1, <3>2, <3>3 DEF Store!Next, Store!Take
    <3>4. CASE e \in sent
      BY <3>2, <3>4
    <3>. QED
      BY <3>1, <3>3, <3>4
  <2>3. CASE Unlink(d)
    <3>. DEFINE e == Current(d)
    <3>1. e \in Entries /\ e \in sent
      BY <2>3, CurrentIsKnown DEF Unlink, DrainsKnow
    <3>2. CASE name[e] = "final"
      <4>1. e \in Held \cap sent
        BY <3>1, <3>2 DEF FilesAreWhole, Held
      <4>2. Held' = Held \ {e}
        BY <2>3, <3>1, <3>2 DEF Unlink, SpoolTypeOK, Held
      <4>3. Store!Remove(e)
        BY <2>3, <4>1, <4>2 DEF Unlink, writeVars, Store!Remove
      <4>. QED
        BY <3>1, <4>3 DEF Store!Next
    <3>3. CASE name[e] # "final"
      BY <2>3, <3>3 DEF Unlink, writeVars, Held
    <3>. QED
      BY <3>2, <3>3
  <2>. QED
    BY <2>1, <2>2, <2>3 DEF DrainStep
<1>8. CASE UNCHANGED spoolVars
  BY <1>8 DEF spoolVars, writeVars, drainVars, Held
<1>. QED
  BY <1>1, <1>2, <1>3, <1>4, <1>5, <1>6, <1>7, <1>8 DEF SpoolNext, Write

\* What the spool had it has, or the sink took it.
LEMMA NothingIsLost ==
  ASSUME SpoolInv, [SpoolNext]_spoolVars
  PROVE  Held \cup sent \subseteq Held' \cup sent'
<1>1. [Store!Next]_<<Held, sent, relied>>
  BY StepMaps
<1>. QED
  BY <1>1 DEF Store!Next, Store!Store, Store!Rely, Store!Take, Store!Remove

-----------------------------------------------------------------------------
(* The invariant.                                                          *)

LEMMA SpoolTypesKept ==
  ASSUME SpoolInv, [SpoolNext]_spoolVars
  PROVE  SpoolTypeOK'
<1>. USE DEF SpoolInv, SpoolTypeOK
<1>1. CASE Write \/ WriteFails \/ WriterDies
  <2>1. wpc # "idle" => writing \in Entries
    BY DEF WriterKnows
  <2>2. wpc = "idle" /\ writing < MaxEntries => writing + 1 \in 0..MaxEntries
    BY SpoolDrainerAssumption
  <2>3. CASE OpenTemp
    BY <2>2, <2>3 DEF OpenTemp, drainVars
  <2>4. CASE FlushTemp
    BY <2>1, <2>4 DEF FlushTemp, drainVars
  <2>5. CASE Rename
    BY <2>1, <2>5 DEF Rename, drainVars
  <2>6. CASE Return
    BY <2>1, <2>6 DEF Return, drainVars
  <2>7. CASE WriteFails \/ WriterDies
    BY <2>1, <2>7 DEF WriteFails, WriterDies, Mishap, drainVars
  <2>. QED
    BY <1>1, <2>3, <2>4, <2>5, <2>6, <2>7 DEF Write
<1>2. CASE \E d \in Drains : DrainStep(d) \/ DrainDies(d)
  <2>. PICK d \in Drains : DrainStep(d) \/ DrainDies(d)
    BY <1>2
  <2>1. CASE List(d)
    BY <2>1 DEF List, Listable, writeVars
  <2>2. CASE Read(d)
    BY <2>2 DEF Read, Abort, writeVars
  <2>3. CASE Sink(d)
    BY <2>3, CurrentIsKnown DEF Sink, writeVars
  <2>4. CASE SinkFails(d)
    BY <2>4 DEF SinkFails, NextFile, Mishap, writeVars
  <2>5. CASE Unlink(d)
    BY <2>5 DEF Unlink, NextFile, Abort, writeVars
  <2>6. CASE DrainDies(d)
    BY <2>6 DEF DrainDies, Abort, Mishap, writeVars
  <2>. QED
    BY <2>1, <2>2, <2>3, <2>4, <2>5, <2>6 DEF DrainStep
<1>3. CASE UNCHANGED spoolVars
  BY <1>3 DEF spoolVars, writeVars, drainVars
<1>. QED
  BY <1>1, <1>2, <1>3 DEF SpoolNext

\* The drains never touch what the writer has in hand, and the writer is the
\* only one to put an entry under a name.
LEMMA WriterKept ==
  ASSUME SpoolInv, [SpoolNext]_spoolVars
  PROVE  WriterKnows' /\ FilesAreWhole'
<1>. USE DEF SpoolInv, SpoolTypeOK
<1>1. CASE OpenTemp
  <2>1. writing + 1 \in Entries /\ writing' = writing + 1
    BY <1>1, SpoolDrainerAssumption DEF OpenTemp, Entries
  <2>2. WriterKnows'
    BY <1>1, <2>1 DEF OpenTemp, WriterKnows
  <2>3. FilesAreWhole'
    BY <1>1, <2>1, SpoolDrainerAssumption DEF OpenTemp, FilesAreWhole, drainVars, Entries
  <2>. QED
    BY <2>2, <2>3
<1>2. CASE FlushTemp
  BY <1>2 DEF FlushTemp, WriterKnows, FilesAreWhole, drainVars
<1>3. CASE Rename
  <2>1. writing \in Entries /\ name[writing] = "temp" /\ body[writing] = "whole"
    BY <1>3 DEF Rename, WriterKnows
  <2>2. WriterKnows'
    BY <1>3, <2>1 DEF Rename, WriterKnows, Held
  <2>3. FilesAreWhole'
    BY <1>3, <2>1, SpoolDrainerAssumption DEF Rename, FilesAreWhole, drainVars, Entries
  <2>. QED
    BY <2>2, <2>3
<1>4. CASE Return \/ WriterDies
  BY <1>4 DEF Return, WriterDies, WriterKnows, FilesAreWhole, drainVars
<1>5. CASE WriteFails
  <2>1. writing \in Entries /\ name[writing] = "temp"
    BY <1>5 DEF WriteFails, WriterKnows
  <2>. QED
    BY <1>5, <2>1, SpoolDrainerAssumption DEF WriteFails, WriterKnows, FilesAreWhole, drainVars, Entries
<1>6. CASE \E d \in Drains : DrainStep(d) \/ DrainDies(d)
  <2>. PICK d \in Drains : DrainStep(d) \/ DrainDies(d)
    BY <1>6
  <2>1. Held \cup sent \subseteq Held' \cup sent'
    BY NothingIsLost
  <2>2. CASE List(d) \/ Read(d) \/ SinkFails(d) \/ DrainDies(d)
    BY <2>1, <2>2 DEF List, Read, SinkFails, DrainDies, WriterKnows, FilesAreWhole, writeVars
  <2>3. CASE Sink(d)
    <3>. DEFINE e == Current(d)
    <3>1. e \in Entries /\ e \in Held \cup sent
      BY <2>3, CurrentIsKnown DEF Sink
    <3>2. e <= writing /\ name[e] # "temp"
      BY <3>1, SpoolDrainerAssumption DEF FilesAreWhole, Held, Entries
    <3>3. WriterKnows'
      BY <2>1, <2>3 DEF Sink, WriterKnows, writeVars
    <3>4. FilesAreWhole'
      BY <2>3, <3>2 DEF Sink, FilesAreWhole, writeVars
    <3>. QED
      BY <3>3, <3>4
  <2>4. CASE Unlink(d)
    <3>. DEFINE e == Current(d)
    <3>1. e \in Entries /\ e \in sent
      BY <2>4, CurrentIsKnown DEF Unlink, DrainsKnow
    <3>2. e <= writing /\ name[e] # "temp"
      BY <3>1 DEF FilesAreWhole
    <3>3. /\ name' = name \/ name' = [name EXCEPT ![e] = "none"]
          /\ UNCHANGED <<body, writing, wpc, sent>>
      BY <2>4 DEF Unlink, writeVars
    <3>4. WriterKnows'
      BY <2>1, <3>1, <3>2, <3>3 DEF WriterKnows
    <3>5. FilesAreWhole'
      BY <3>1, <3>2, <3>3 DEF FilesAreWhole
    <3>. QED
      BY <3>4, <3>5
  <2>. QED
    BY <2>2, <2>3, <2>4 DEF DrainStep
<1>7. CASE UNCHANGED spoolVars
  BY <1>7 DEF spoolVars, writeVars, drainVars, WriterKnows, FilesAreWhole, Held
<1>. QED
  BY <1>1, <1>2, <1>3, <1>4, <1>5, <1>6, <1>7 DEF SpoolNext, Write

\* A drain's list shrinks, and what is on it stays known.
LEMMA DrainsKept ==
  ASSUME SpoolInv, [SpoolNext]_spoolVars
  PROVE  DrainsKnow'
<1>. USE DEF SpoolInv, SpoolTypeOK
<1>0. Held \cup sent \subseteq Held' \cup sent'
  BY NothingIsLost
<1>1. CASE Write \/ WriteFails \/ WriterDies \/ UNCHANGED spoolVars
  <2>1. UNCHANGED <<dpc, listed, sent>>
    BY <1>1 DEF Write, OpenTemp, FlushTemp, Rename, Return, WriteFails, WriterDies,
                spoolVars, drainVars
  <2>. QED
    BY <1>0, <2>1 DEF DrainsKnow, Current
<1>2. CASE \E d \in Drains : DrainStep(d) \/ DrainDies(d)
  <2>. PICK d \in Drains : DrainStep(d) \/ DrainDies(d)
    BY <1>2
  <2>. SUFFICES ASSUME NEW c \in Drains
                PROVE  /\ listed'[c] \subseteq Held' \cup sent'
                       /\ dpc'[c] # "idle" => listed'[c] # {}
                       /\ dpc'[c] = "unlink" => Current(c)' \in sent'
    BY DEF DrainsKnow
  <2>1. sent \subseteq sent'
    BY DEF DrainStep, List, Read, Sink, SinkFails, Unlink, DrainDies
  <2>2. CASE c # d
    <3>1. dpc'[c] = dpc[c] /\ listed'[c] = listed[c]
      BY <2>2 DEF DrainStep, List, Read, Sink, SinkFails, Unlink, DrainDies, NextFile, Abort
    <3>2. Current(c)' = Current(c)
      BY <3>1 DEF Current
    <3>. QED
      BY <1>0, <2>1, <3>1, <3>2 DEF DrainsKnow
  <2>3. CASE c = d /\ List(d)
    <3>1. Listable \subseteq Held
      BY DEF Listable, Held, FilesAreWhole
    <3>2. listed'[c] = Listable /\ Listable # {} /\ dpc'[c] = "read"
      BY <2>3 DEF List
    <3>. QED
      BY <1>0, <3>1, <3>2
  <2>4. CASE c = d /\ Sink(d)
    <3>1. listed'[c] = listed[c] /\ dpc'[c] = "unlink" /\ sent' = sent \cup {Current(c)}
      BY <2>4 DEF Sink
    <3>2. Current(c)' = Current(c)
      BY <3>1 DEF Current
    <3>. QED
      BY <1>0, <2>4, <3>1, <3>2 DEF DrainsKnow, Sink
  <2>5. CASE c = d /\ (SinkFails(d) \/ Unlink(d) \/ Read(d) \/ DrainDies(d))
    <3>1. \/ NextFile(c)
          \/ Abort(c)
          \/ listed' = listed /\ dpc' = [dpc EXCEPT ![c] = "sink"] /\ listed[c] # {}
      BY <2>5 DEF SinkFails, Unlink, Read, DrainDies, DrainsKnow
    <3>2. dpc'[c] # "unlink" /\ listed'[c] \subseteq listed[c]
      BY <3>1 DEF NextFile, Abort
    <3>3. dpc'[c] # "idle" => listed'[c] # {}
      <4>1. CASE NextFile(c)
        <5>1. /\ listed'[c] = listed[c] \ {Current(c)}
              /\ dpc'[c] # "idle" => listed[c] # {Current(c)}
          BY <4>1 DEF NextFile
        <5>2. listed[c] # {}
          BY <2>5, <4>1 DEF SinkFails, Unlink, Read, DrainDies, DrainsKnow
        <5>. QED
          BY <5>1, <5>2
      <4>. QED
        BY <3>1, <4>1 DEF Abort
    <3>. QED
      BY <1>0, <3>2, <3>3 DEF DrainsKnow
  <2>. QED
    BY <2>2, <2>3, <2>4, <2>5 DEF DrainStep
<1>. QED
  BY <1>1, <1>2 DEF SpoolNext

\* An empty spool, nobody at work.
LEMMA SpoolInvAtFirst == SpoolInit => SpoolInv
BY SpoolDrainerAssumption
DEF SpoolInit, SpoolInv, SpoolTypeOK, WriterKnows, FilesAreWhole, DrainsKnow, Held, Entries, None

\* Every step keeps the invariant.
LEMMA SpoolInvKept ==
  ASSUME SpoolInv, [SpoolNext]_spoolVars
  PROVE  SpoolInv'
<1>1. relied' \subseteq Held' \cup sent'
  <2>1. [Store!Next]_<<Held, sent, relied>> /\ Held \cup sent \subseteq Held' \cup sent'
    BY StepMaps, NothingIsLost
  <2>. QED
    BY <2>1 DEF SpoolInv, Store!Next, Store!Store, Store!Rely, Store!Take, Store!Remove
<1>. QED
  BY <1>1, SpoolTypesKept, WriterKept, DrainsKept DEF SpoolInv

\* So it holds in every reachable state.
LEMMA SpoolInvariant == SpoolSpec => []SpoolInv
<1>1. SpoolInv /\ [SpoolNext]_spoolVars => SpoolInv'
  BY SpoolInvKept
<1>. QED
  BY <1>1, SpoolInvAtFirst, PTL DEF SpoolSpec

-----------------------------------------------------------------------------
\* Every variable of the spool, its writer and its drains holds a value of its
\* type, whatever fails or is killed.
THEOREM SpoolTypeCorrect == SpoolSpec => []SpoolTypeOK
<1>1. SpoolInv => SpoolTypeOK
  BY DEF SpoolInv
<1>. QED
  BY <1>1, SpoolInvariant, PTL

\* The spool keeps the promise the replication cycle overwrites a person's
\* edits on (write_spool_entry, drain_once): any number of entries, any drains
\* at once, any kills and failures.
THEOREM SpoolKeepsItsPromise == SpoolSpec => ImplementsSpool
<1>1. SpoolInit => Store!Init
  BY DEF SpoolInit, Store!Init, Held
<1>2. SpoolInv /\ [SpoolNext]_spoolVars => [Store!Next]_<<Held, sent, relied>>
  BY StepMaps
<1>. QED
  BY <1>1, <1>2, SpoolInvariant, PTL DEF SpoolSpec, ImplementsSpool, Store!Spec

-----------------------------------------------------------------------------
(* The settings: what the clone, the seed and the log know of each other.  *)

\* Only what the log owns up to may tell the clone from its commit.
CloneIsHonest == clone = head \/ "pruneIncomplete" \in said

\* While a comparison or a seed reads the clone, the clone is on a commit and
\* holds at least its files; a seed has each selected file before it, behind
\* it or on the list of those it could not read.
SeedKnows ==
  /\ scycle \in {"compare", "walk", "copy"} => head # Nowhere /\ CloneIsHonest
  /\ scycle \in {"walk", "copy"} => Filled(head) \subseteq Filled(clone)
  /\ scycle = "copy" => Selected(clone) \subseteq tocopy \cup placed \cup unread

SettingsInv == SettingsTypeOK /\ SeedKnows

-----------------------------------------------------------------------------
(* Types.                                                                  *)

\* A tree that is recorded is a tree, and the mark of there being none is not.
LEMMA BaselineIsTree ==
  ASSUME NEW t \in Baselines
  PROVE  t \in Trees /\ t # Nowhere
BY DeviceSettingsAssumption

\* A checkout leaves a tree, and all that its commit holds.
LEMMA CheckoutIsTree ==
  ASSUME SettingsTypeOK, NEW t \in Baselines
  PROVE  /\ CheckedOut(t) \in Trees
         /\ Filled(t) \subseteq Filled(CheckedOut(t))
<1>1. t \in [Settings -> Values \cup {Absent}]
  BY BaselineIsTree DEF Trees
<1>2. clone \in [Settings -> Values \cup {Absent}]
  BY DEF SettingsTypeOK, Trees
<1>3. CheckedOut(t) \in [Settings -> Values \cup {Absent}]
  BY <1>1, <1>2 DEF CheckedOut
<1>4. ASSUME NEW s \in Filled(t) PROVE CheckedOut(t)[s] = t[s] /\ s \in Settings
  BY <1>4 DEF Filled, CheckedOut
<1>. QED
  BY <1>3, <1>4 DEF Filled, Trees

\* So does a checkout with its prune, and the log owns up to what is left.
LEMMA PruneIsHonest ==
  ASSUME SettingsTypeOK, NEW t \in Baselines, NEW log \in SUBSET Events,
         Pruned(t, CheckedOut(t), log)
  PROVE  /\ clone' \in Trees /\ Filled(t) \subseteq Filled(clone')
         /\ said' \subseteq Events /\ log \subseteq said'
         /\ clone' = t \/ "pruneIncomplete" \in said'
         /\ smishaps' \in Nat
<1>. smishaps \in Nat
  BY DEF SettingsTypeOK
<1>1. CASE clone' = t /\ said' = log /\ Smooth
  BY <1>1, BaselineIsTree DEF Smooth
<1>2. CASE clone' = CheckedOut(t) /\ said' = log \cup {"pruneIncomplete"} /\ Trouble
  BY <1>2, CheckoutIsTree DEF Trouble, Events
<1>. QED
  BY <1>1, <1>2 DEF Pruned

\* What is spent of the troubles leaves a number of them.
LEMMA TroublesCount ==
  ASSUME SettingsTypeOK, Smooth \/ Trouble
  PROVE  smishaps' \in Nat
BY DEF SettingsTypeOK, Smooth, Trouble

\* A new cycle begins with clean hands and the commit it parks on.
LEMMA ParkTypes ==
  ASSUME SettingsTypeOK, Park \/ SkipPark
  PROVE  SettingsTypeOK'
<1>. USE DEF SettingsTypeOK
<1>1. CASE Park
  <2>1. parked \in Baselines /\ {} \in SUBSET Events
    BY <1>1 DEF Park
  <2>2. clone' \in Trees /\ said' \subseteq Events /\ smishaps' \in Nat
    BY <1>1, <2>1, PruneIsHonest DEF Park
  <2>. QED
    BY <1>1, <2>2 DEF Park, NewCycle, outside, ondevice, seeding, Places, YesNo
<1>2. CASE SkipPark
  BY <1>2 DEF SkipPark, NewCycle, Smooth, outside, ondevice, seeding, Places, YesNo
<1>. QED
  BY <1>1, <1>2

\* The steps up to the seed keep the types.
LEMMA CompareTypes ==
  ASSUME SettingsTypeOK, Compare \/ FetchNothing \/ FetchAndCheckOut \/ CheckoutRefused
  PROVE  SettingsTypeOK'
<1>. USE DEF SettingsTypeOK
<1>1. CASE Compare
  <2>1. smishaps' \in Nat /\ named' \subseteq Listed /\ said' \subseteq Events
    <3>1. CASE marker = "yes"
      <4>. PICK unseen \in SUBSET Settings :
             /\ IF unseen = {} THEN Smooth ELSE Trouble
             /\ named' = {s \in Selected(clone) \ unseen : device[s] # clone[s]}
             /\ said' = said \cup (IF named' = {} THEN {} ELSE {"diverged"})
                             \cup (IF unseen = {} THEN {} ELSE {"incomparable"})
        BY <1>1, <3>1 DEF Compare
      <4>. QED
        BY TroublesCount DEF Selected, Events
    <3>2. CASE marker # "yes"
      BY <1>1, <3>2, TroublesCount DEF Compare
    <3>. QED
      BY <3>1, <3>2
  <2>. QED
    BY <1>1, <2>1 DEF Compare, outside, repo, ondevice, seeding, Places
<1>2. CASE FetchNothing
  BY <1>2
  DEF FetchNothing, EndsTheCycle, Report, Events, Smooth, outside, repo, ondevice, seeding,
      Places, YesNo
<1>3. CASE FetchAndCheckOut
  <2>1. origin \in Baselines /\ said \in SUBSET Events
    BY <1>3 DEF FetchAndCheckOut
  <2>2. clone' \in Trees /\ said' \subseteq Events /\ smishaps' \in Nat
    BY <1>3, <2>1, PruneIsHonest, CheckoutIsTree DEF FetchAndCheckOut, Smooth
  <2>3. scycle' \in Places /\ attempted' \in YesNo /\ verdict' \in {"publish", "withhold"}
    BY <1>3 DEF FetchAndCheckOut, Places, YesNo
  <2>. QED
    BY <1>3, <2>1, <2>2, <2>3 DEF FetchAndCheckOut, outside, ondevice
<1>4. CASE CheckoutRefused
  BY <1>4
  DEF CheckoutRefused, EndsTheCycle, Events, Smooth, outside, repo, ondevice, seeding,
      Places, YesNo
<1>. QED
  BY <1>1, <1>2, <1>3, <1>4

\* A git command that does not end well leaves a tree in the clone.
LEMMA MovesATree ==
  ASSUME SettingsTypeOK, NEW paths \in SUBSET Settings, Moves(paths)
  PROVE  clone' \in Trees
<1>. DEFINE target == IF scycle = "idle" THEN parked ELSE origin
<1>1. clone \in [Settings -> Values \cup {Absent}]
  BY DEF SettingsTypeOK, Trees
<1>2. CASE paths = {}
  BY <1>1, <1>2 DEF Moves, Trees
<1>3. CASE paths # {}
  <2>1. target \in Baselines
    BY <1>3 DEF Moves, SettingsTypeOK
  <2>2. CheckedOut(target) \in [Settings -> Values \cup {Absent}]
    BY <2>1, CheckoutIsTree DEF Trees
  <2>. QED
    BY <1>1, <2>2 DEF Moves, Trees
<1>. QED
  BY <1>2, <1>3

\* A cycle killed inside a git command, or stopped by the lock of an earlier
\* one, keeps the types.
LEMMA StoppedGitTypes ==
  ASSUME SettingsTypeOK, GitKilled \/ StopsOnLock
  PROVE  SettingsTypeOK'
<1>1. clone' \in Trees
  BY MovesATree DEF GitKilled, StopsOnLock
<1>2. locks' \subseteq Locks
  BY DEF GitKilled, StopsOnLock, Taken, Locks, SettingsTypeOK
<1>3. smishaps' \in Nat
  BY TroublesCount DEF GitKilled, StopsOnLock
<1>4. said' \subseteq Events
  BY DEF GitKilled, StopsOnLock, SaidSoFar, Events, SettingsTypeOK
<1>. QED
  BY <1>1, <1>2, <1>3, <1>4
     DEF GitKilled, StopsOnLock, EndsTheCycle, SettingsTypeOK, outside, ondevice, seeding, Places,
         YesNo

\* The steps of the seed keep the types.
LEMMA SeedTypes ==
  ASSUME SettingsTypeOK,
         Walk \/ NoSource \/ OpenCopy \/ FillCopy \/ Mark \/ WithholdMark \/ CannotMark
  PROVE  SettingsTypeOK'
<1>. USE DEF SettingsTypeOK, SeedVars, outside, repo
<1>1. CASE Walk
  <2>1. PICK unseen \in SUBSET Filled(clone) :
          /\ IF unseen = {} THEN Smooth ELSE Trouble
          /\ unread' = unseen /\ tocopy' = Selected(clone) \ unseen
    BY <1>1 DEF Walk
  <2>2. unread' \subseteq Settings /\ tocopy' \subseteq Listed /\ smishaps' \in Nat
    BY <2>1, TroublesCount DEF Filled, Selected
  <2>. QED
    BY <1>1, <2>2 DEF Walk, Places, YesNo
<1>2. CASE NoSource
  BY <1>2 DEF NoSource, Smooth, ondevice, Places, Events
<1>3. CASE OpenCopy
  <2>1. PICK s \in tocopy : open' = s /\ device' = [device EXCEPT ![s] = Torn]
    BY <1>3 DEF OpenCopy
  <2>. QED
    BY <1>3, <2>1 DEF OpenCopy, Smooth, YesNo
<1>4. CASE FillCopy
  <2>1. open \in Listed /\ open \in Settings
    BY <1>4, DeviceSettingsAssumption DEF FillCopy
  <2>2. clone[open] \in Values \cup {Absent}
    BY <2>1 DEF Trees
  <2>3. device' \in [Settings -> Values \cup {Absent, Torn}]
    BY <1>4, <2>2 DEF FillCopy
  <2>. QED
    BY <1>4, <2>1, <2>3 DEF FillCopy, Smooth
<1>5. CASE Mark
  BY <1>5 DEF Mark, Smooth, Places, Events, YesNo
<1>6. CASE WithholdMark
  BY <1>6 DEF WithholdMark, Smooth, ondevice, Places, Events
<1>7. CASE CannotMark
  BY <1>7 DEF CannotMark, EndsTheCycle, Smooth, ondevice, Places, YesNo
<1>. QED
  BY <1>1, <1>2, <1>3, <1>4, <1>5, <1>6, <1>7

\* Every step keeps the types.
LEMMA SettingsTypesKept ==
  ASSUME SettingsTypeOK, [SettingsNext]_settingsVars
  PROVE  SettingsTypeOK'
<1>. USE DEF SettingsTypeOK
<1>1. CASE CycleStep
  <2>1. CASE Finish
    BY <2>1
    DEF Finish, EndsTheCycle, Report, Smooth, Events, outside, ondevice, seeding, Places, YesNo
  <2>. QED
    BY <1>1, <2>1, ParkTypes, CompareTypes, SeedTypes, StoppedGitTypes DEF CycleStep
<1>2. CASE Dies \/ GitKilled
  BY <1>2, TroublesCount, StoppedGitTypes
  DEF Dies, EndsTheCycle, outside, repo, ondevice, seeding, Places, YesNo
<1>3. CASE Touch
  <2>1. PICK s \in Settings, v \in Values \cup {Absent} : device' = [device EXCEPT ![s] = v]
    BY <1>3 DEF Touch
  <2>. QED
    BY <1>3, <2>1 DEF Touch, Touched, outside, repo, Others, seeding, YesNo
<1>4. CASE Reset
  <2>1. device' \in [Settings -> Values \cup {Absent, Torn}]
    BY <1>4 DEF Reset, Empty
  <2>. QED
    BY <1>4, <2>1 DEF Reset, Touched, outside, repo, Others, seeding, YesNo
<1>5. CASE Commit
  BY <1>5 DEF Commit, repo, ondevice, Others, seeding
<1>6. CASE LoseClone
  <2>1. Empty \in Trees
    BY DEF Empty, Trees
  <2>. QED
    BY <1>6, <2>1, TroublesCount DEF LoseClone, outside, ondevice, Others, seeding
<1>7. CASE UNCHANGED settingsVars
  BY <1>7 DEF settingsVars, outside, repo, ondevice, seeding
<1>. QED
  BY <1>1, <1>2, <1>3, <1>4, <1>5, <1>6, <1>7 DEF SettingsNext

\* A device begins with nothing of ours on it.
LEMMA SettingsTypesAtFirst ==
  ASSUME SettingsInit
  PROVE  SettingsTypeOK
<1>1. clone \in Trees /\ ncommits \in Nat /\ touches \in Nat /\ smishaps \in Nat
  BY DeviceSettingsAssumption DEF SettingsInit
<1>2. device \in [Settings -> Values \cup {Absent, Torn}]
  BY DEF SettingsInit, Empty
<1>. QED
  BY <1>1, <1>2 DEF SettingsInit, SettingsTypeOK, Places, YesNo

-----------------------------------------------------------------------------
(* The seed.                                                               *)

\* A cycle that begins knows what it compares with.
LEMMA ParkKnows ==
  ASSUME SettingsInv, Park \/ SkipPark
  PROVE  SeedKnows'
<1>1. CASE Park
  <2>1. parked \in Baselines /\ {} \in SUBSET Events
    BY <1>1 DEF Park, SettingsInv, SettingsTypeOK
  <2>2. clone' = parked \/ "pruneIncomplete" \in said'
    BY <1>1, <2>1, PruneIsHonest DEF Park, SettingsInv
  <2>. QED
    BY <1>1, <2>2 DEF Park, SeedKnows, CloneIsHonest
<1>2. CASE SkipPark
  BY <1>2 DEF SkipPark, SeedKnows
<1>. QED
  BY <1>1, <1>2

\* So does a seed that begins.
LEMMA FetchKnows ==
  ASSUME SettingsInv, FetchAndCheckOut
  PROVE  SeedKnows'
<1>1. origin \in Baselines /\ origin # Nowhere /\ said \in SUBSET Events
  BY DEF FetchAndCheckOut, SettingsInv, SettingsTypeOK
<1>2. CASE verdict' = "publish" /\ marker = "no"
  <2>1. Filled(origin) \subseteq Filled(clone')
        /\ (clone' = origin \/ "pruneIncomplete" \in said')
    BY <1>1, <1>2, PruneIsHonest DEF FetchAndCheckOut, SettingsInv
  <2>2. head' = origin /\ scycle' = "walk"
    BY <1>2 DEF FetchAndCheckOut
  <2>3. Filled(head') \subseteq Filled(clone')
    BY <2>1, <2>2
  <2>. QED
    BY <1>1, <2>1, <2>2, <2>3 DEF SeedKnows, CloneIsHonest, Filled
<1>3. CASE ~(verdict' = "publish" /\ marker = "no")
  BY <1>3 DEF FetchAndCheckOut, SeedKnows
<1>. QED
  BY <1>2, <1>3

\* Each step of a seed keeps the files it has selected in sight.
LEMMA SeedStepsKnow ==
  ASSUME SettingsInv,
         Walk \/ NoSource \/ OpenCopy \/ FillCopy \/ Mark \/ WithholdMark \/ CannotMark
  PROVE  SeedKnows'
<1>. USE DEF SettingsInv, SeedKnows, CloneIsHonest, SeedVars, outside, repo, Filled, Selected
<1>1. CASE Walk
  <2>1. PICK unseen \in SUBSET Filled(clone) :
          unread' = unseen /\ tocopy' = Selected(clone) \ unseen
    BY <1>1 DEF Walk
  <2>. QED
    BY <1>1, <2>1 DEF Walk
<1>2. CASE NoSource
  BY <1>2 DEF NoSource
<1>3. CASE OpenCopy
  BY <1>3 DEF OpenCopy
<1>4. CASE FillCopy
  BY <1>4 DEF FillCopy
<1>5. CASE Mark \/ WithholdMark \/ CannotMark
  BY <1>5 DEF Mark, WithholdMark, CannotMark, EndsTheCycle
<1>. QED
  BY <1>1, <1>2, <1>3, <1>4, <1>5

\* Every step keeps it.
LEMMA SeedKept ==
  ASSUME SettingsInv, [SettingsNext]_settingsVars
  PROVE  SeedKnows'
<1>1. CASE CycleStep
  <2>1. CASE Compare \/ FetchNothing \/ CheckoutRefused \/ Finish \/ StopsOnLock
    BY <2>1
    DEF Compare, FetchNothing, CheckoutRefused, Finish, StopsOnLock, EndsTheCycle, SeedKnows
  <2>. QED
    BY <1>1, <2>1, ParkKnows, FetchKnows, SeedStepsKnow DEF CycleStep
<1>2. CASE Dies \/ GitKilled
  BY <1>2 DEF Dies, GitKilled, EndsTheCycle, SeedKnows
<1>3. CASE Touch \/ Reset \/ Commit
  BY <1>3 DEF Touch, Reset, Commit, repo, Others, seeding, SettingsInv, SeedKnows,
              CloneIsHonest, Filled, Selected
<1>4. CASE LoseClone
  BY <1>4 DEF LoseClone, Others, SeedKnows
<1>5. CASE UNCHANGED settingsVars
  BY <1>5 DEF settingsVars, repo, seeding, SettingsInv, SeedKnows, CloneIsHonest,
              Filled, Selected
<1>. QED
  BY <1>1, <1>2, <1>3, <1>4, <1>5 DEF SettingsNext

\* So the seed knows what it copies in every reachable state.
LEMMA SettingsInvariant == SettingsSpec => []SettingsInv
<1>1. SettingsInit => SettingsInv
  BY SettingsTypesAtFirst DEF SettingsInv, SeedKnows, SettingsInit
<1>2. SettingsInv /\ [SettingsNext]_settingsVars => SettingsInv'
  BY SettingsTypesKept, SeedKept DEF SettingsInv
<1>. QED
  BY <1>1, <1>2, PTL DEF SettingsSpec

-----------------------------------------------------------------------------
\* What the seed and the comparison promise of one step.
Honest ==
  /\ marker = "no" /\ marker' = "yes" => Filled(head) \cap Listed \subseteq placed
  /\ \A s \in placed' \ placed :
       s \in Listed /\ (head[s] # clone[s] => "pruneIncomplete" \in said)
  /\ \A s \in named' \ named :
       s \in Listed /\ (head[s] = Absent => "pruneIncomplete" \in said)

\* The step that writes the marker, the one that ends a copy and the one that
\* compares are the three the promise is about; the rest hold nothing new.
LEMMA StepIsHonest ==
  ASSUME SettingsInv, [SettingsNext]_settingsVars
  PROVE  Honest
<1>. USE DEF SettingsInv, SettingsTypeOK, SeedKnows, CloneIsHonest
<1>1. CASE Compare
  <2>1. marker' = marker /\ placed' = placed
    BY <1>1 DEF Compare, ondevice, seeding
  <2>2. ASSUME NEW s \in named' \ named
        PROVE  s \in Listed /\ (head[s] = Absent => "pruneIncomplete" \in said)
    <3>1. s \in Selected(clone)
      BY <1>1, <2>2 DEF Compare
    <3>2. s \in Listed /\ clone[s] # Absent
      BY <3>1 DEF Selected, Filled
    <3>3. clone = head \/ "pruneIncomplete" \in said
      BY <1>1 DEF Compare
    <3>. QED
      BY <3>2, <3>3
  <2>. QED
    BY <2>1, <2>2 DEF Honest
<1>2. CASE FillCopy
  <2>1. marker' = marker /\ named' = named /\ placed' = placed \cup {open}
    BY <1>2 DEF FillCopy, SeedVars
  <2>2. open \in Listed /\ (clone = head \/ "pruneIncomplete" \in said)
    BY <1>2 DEF FillCopy
  <2>. QED
    BY <2>1, <2>2 DEF Honest
<1>3. CASE Mark
  <2>1. placed' = placed /\ named' = named
    BY <1>3 DEF Mark, SeedVars
  <2>2. Filled(head) \subseteq Filled(clone) /\ Selected(clone) \subseteq placed
    BY <1>3 DEF Mark, Vouchable
  <2>. QED
    BY <2>1, <2>2 DEF Honest, Selected
<1>4. CASE Park \/ SkipPark \/ FetchNothing \/ FetchAndCheckOut \/ CheckoutRefused
  BY <1>4 DEF Park, SkipPark, FetchNothing, FetchAndCheckOut, CheckoutRefused, NewCycle,
              EndsTheCycle, ondevice, seeding, Honest
<1>5. CASE Walk \/ NoSource \/ OpenCopy \/ WithholdMark \/ CannotMark
  BY <1>5 DEF Walk, NoSource, OpenCopy, WithholdMark, CannotMark, EndsTheCycle, SeedVars,
              ondevice, Honest
<1>6. CASE Finish \/ Dies \/ GitKilled \/ StopsOnLock
  BY <1>6 DEF Finish, Dies, GitKilled, StopsOnLock, EndsTheCycle, ondevice, seeding, Honest
<1>7. CASE Touch \/ Reset \/ Commit \/ LoseClone
  BY <1>7 DEF Touch, Reset, Commit, LoseClone, ondevice, Others, seeding, Honest
<1>8. CASE UNCHANGED settingsVars
  BY <1>8 DEF settingsVars, ondevice, seeding, Honest
<1>. QED
  BY <1>1, <1>2, <1>3, <1>4, <1>5, <1>6, <1>7, <1>8 DEF SettingsNext, CycleStep

\* The marker is written only by a seed that copied all the commit holds of
\* the allowlist, and no file is seeded, or named as diverged, that the commit
\* does not hold, but in a cycle whose log owns up to an incomplete prune
\* (SeedIsTheCommit; seed_baseline, _prune_obsidian_residue).
THEOREM SeedStaysTheCommit == SettingsSpec => SeedIsTheCommit
<1>1. SettingsInv /\ [SettingsNext]_settingsVars => [Honest]_settingsVars
  BY StepIsHonest
<1>2. [][Honest]_settingsVars => SeedIsTheCommit
  <2>1. [Honest]_settingsVars => 
          [/\ marker = "no" /\ marker' = "yes" => Filled(head) \cap Listed \subseteq placed
           /\ \A s \in placed' \ placed :
                s \in Listed /\ (head[s] # clone[s] => "pruneIncomplete" \in said)
           /\ \A s \in named' \ named :
                s \in Listed /\ (head[s] = Absent => "pruneIncomplete" \in said)]_settingsVars
    BY DEF Honest
  <2>. QED
    BY <2>1, PTL DEF SeedIsTheCommit
<1>. QED
  BY <1>1, <1>2, SettingsInvariant, PTL DEF SettingsSpec

-----------------------------------------------------------------------------
\* Of a device whose spool and settings are both under way, in any of the
\* behaviours the model explores, every variable keeps its type (DeviceTypeOK).
THEOREM DeviceTypeCorrect == Spec => []DeviceTypeOK
<1>. DEFINE Inv == SpoolInv /\ SettingsTypeOK
<1>1. Init => Inv
  BY SpoolInvAtFirst, SettingsTypesAtFirst DEF Init
<1>2. Inv /\ [SpoolPart \/ SettingsPart]_deviceVars => Inv'
  <2>. SUFFICES ASSUME Inv, [SpoolPart \/ SettingsPart]_deviceVars
                PROVE  Inv'
    OBVIOUS
  <2>1. [SpoolNext]_spoolVars
    BY DEF SpoolPart, SettingsPart, deviceVars
  <2>2. [SettingsNext]_settingsVars
    BY DEF SpoolPart, SettingsPart, deviceVars
  <2>. QED
    BY <2>1, <2>2, SpoolInvKept, SettingsTypesKept
<1>3. Inv => DeviceTypeOK
  BY DEF SpoolInv, DeviceTypeOK
<1>. QED
  BY <1>1, <1>2, <1>3, PTL DEF Spec
=============================================================================
