----------------------------- MODULE SpoolDrainer -----------------------------
(***************************************************************************)
(* The local spool and its drainer.  The cycle writes one entry at a time: *)
(* to a temporary file, flushed, then renamed into place.  A drain lists   *)
(* the entries, reads each, hands it to the sink and removes its file.  A  *)
(* drain has its own schedule and may be started by hand, so a write and   *)
(* two drains may be under way at once; each may be killed between any two *)
(* of its steps.  An entry is its number in the order of the file names.   *)
(***************************************************************************)
EXTENDS Integers

CONSTANTS
  MaxEntries,   \* bound: entries written
  Drains,       \* drains that may be under way at once
  Stuck,        \* entries the sink always fails on
  MaxMishaps    \* bound: failures and kills

Entries == 1..MaxEntries
None == 0

ASSUME SpoolDrainerAssumption ==
  MaxEntries \in Nat /\ MaxMishaps \in Nat /\ Stuck \subseteq Entries

VARIABLES
  name,     \* entry -> the name its bytes are under, if any
  body,     \* entry -> whether they are all there
  writing,  \* the last entry the cycle began to write
  wpc,      \* where its write is
  relied,   \* the entries the cycle was told are stored
  dpc,      \* drain -> where it is
  listed,   \* drain -> the files it has still to come to
  sent,     \* the entries the sink took
  mishaps   \* how many failures and kills may come

writeVars == <<writing, wpc, relied>>
drainVars == <<dpc, listed, sent>>
spoolVars == <<name, body, writeVars, drainVars, mishaps>>

SpoolTypeOK ==
  /\ name \in [Entries -> {"none", "temp", "final"}]
  /\ body \in [Entries -> {"part", "whole"}]
  /\ writing \in 0..MaxEntries
  /\ wpc \in {"idle", "write", "rename", "return"}
  /\ relied \subseteq Entries
  /\ dpc \in [Drains -> {"idle", "read", "sink", "unlink"}]
  /\ listed \in [Drains -> SUBSET Entries]
  /\ sent \subseteq Entries
  /\ mishaps \in Nat

Mishap == mishaps > 0 /\ mishaps' = mishaps - 1

SpoolInit ==
  /\ name = [e \in Entries |-> "none"]
  /\ body = [e \in Entries |-> "part"]
  /\ writing = None /\ wpc = "idle" /\ relied = {}
  /\ dpc = [d \in Drains |-> "idle"]
  /\ listed = [d \in Drains |-> {}]
  /\ sent = {}
  /\ mishaps = MaxMishaps

-----------------------------------------------------------------------------
(* write_spool_entry.                                                      *)

OpenTemp ==
  /\ wpc = "idle" /\ writing < MaxEntries
  /\ writing' = writing + 1
  /\ name' = [name EXCEPT ![writing + 1] = "temp"]
  /\ wpc' = "write"
  /\ UNCHANGED <<body, relied, drainVars, mishaps>>

FlushTemp ==
  /\ wpc = "write"
  /\ body' = [body EXCEPT ![writing] = "whole"]
  /\ wpc' = "rename"
  /\ UNCHANGED <<name, writing, relied, drainVars, mishaps>>

\* Mutant of Rename: the entry is put under its name before its bytes.
RenameMutEarly ==
  /\ wpc \in {"write", "rename"}
  /\ name' = [name EXCEPT ![writing] = "final"]
  /\ wpc' = "return"
  /\ UNCHANGED <<body, writing, relied, drainVars, mishaps>>

Rename ==
  /\ wpc = "rename"
  /\ name' = [name EXCEPT ![writing] = "final"]
  /\ wpc' = "return"
  /\ UNCHANGED <<body, writing, relied, drainVars, mishaps>>

Return ==
  /\ wpc = "return"
  /\ relied' = relied \cup {writing}
  /\ wpc' = "idle"
  /\ UNCHANGED <<name, body, writing, drainVars, mishaps>>

\* SpoolWriteError: the temporary file is removed as far as it can be.
WriteFails ==
  /\ wpc \in {"write", "rename"} /\ Mishap
  /\ \E after \in {"none", "temp"} : name' = [name EXCEPT ![writing] = after]
  /\ wpc' = "idle"
  /\ UNCHANGED <<body, writing, relied, drainVars>>

WriterDies ==
  /\ wpc # "idle" /\ Mishap
  /\ wpc' = "idle"
  /\ UNCHANGED <<name, body, writing, relied, drainVars>>

-----------------------------------------------------------------------------
(* drain_once.                                                             *)

\* list_spool_files: a temporary file does not end in .json.
Listable == {e \in Entries : name[e] = "final"}

\* The files sort by name, oldest first.
Current(d) == CHOOSE e \in listed[d] : \A f \in listed[d] : e <= f

Abort(d) == listed' = [listed EXCEPT ![d] = {}] /\ dpc' = [dpc EXCEPT ![d] = "idle"]

\* Mutant of NextFile: an entry the sink fails on ends the drain.
NextFileMutStops(d) == IF dpc[d] = "sink" THEN Abort(d) ELSE
  /\ listed' = [listed EXCEPT ![d] = @ \ {Current(d)}]
  /\ dpc' = [dpc EXCEPT ![d] = IF listed[d] = {Current(d)} THEN "idle" ELSE "read"]

NextFile(d) ==
  /\ listed' = [listed EXCEPT ![d] = @ \ {Current(d)}]
  /\ dpc' = [dpc EXCEPT ![d] = IF listed[d] = {Current(d)} THEN "idle" ELSE "read"]

List(d) ==
  /\ dpc[d] = "idle" /\ Listable # {}
  /\ listed' = [listed EXCEPT ![d] = Listable]
  /\ dpc' = [dpc EXCEPT ![d] = "read"]
  /\ UNCHANGED <<name, body, writeVars, sent, mishaps>>

\* Reading is outside the try: a file another drain removed ends this one.
Read(d) ==
  /\ dpc[d] = "read"
  /\ IF name[Current(d)] = "final"
     THEN dpc' = [dpc EXCEPT ![d] = "sink"] /\ UNCHANGED listed
     ELSE Abort(d)
  /\ UNCHANGED <<name, body, writeVars, sent, mishaps>>

Sink(d) ==
  /\ dpc[d] = "sink" /\ Current(d) \notin Stuck
  /\ sent' = sent \cup {Current(d)}
  /\ dpc' = [dpc EXCEPT ![d] = "unlink"]
  /\ UNCHANGED <<name, body, writeVars, listed, mishaps>>

\* The sink raises: for a stuck entry always, for another now and then.  The
\* entry stays and the drain goes on to the next.
SinkFails(d) ==
  /\ dpc[d] = "sink"
  /\ IF Current(d) \in Stuck THEN UNCHANGED mishaps ELSE Mishap
  /\ NextFile(d)
  /\ UNCHANGED <<name, body, writeVars, sent>>

\* Mutant of Unlink: the file goes whether the sink took the entry or not.
UnlinkMutAlways(d) ==
  /\ dpc[d] \in {"sink", "unlink"}
  /\ name' = [name EXCEPT ![Current(d)] = "none"] /\ NextFile(d)
  /\ UNCHANGED <<body, writeVars, sent, mishaps>>

\* Removing is outside the try as well.
Unlink(d) ==
  /\ dpc[d] = "unlink"
  /\ IF name[Current(d)] = "final"
     THEN name' = [name EXCEPT ![Current(d)] = "none"] /\ NextFile(d)
     ELSE UNCHANGED name /\ Abort(d)
  /\ UNCHANGED <<body, writeVars, sent, mishaps>>

\* A kill, or a read or an unlink that fails for a passing reason.
DrainDies(d) ==
  /\ dpc[d] # "idle" /\ Mishap
  /\ Abort(d)
  /\ UNCHANGED <<name, body, writeVars, sent>>

-----------------------------------------------------------------------------
Write == OpenTemp \/ FlushTemp \/ Rename \/ Return
DrainStep(d) == List(d) \/ Read(d) \/ Sink(d) \/ SinkFails(d) \/ Unlink(d)

SpoolNext ==
  \/ Write \/ WriteFails \/ WriterDies
  \/ \E d \in Drains : DrainStep(d) \/ DrainDies(d)

SpoolSpec == SpoolInit /\ [][SpoolNext]_spoolVars

-----------------------------------------------------------------------------
(* The spool implements what the cycle relies on.                          *)

Held == {e \in Entries : name[e] = "final" /\ body[e] = "whole"}

Store == INSTANCE SpoolStore WITH held <- Held, taken <- sent

\* An entry comes into the spool whole or not at all, is one the cycle was
\* told of only when it is there, and leaves only after the sink took it whole:
\* whatever is killed or fails, and however many drains overlap.  The cycle
\* throws the edits of spooled entries away (drift.decide_cycle_outcome).
ImplementsSpool == Store!Spec

\* An entry the sink can take is taken in the end: one the sink is stuck on
\* does not hold up those behind it (drain_once).
EveryEntryIsDrained ==
  \A e \in Entries \ Stuck : (e \in relied) ~> (e \in sent)

=============================================================================
