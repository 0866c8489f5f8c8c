------------------------------- MODULE LintPass -------------------------------
(***************************************************************************)
(* The lint pass: it reads every note off a mount, works out a fix for     *)
(* each that has one, and writes the fixes through the MCP server one by   *)
(* one, each only if the note read back is the one it was computed from;   *)
(* then it records what it did.  Passes repeat, may overlap (a scheduled   *)
(* one and one started by hand), and may be killed between any two calls.  *)
(* People and other writers edit notes all the while, and no write takes a *)
(* precondition.                                                           *)
(*                                                                         *)
(* A note is a block of Normalise or, if it cannot be decoded or parsed,   *)
(* Garbled; its hash is its identity.  The audit trail is its rows.  The   *)
(* report, the log line and the digest touch no note and count here for    *)
(* their failures alone.  One day is modelled: one audit note.             *)
(***************************************************************************)
EXTENDS Normalise

CONSTANTS
  Passes,     \* passes that may be under way at once
  Notes,      \* numbered in the order the pass takes them
  Zone,       \* path -> its zone
  Absent,     \* no file at the path
  Garbled,    \* a note that is no text, or has no block the dialect reads
  NoNote,     \* no note in hand
  Originals,  \* vaults to begin with
  Edits,      \* path -> what somebody may leave there
  Tries,      \* attempts of a call of the MCP client
  MaxEdits, MaxFaults  \* bounds

IsNote(v) == v \in {Absent, Garbled} \/ WellFormed(v)

ASSUME LintPassAssumption ==
  /\ Garbled # Absent /\ Notes \subseteq Nat /\ NoNote \notin Notes
  /\ Zone \in [Notes -> {"curated", "agent", "elsewhere", "raw", "exempt"}]
  /\ \A v \in Originals : DOMAIN v = Notes /\ \A n \in Notes : IsNote(v[n])
  /\ \A n \in Notes : \A c \in Edits[n] : IsNote(c)
  /\ Tries \in Nat \ {0} /\ MaxEdits \in Nat /\ MaxFaults \in Nat

VARIABLES
  vault,     \* path -> what is there
  audit,     \* the rows of the day's audit note; none, and there is no note
  late,      \* writes the server has yet to carry out for a caller that gave up
  pc, toread, snap, auditSeen, todo, inhand, tries, applied, failing, outcome,
             \* of each pass: where it is; the notes it has to read; what it
             \* read; whether the audit note was there; the notes it has to
             \* fix; the one it is writing and the attempts left; what it
             \* knows it applied; has anything failed; how it ended
  edits, faults,  \* how many more may come
  \* The rest is observation: no step of the program reads it.
  owed,      \* path -> what somebody other than a pass last left there
  raced,     \* paths somebody wrote to after a pass had read them back
  made       \* pass -> the rows of the fixes it made

files == <<vault, audit, late>>
passVars == <<pc, toread, snap, auditSeen, todo, inhand, tries, applied, failing, outcome>>
ghosts == <<owed, raced, made>>
vars == <<files, passVars, edits, faults, ghosts>>

YesNo == {"yes", "no"}

TypeOK ==
  /\ DOMAIN vault = Notes /\ DOMAIN owed = Notes
  /\ \A n \in Notes : IsNote(vault[n]) /\ IsNote(owed[n])
  /\ \A r \in audit : r[1] \in Notes
  /\ \A w \in late : w[1] \in Notes
  /\ pc \in [Passes -> {"idle", "read", "fix", "write", "audit", "records"}]
  /\ toread \in [Passes -> SUBSET Notes] /\ todo \in [Passes -> SUBSET Notes]
  /\ auditSeen \in [Passes -> YesNo] /\ failing \in [Passes -> YesNo]
  /\ inhand \in [Passes -> Notes \cup {NoNote}] /\ tries \in [Passes -> 0..Tries]
  /\ outcome \in [Passes -> {"none", "ok", "failed", "died"}]
  /\ raced \subseteq Notes /\ edits \in Nat /\ faults \in Nat

Fault == faults > 0 /\ faults' = faults - 1
Fine == UNCHANGED faults

Init ==
  /\ vault \in Originals /\ owed = vault
  /\ audit = {} /\ late = {} /\ raced = {}
  /\ pc = [p \in Passes |-> "idle"]
  /\ toread = [p \in Passes |-> {}] /\ todo = [p \in Passes |-> {}]
  /\ snap = [p \in Passes |-> [n \in Notes |-> Absent]]
  /\ auditSeen = [p \in Passes |-> "no"]
  /\ inhand = [p \in Passes |-> NoNote] /\ tries = [p \in Passes |-> 0]
  /\ applied = [p \in Passes |-> {}] /\ made = [p \in Passes |-> {}]
  /\ failing = [p \in Passes |-> "no"] /\ outcome = [p \in Passes |-> "none"]
  /\ edits \in 0..MaxEdits /\ faults \in 0..MaxFaults

-----------------------------------------------------------------------------
(* decide.                                                                 *)

Judged == {n \in Notes : Zone[n] \in {"curated", "agent", "elsewhere"}}

Admitted(n, b) == Zone[n] # "curated" \/ Refusals(b) = {}

\* Mutant of Planned: a fix is planned whatever admission says of it.
PlannedMutUngated(seen) ==
  {n \in Judged : seen[n] \notin {Absent, Garbled} /\ Changes(seen[n]) # {}}

\* The notes a pass that read `seen` sets out to fix.
Planned(seen) ==
  {n \in Judged : /\ seen[n] \notin {Absent, Garbled}
                  /\ Changes(seen[n]) # {}
                  /\ Admitted(n, Normal(seen[n]))}

Least(s) == CHOOSE n \in s : \A m \in s : n <= m
FixOf(p, n) == Normal(snap[p][n])
RowOf(p, n) == <<n, snap[p][n], FixOf(p, n)>>

-----------------------------------------------------------------------------
(* read_vault: off the mount, file by file.                                *)

Start(p) ==
  /\ pc[p] = "idle"
  /\ pc' = [pc EXCEPT ![p] = "read"]
  /\ toread' = [toread EXCEPT ![p] = {n \in Notes : vault[n] # Absent}]
  /\ made' = [made EXCEPT ![p] = {}] /\ outcome' = [outcome EXCEPT ![p] = "none"]
  /\ UNCHANGED <<files, snap, auditSeen, todo, inhand, tries, applied, failing,
                 edits, faults, owed, raced>>

\* The process ends, and what it knew with it.
Exit(p, how) ==
  /\ pc' = [pc EXCEPT ![p] = "idle"] /\ outcome' = [outcome EXCEPT ![p] = how]
  /\ toread' = [toread EXCEPT ![p] = {}] /\ todo' = [todo EXCEPT ![p] = {}]
  /\ snap' = [snap EXCEPT ![p] = [n \in Notes |-> Absent]]
  /\ auditSeen' = [auditSeen EXCEPT ![p] = "no"] /\ failing' = [failing EXCEPT ![p] = "no"]
  /\ inhand' = [inhand EXCEPT ![p] = NoNote] /\ tries' = [tries EXCEPT ![p] = 0]
  /\ applied' = [applied EXCEPT ![p] = {}]

\* A file gone since it was listed ends the pass.
ReadFile(p) ==
  /\ pc[p] = "read"
  /\ toread[p] # {}
  /\ LET n == Least(toread[p]) IN
       IF vault[n] # Absent
       THEN /\ snap' = [snap EXCEPT ![p][n] = vault[n]]
            /\ toread' = [toread EXCEPT ![p] = @ \ {n}]
            /\ UNCHANGED <<pc, auditSeen, todo, inhand, tries, applied, failing, outcome>>
       ELSE Exit(p, "died")
  /\ UNCHANGED <<files, edits, faults, ghosts>>

\* decide, and the connection without which every fix has failed.
Connect(p) ==
  /\ pc[p] = "read" /\ toread[p] = {}
  /\ auditSeen' = [auditSeen EXCEPT ![p] = IF audit = {} THEN "no" ELSE "yes"]
  /\ \/ /\ todo' = [todo EXCEPT ![p] = Planned(snap[p])]
        /\ UNCHANGED failing /\ Fine
     \/ /\ todo' = [todo EXCEPT ![p] = {}]
        /\ failing' = [failing EXCEPT ![p] = "yes"] /\ Fault
  /\ pc' = [pc EXCEPT ![p] = "fix"]
  /\ UNCHANGED <<files, toread, snap, inhand, tries, applied, outcome, edits, ghosts>>

-----------------------------------------------------------------------------
(* apply_fixes.                                                            *)

\* Mutant of SameAsRead: the note need only be there still.
SameAsReadMutPresent(p, n) == vault[n] # Absent

\* Mutant of SameAsRead: the hash compared is the fixed note's.
SameAsReadMutPost(p, n) == vault[n] = FixOf(p, n)

SameAsRead(p, n) == vault[n] = snap[p][n]

ReadBack(p) ==
  /\ pc[p] = "fix"
  /\ todo[p] # {}
  /\ LET n == Least(todo[p]) IN
       /\ todo' = [todo EXCEPT ![p] = @ \ {n}]
       /\ IF SameAsRead(p, n)
          THEN /\ inhand' = [inhand EXCEPT ![p] = n]
               /\ tries' = [tries EXCEPT ![p] = Tries]
               /\ pc' = [pc EXCEPT ![p] = "write"]
          ELSE UNCHANGED <<inhand, tries, pc>>
  /\ UNCHANGED <<files, toread, snap, auditSeen, applied, failing, outcome, edits, faults, ghosts>>

ReadBackFails(p) ==
  /\ pc[p] = "fix" /\ todo[p] # {} /\ Fault
  /\ todo' = [todo EXCEPT ![p] = @ \ {Least(@)}]
  /\ failing' = [failing EXCEPT ![p] = "yes"]
  /\ UNCHANGED <<files, pc, toread, snap, auditSeen, inhand, tries, applied, outcome, edits, ghosts>>

Lands(p, n) ==
  /\ vault' = [vault EXCEPT ![n] = FixOf(p, n)]
  /\ made' = [made EXCEPT ![p] = @ \cup {RowOf(p, n)}]

PutDown(p) ==
  inhand' = [inhand EXCEPT ![p] = NoNote] /\ pc' = [pc EXCEPT ![p] = "fix"]
    /\ tries' = [tries EXCEPT ![p] = 0]

\* The write, whatever became of the note since it was read back.
Write(p) ==
  /\ pc[p] = "write"
  /\ Lands(p, inhand[p])
  /\ applied' = [applied EXCEPT ![p] = @ \cup {RowOf(p, inhand[p])}]
  /\ PutDown(p)
  /\ UNCHANGED <<audit, late, toread, snap, auditSeen, todo, failing, outcome,
                 edits, faults, owed, raced>>

\* An attempt that is not answered: it landed, never will, or will later.  It
\* is tried again, without the note being read again, until the tries are out.
WriteUnanswered(p) ==
  /\ pc[p] = "write" /\ Fault
  /\ \/ Lands(p, inhand[p]) /\ UNCHANGED late
     \/ UNCHANGED <<vault, made, late>>
     \/ late' = late \cup {<<inhand[p], FixOf(p, inhand[p])>>} /\ UNCHANGED <<vault, made>>
  /\ IF tries[p] > 1
     THEN tries' = [tries EXCEPT ![p] = @ - 1] /\ UNCHANGED <<inhand, pc, failing>>
     ELSE PutDown(p) /\ failing' = [failing EXCEPT ![p] = "yes"]
  /\ UNCHANGED <<audit, toread, snap, auditSeen, todo, applied, outcome, edits, owed, raced>>

\* A refusal is not tried again.
WriteRefused(p) ==
  /\ pc[p] = "write" /\ Fault
  /\ PutDown(p)
  /\ failing' = [failing EXCEPT ![p] = "yes"]
  /\ UNCHANGED <<vault, audit, late, toread, snap, auditSeen, todo, applied, outcome, edits,
                 owed, raced, made>>

-----------------------------------------------------------------------------
(* The records.                                                            *)

FixesDone(p) ==
  /\ pc[p] = "fix" /\ todo[p] = {}
  /\ pc' = [pc EXCEPT ![p] = IF applied[p] = {} THEN "records" ELSE "audit"]
  /\ UNCHANGED <<files, toread, snap, auditSeen, todo, inhand, tries, applied,
                 failing, outcome, edits, faults, ghosts>>

\* Mutant of Recorded: the note is written over, an earlier pass's rows with it.
RecordedMutOver(p) == applied[p]

Recorded(p) == audit \cup applied[p]

\* An append creates the note if it is gone; a create is refused if it came.
WriteAudit(p) ==
  /\ pc[p] = "audit"
  /\ IF auditSeen[p] = "yes" \/ audit = {}
     THEN \/ audit' = Recorded(p) /\ UNCHANGED failing /\ Fine
          \/ /\ audit' \in {audit, Recorded(p)}
             /\ failing' = [failing EXCEPT ![p] = "yes"] /\ Fault
     ELSE failing' = [failing EXCEPT ![p] = "yes"] /\ UNCHANGED audit /\ Fine
  /\ pc' = [pc EXCEPT ![p] = "records"]
  /\ UNCHANGED <<vault, late, toread, snap, auditSeen, todo, inhand, tries,
                 applied, outcome, edits, ghosts>>

\* Mutant of ExitCode: only the last record decides.
ExitCodeMutLast(p, failed) == IF failed = "yes" THEN "failed" ELSE "ok"

\* Any failure of the pass fails it.
ExitCode(p, failed) == IF "yes" \in {failed, failing[p]} THEN "failed" ELSE "ok"

\* The report, the log line (which fails if log.md was not on the mount) and
\* the digest: each is tried, whatever the others do.
Finish(p) ==
  /\ pc[p] = "records"
  /\ \E failed \in YesNo : Exit(p, ExitCode(p, failed))
  /\ UNCHANGED <<files, edits, faults, ghosts>>

-----------------------------------------------------------------------------
(* Everyone else.                                                          *)

Killed(p) ==
  /\ pc[p] # "idle" /\ Fault /\ Exit(p, "died")
  /\ UNCHANGED <<files, edits, ghosts>>

LandLate ==
  \E w \in late :
    /\ vault' = [vault EXCEPT ![w[1]] = w[2]]
    /\ late' = late \ {w}
    /\ UNCHANGED <<audit, passVars, edits, faults, ghosts>>

\* Is a write to n on its way that has been read back for?
OnItsWay(n) == (\E p \in Passes : inhand[p] = n) \/ (\E w \in late : w[1] = n)

Edit ==
  /\ edits > 0 /\ edits' = edits - 1
  /\ \E n \in Notes : \E c \in Edits[n] :
       /\ c # vault[n]
       /\ vault' = [vault EXCEPT ![n] = c] /\ owed' = [owed EXCEPT ![n] = c]
       /\ raced' = IF OnItsWay(n) THEN raced \cup {n} ELSE raced \ {n}
  /\ UNCHANGED <<audit, late, passVars, faults, made>>

PassStep(p) ==
  \/ Start(p) \/ ReadFile(p) \/ Connect(p) \/ ReadBack(p) \/ ReadBackFails(p)
  \/ Write(p) \/ WriteUnanswered(p) \/ WriteRefused(p)
  \/ FixesDone(p) \/ WriteAudit(p) \/ Finish(p)

Next == (\E p \in Passes : PassStep(p) \/ Killed(p)) \/ LandLate \/ Edit

Spec == Init /\ [][Next]_vars

\* Passes are scheduled for ever, and a write under way is carried out.
FairSpec == Spec /\ (\A p \in Passes : WF_vars(PassStep(p))) /\ WF_vars(LandLate)

-----------------------------------------------------------------------------
\* Nothing anybody else wrote is lost to a fix: a note holds what they left
\* there, or what normalisation makes of it, unless they wrote to it after a
\* pass had read it back (apply_fixes).
EditsSurvive ==
  \A n \in Notes \ raced :
    \/ vault[n] = owed[n]
    \/ owed[n] \notin {Absent, Garbled} /\ vault[n] = Normal(owed[n])

\* A pass that exits zero has every fix it made in the day's audit trail,
\* those whose answer was lost included, and no later pass takes it out
\* (run_pass).
AuditTellsAll ==
  \A p \in Passes : outcome[p] = "ok" => made[p] \subseteq audit

\* A note a fix was the last to write is finished: there is nothing left to
\* fix, admission takes it, every word somebody wrote is there in its place,
\* and nothing is said that they did not say but the dates the file itself
\* gives away (normalise, ADR-0018's claims).
FixedNotesStand ==
  \A n \in Notes \ raced :
    LET b == owed[n]
        c == vault[n]
    IN c # b =>
         /\ Changes(c) = {}
         /\ n \in Judged /\ (Zone[n] = "curated" => Refusals(c) = {})
         /\ \A k \in Keys(b) : Says(b, k) =>
              \/ c.value[k] = b.value[k]
              \/ HasType(k, "date") /\ c.value[k] = IsoOf[b.value[k]]
              \/ k = "tags" /\ c.value[k] = LowerOf[b.value[k]]
         /\ Keys(b) \subseteq Keys(c)
         /\ \A k \in Keys(c) \ Stamped : Says(c, k) => Says(b, k)
         /\ Without(c.order, Fields) = Without(b.order, Fields)

\* Once the edits and the failures stop, every note the pass judges is as
\* normalisation has it, but those admission would refuse and those nobody
\* can parse (run_pass, repeated).
NotesGetNormalised == <>[](Planned(vault) = {})

=============================================================================
