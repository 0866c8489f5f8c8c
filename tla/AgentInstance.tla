---------------------------- MODULE AgentInstance ----------------------------
(***************************************************************************)
(* The agent MCP instance a batch run stops, the batch lease beside it,    *)
(* the runs that take and release them, the watchdog that cleans up after  *)
(* a run that died, and an operator who scales the instance by hand.       *)
(*                                                                         *)
(* Every call to the Kubernetes API is a step of its own: the grant allows *)
(* no request that writes the scale and the lease together, so a crash, a  *)
(* failed call or another process may come between any two of them.  A     *)
(* call ends in one of three ways (Outcomes): it is answered, it is        *)
(* refused, or it lands and its answer is lost; the caller sees an         *)
(* AgentInstanceError in the last two.                                     *)
(*                                                                         *)
(* What a run does between its stop and its start (the drain) is module    *)
(* BatchProcessor's; here it is a phase in which the run may renew.        *)
(***************************************************************************)
EXTENDS Integers, FiniteSets

CONSTANTS
  Runs,         \* batch runs; each is one process, started at most once
  NoRun,        \* the holder of a lease nobody holds
  TTL,          \* BATCH_LEASE_TTL_SECONDS
  MaxGap,       \* the longest a live run goes between two signs of life
  HandRuns,     \* may a hand-run Job start beside a live run?
  Horizon,      \* bound: no lease is acquired or renewed after this time
  MaxFaults,    \* bound: API calls that fail
  MaxOperator   \* bound: operator interventions

ASSUME AgentInstanceAssumption ==
  /\ NoRun \notin Runs
  /\ TTL \in Nat \ {0}
  /\ MaxGap \in Nat \ {0}
  /\ HandRuns \in BOOLEAN
  /\ Horizon \in Nat
  /\ MaxFaults \in Nat
  /\ MaxOperator \in Nat

VARIABLES
  replicas,     \* spec.replicas of the instance's Deployment
  lease,        \* the spec of the batch Lease
  pc,           \* run -> where it is
  wd,           \* the watchdog's pass: where it is and what it has read
  clock,
  faults,       \* API failures still allowed
  interventions,\* operator interventions still allowed
  \* The rest is observation: no step of the program reads it.
  signed,       \* run -> when it last acquired or renewed
  stoppedBy,    \* who scaled the instance to zero last; "hold" is an
                \* operator who found no lease, while that hold stands
  startedBy,    \* who scaled the instance up last
  disputed      \* runs that took the lease over somebody still acting on it

vars == <<replicas, lease, pc, wd, clock, faults, interventions,
          signed, stoppedBy, startedBy, disputed>>
ghosts == <<signed, stoppedBy, startedBy, disputed>>

STOPPED_REPLICAS == 0
RUNNING_REPLICAS == 1

NoTime == -1
Time == Nat \cup {NoTime}
Phases == {"new", "stopping", "draining", "starting", "releasing", "gone"}
Outcomes == {"ok", "refused", "lost"}
Actors == {"nobody", "run", "watchdog", "operator", "hold"}

TypeOK ==
  /\ replicas \in {STOPPED_REPLICAS, RUNNING_REPLICAS}
  /\ lease \in [holder : Runs \cup {NoRun}, renewed : Time, duration : Time]
  /\ pc \in [Runs -> Phases]
  /\ wd \in [pc : {"idle", "lease", "start", "release"},
             now : Nat, replicas : {STOPPED_REPLICAS, RUNNING_REPLICAS}]
  /\ clock \in Nat
  /\ faults \in Nat
  /\ interventions \in Nat
  /\ signed \in [Runs -> Nat]
  /\ stoppedBy \in Actors \ {"watchdog"}
  /\ startedBy \in Actors
  /\ disputed \subseteq Runs

-----------------------------------------------------------------------------
(* The lease: a merge patch names only the fields it owns.                 *)

Released == [holder |-> NoRun, renewed |-> NoTime, duration |-> NoTime]

AcquiredBy(r) == [holder |-> r, renewed |-> clock, duration |-> TTL]

\* Mutants of Renewed: the renewal re-sends the old stamp; it replaces the
\* whole spec as the seam's predecessor did, losing the duration; it stamps
\* the start of the covered interval instead of the moment of renewal.
RenewedMutStale(l, now) == [l EXCEPT !.holder = l.holder]
RenewedMutReplaces(l, now) == [l EXCEPT !.renewed = now, !.duration = NoTime]
RenewedMutBackdates(l, now) == [l EXCEPT !.renewed = now - TTL]

Renewed(l, now) == [l EXCEPT !.renewed = now]

LeaseDeadline(l) ==
  IF l.renewed = NoTime \/ l.duration = NoTime
  THEN NoTime
  ELSE l.renewed + l.duration

\* Mutants of Decide: an absent lease counts as an expired one; the deadline
\* is not looked at; a stopped instance is only reported; debris is left.
DecideMutAbsentExpired(up, deadline, now) ==
  CASE up /\ deadline # NoTime /\ now >= deadline -> "release_stale"
    [] ~up /\ now >= deadline -> "restart"
    [] ~up /\ now < deadline -> "held"
    [] OTHER -> "running"
DecideMutImpatient(up, deadline, now) ==
  CASE up -> "running"
    [] ~up /\ deadline # NoTime -> "restart"
    [] OTHER -> "not_ours"
DecideMutTimid(up, deadline, now) ==
  CASE up /\ deadline # NoTime /\ now >= deadline -> "release_stale"
    [] up -> "running"
    [] OTHER -> "held"
DecideMutLeavesDebris(up, deadline, now) ==
  CASE up -> "running"
    [] ~up /\ deadline # NoTime /\ now >= deadline -> "restart"
    [] OTHER -> "held"

Decide(up, deadline, now) ==
  CASE up /\ deadline # NoTime /\ now >= deadline -> "release_stale"
    [] up /\ ~(deadline # NoTime /\ now >= deadline) -> "running"
    [] ~up /\ deadline = NoTime -> "not_ours"
    [] ~up /\ deadline # NoTime /\ now >= deadline -> "restart"
    [] ~up /\ deadline # NoTime /\ now < deadline -> "held"

-----------------------------------------------------------------------------
Lands(outcome) == outcome # "refused"

\* Every failed call is paid for out of MaxFaults.
Spend(outcome) ==
  IF outcome = "ok" THEN UNCHANGED faults
  ELSE faults > 0 /\ faults' = faults - 1

Running == replicas > 0
Undisputed == disputed = {}
ByOperator == stoppedBy \in {"operator", "hold"}
HoldEnds == IF stoppedBy = "hold" THEN "operator" ELSE stoppedBy

Live(r) == pc[r] \in {"stopping", "draining", "starting", "releasing"}
Goto(r, phase) == pc' = [pc EXCEPT ![r] = phase]

Init ==
  /\ replicas = RUNNING_REPLICAS
  /\ lease = Released
  /\ pc = [r \in Runs |-> "new"]
  /\ wd = [pc |-> "idle", now |-> 0, replicas |-> RUNNING_REPLICAS]
  /\ clock = 0
  /\ faults = MaxFaults
  /\ interventions = MaxOperator
  /\ signed = [r \in Runs |-> 0]
  /\ stoppedBy = "nobody"
  /\ startedBy = "nobody"
  /\ disputed = {}

(***************************************************************************)
(* A run.  begin_run is called outside the try: if it fails, the run ends  *)
(* without end_run.  Everything after it is inside, so a drain that ends   *)
(* or raises goes on to start the instance; end_run's own failure is only  *)
(* logged, and a start that fails leaves the lease in place.               *)
(***************************************************************************)

\* concurrencyPolicy: Forbid keeps scheduled runs apart, never a hand-run Job.
MayStart(r) == HandRuns \/ \A q \in Runs \ {r} : ~Live(q)

\* {r} if r acquires beside a live run, or between a watchdog's decision and
\* its last write.
Disputed(r) ==
  IF wd.pc \in {"start", "release"} \/ \E q \in Runs \ {r} : Live(q)
  THEN {r} ELSE {}

AcquireLease(r, outcome) ==
  /\ pc[r] = "new"
  /\ MayStart(r)
  /\ clock <= Horizon
  /\ Spend(outcome)
  /\ lease' = IF Lands(outcome) THEN AcquiredBy(r) ELSE lease
  /\ Goto(r, IF outcome = "ok" THEN "stopping" ELSE "gone")
  /\ signed' = [signed EXCEPT ![r] = clock]
  /\ stoppedBy' = IF Lands(outcome) THEN HoldEnds ELSE stoppedBy
  /\ disputed' = disputed \cup Disputed(r)
  /\ UNCHANGED <<replicas, wd, clock, interventions, startedBy>>

StopInstance(r, outcome) ==
  /\ pc[r] = "stopping"
  /\ Spend(outcome)
  /\ replicas' = IF Lands(outcome) THEN STOPPED_REPLICAS ELSE replicas
  /\ stoppedBy' = IF Lands(outcome) THEN "run" ELSE stoppedBy
  /\ Goto(r, IF outcome = "ok" THEN "draining" ELSE "gone")
  /\ UNCHANGED <<lease, wd, clock, interventions, signed, startedBy,
                 disputed>>

\* Before each chunk and while yielding.  A renewal that fails raises out of
\* the drain, into the finally.
RenewLease(r, outcome) ==
  /\ pc[r] = "draining"
  /\ clock <= Horizon
  /\ Spend(outcome)
  /\ lease' = IF Lands(outcome) THEN Renewed(lease, clock) ELSE lease
  /\ Goto(r, IF outcome = "ok" THEN "draining" ELSE "starting")
  /\ signed' = [signed EXCEPT ![r] = IF Lands(outcome) THEN clock ELSE @]
  /\ UNCHANGED <<replicas, wd, clock, interventions, stoppedBy, startedBy,
                 disputed>>

\* The drain returned, or raised something other than a failed renewal.
EndDrain(r) ==
  /\ pc[r] = "draining"
  /\ Goto(r, "starting")
  /\ UNCHANGED <<replicas, lease, wd, clock, faults, interventions, ghosts>>

StartInstance(r, outcome) ==
  /\ pc[r] = "starting"
  /\ Spend(outcome)
  /\ replicas' = IF Lands(outcome) THEN RUNNING_REPLICAS ELSE replicas
  /\ startedBy' = IF Lands(outcome) THEN "run" ELSE startedBy
  /\ Goto(r, IF outcome = "ok" THEN "releasing" ELSE "gone")
  /\ UNCHANGED <<lease, wd, clock, interventions, signed, stoppedBy, disputed>>

ReleaseLease(r, outcome) ==
  /\ pc[r] = "releasing"
  /\ Spend(outcome)
  /\ lease' = IF Lands(outcome) THEN Released ELSE lease
  /\ Goto(r, "gone")
  /\ UNCHANGED <<replicas, wd, clock, interventions, ghosts>>

\* The process is killed, between any two calls.
Crash(r) ==
  /\ Live(r)
  /\ Goto(r, "gone")
  /\ UNCHANGED <<replicas, lease, wd, clock, faults, interventions, ghosts>>

(***************************************************************************)
(* The watchdog: one pass takes the time, reads the scale, reads the       *)
(* lease, decides, and acts.  Nothing holds what it read in place.         *)
(***************************************************************************)

WatchdogReadsScale ==
  /\ wd.pc = "idle"
  /\ wd' = [pc |-> "lease", now |-> clock, replicas |-> replicas]
  /\ UNCHANGED <<replicas, lease, pc, clock, faults, interventions, ghosts>>

WatchdogReadsLease ==
  /\ wd.pc = "lease"
  /\ LET verdict == Decide(wd.replicas > 0, LeaseDeadline(lease), wd.now)
     IN wd' = [wd EXCEPT !.pc = CASE verdict = "restart" -> "start"
                                  [] verdict = "release_stale" -> "release"
                                  [] OTHER -> "idle"]
  /\ UNCHANGED <<replicas, lease, pc, clock, faults, interventions, ghosts>>

\* A pass that cannot read has learned nothing: it ends.
WatchdogCannotRead ==
  /\ wd.pc \in {"idle", "lease"}
  /\ Spend("refused")
  /\ wd' = [wd EXCEPT !.pc = "idle"]
  /\ UNCHANGED <<replicas, lease, pc, clock, interventions, ghosts>>

WatchdogStarts(outcome) ==
  /\ wd.pc = "start"
  /\ Spend(outcome)
  /\ replicas' = IF Lands(outcome) THEN RUNNING_REPLICAS ELSE replicas
  /\ startedBy' = IF Lands(outcome) THEN "watchdog" ELSE startedBy
  /\ wd' = [wd EXCEPT !.pc = IF outcome = "ok" THEN "release" ELSE "idle"]
  /\ UNCHANGED <<lease, pc, clock, interventions, signed, stoppedBy,
                 disputed>>

WatchdogReleases(outcome) ==
  /\ wd.pc = "release"
  /\ Spend(outcome)
  /\ lease' = IF Lands(outcome) THEN Released ELSE lease
  /\ wd' = [wd EXCEPT !.pc = "idle"]
  /\ UNCHANGED <<replicas, pc, clock, interventions, ghosts>>

-----------------------------------------------------------------------------
(* The environment: the operator (kubectl scale) and time.                 *)

OperatorStops ==
  /\ Running
  /\ interventions > 0
  /\ interventions' = interventions - 1
  /\ replicas' = STOPPED_REPLICAS
  /\ stoppedBy' = IF LeaseDeadline(lease) = NoTime THEN "hold" ELSE "operator"
  /\ UNCHANGED <<lease, pc, wd, clock, faults, signed, startedBy, disputed>>

OperatorStarts ==
  /\ ~Running
  /\ interventions > 0
  /\ interventions' = interventions - 1
  /\ replicas' = RUNNING_REPLICAS
  /\ startedBy' = "operator"
  /\ stoppedBy' = HoldEnds
  /\ UNCHANGED <<lease, pc, wd, clock, faults, signed, disputed>>

\* Time passes, but a live run never goes MaxGap without a sign of life.
Tick ==
  /\ clock < Horizon + TTL
  /\ \A r \in Runs : Live(r) => clock < signed[r] + MaxGap
  /\ clock' = clock + 1
  /\ UNCHANGED <<replicas, lease, pc, wd, faults, interventions, ghosts>>

-----------------------------------------------------------------------------
RunStep(r, outcome) ==
  \/ AcquireLease(r, outcome)
  \/ StopInstance(r, outcome)
  \/ RenewLease(r, outcome)
  \/ StartInstance(r, outcome)
  \/ ReleaseLease(r, outcome)

Next ==
  \/ \E r \in Runs, outcome \in Outcomes : RunStep(r, outcome)
  \/ \E r \in Runs : EndDrain(r) \/ Crash(r)
  \/ WatchdogReadsScale \/ WatchdogReadsLease \/ WatchdogCannotRead
  \/ \E outcome \in Outcomes : WatchdogStarts(outcome) \/ WatchdogReleases(outcome)
  \/ OperatorStops \/ OperatorStarts
  \/ Tick

Spec == Init /\ [][Next]_vars

(***************************************************************************)
(* Fairness.  A run's calls all have timeouts and bounded retries and its  *)
(* drain ends with the stream or with too many yields, so a run that is    *)
(* not killed goes on; a watchdog pass is scheduled again and again, in a  *)
(* process of its own; time passes.                                        *)
(***************************************************************************)
RunGoesOn(r) ==
  \/ StopInstance(r, "ok") \/ EndDrain(r)
  \/ StartInstance(r, "ok") \/ ReleaseLease(r, "ok")

WatchdogPass ==
  \/ WatchdogReadsScale \/ WatchdogReadsLease
  \/ WatchdogStarts("ok") \/ WatchdogReleases("ok")

FairSpec ==
  /\ Spec
  /\ \A r \in Runs : WF_vars(RunGoesOn(r))
  /\ WF_vars(WatchdogPass)
  /\ WF_vars(Tick)

-----------------------------------------------------------------------------
(* Safety.  Each holds for every run that renews within the TTL, as long   *)
(* as no run acquired the lease beside a live run or in the window between *)
(* a watchdog's decision and its last write.                               *)

\* "Stopped with no lease" is an operator's doing: whatever crashes and
\* whichever call fails, an instance a run stopped still has the deadline
\* the watchdog will restart it by (agent_instance.py, the order of the two
\* writes; watchdog.py, an absent lease means "not ours").
NeverStranded ==
  ~Running /\ stoppedBy = "run" /\ Undisputed => LeaseDeadline(lease) # NoTime

\* A pass that has decided to start the instance or drop the lease never
\* does it to a live run: what it found expired belongs to a run that is gone.
OnlyTheDeadAreCleanedUp ==
  wd.pc \in {"start", "release"} /\ Undisputed => \A r \in Runs : ~Live(r)

\* Interactive writers and a draining run are never let in together, unless
\* an operator opens the door by hand.
DrainHasTheDoor ==
  Undisputed => \A r \in Runs :
    pc[r] = "draining" => ~Running \/ startedBy = "operator"

\* An instance an operator stopped while no lease was held stays stopped,
\* whatever the watchdog does, until a run takes the lease or an operator
\* starts it.
HoldsAreKept == stoppedBy = "hold" /\ Undisputed => ~Running

(* Liveness.                                                               *)

\* What a run killed at the worst moment leaves is seen to: the instance it
\* stopped comes back, and its lease does not lie in wait for an operator's
\* next hold but is dropped, or taken by the next run (run_watchdog_once).
DeadRunsAreCleanedUp ==
  /\ (~Running /\ stoppedBy = "run" /\ Undisputed)
       ~> (Running \/ ByOperator \/ ~Undisputed)
  /\ (LeaseDeadline(lease) # NoTime /\ \A r \in Runs : ~Live(r))
       ~> (LeaseDeadline(lease) = NoTime \/ \E r \in Runs : Live(r))
-----------------------------------------------------------------------------
(* The inductive invariant behind the safety properties, for MaxGap < TTL. *)

AtMostOneRun == \A p, q \in Runs : Live(p) /\ Live(q) => p = q

\* A live run's lease is as fresh as its last sign of life.
LiveRunIsCovered ==
  \A r \in Runs : Live(r) => /\ lease.renewed = signed[r]
                            /\ lease.duration = TTL
                            /\ clock <= signed[r] + MaxGap

\* Whoever is about to release the lease has seen the instance come up.
ReleasedOnlyAfterStart ==
  (wd.pc = "release" \/ \E r \in Runs : pc[r] = "releasing")
    => Running \/ ByOperator

\* A run that stops the instance under a pass that saw it running has a
\* lease that pass cannot take for debris.
StoppedBehindThePass ==
  wd.pc = "lease" /\ wd.replicas > 0 /\ ~Running /\ stoppedBy = "run"
    => LeaseDeadline(lease) > wd.now

StartHasALease == wd.pc = "start" => LeaseDeadline(lease) # NoTime

HoldIsUndisturbed ==
  stoppedBy = "hold" => /\ ~Running
                        /\ LeaseDeadline(lease) = NoTime
                        /\ \A r \in Runs : ~Live(r)

Quiet ==
  /\ AtMostOneRun
  /\ LiveRunIsCovered
  /\ ReleasedOnlyAfterStart
  /\ StoppedBehindThePass
  /\ StartHasALease
  /\ HoldIsUndisturbed

IInv ==
  /\ TypeOK
  /\ wd.now <= clock
  /\ ~Running => stoppedBy # "nobody"
  /\ Undisputed => Quiet
  /\ NeverStranded
  /\ OnlyTheDeadAreCleanedUp
  /\ DrainHasTheDoor
=============================================================================
