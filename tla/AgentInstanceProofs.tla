------------------------- MODULE AgentInstanceProofs -------------------------
(***************************************************************************)
(* What the order of the two writes buys, for every set of runs, every     *)
(* TTL and every number of failures: the safety properties of              *)
(* AgentInstance, from the inductive invariant IInv.  TypeOK needs no      *)
(* hypothesis; the rest needs runs that renew within the TTL.              *)
(***************************************************************************)
EXTENDS AgentInstance, TLAPS

\* The initial state is well typed.
LEMMA InitType == Init => TypeOK
BY AgentInstanceAssumption
   DEF Init, TypeOK, Released, Time, NoTime, Phases, Actors,
       RUNNING_REPLICAS, STOPPED_REPLICAS

\* Every step of a run keeps the types.
LEMMA RunStepType ==
  ASSUME TypeOK, NEW r \in Runs, NEW outcome \in Outcomes, RunStep(r, outcome)
  PROVE  TypeOK'
<1> USE AgentInstanceAssumption
    DEF TypeOK, Spend, Goto, Lands, HoldEnds, Time, NoTime, Phases, Actors,
        RUNNING_REPLICAS, STOPPED_REPLICAS
<1>1. CASE AcquireLease(r, outcome)
  BY <1>1 DEF AcquireLease, AcquiredBy, Disputed
<1>2. CASE StopInstance(r, outcome)
  BY <1>2 DEF StopInstance
<1>3. CASE RenewLease(r, outcome)
  BY <1>3 DEF RenewLease, Renewed
<1>4. CASE StartInstance(r, outcome)
  BY <1>4 DEF StartInstance
<1>5. CASE ReleaseLease(r, outcome)
  BY <1>5 DEF ReleaseLease, Released, ghosts
<1>6. QED BY <1>1, <1>2, <1>3, <1>4, <1>5 DEF RunStep

\* Every step keeps the types.
LEMMA NextType == TypeOK /\ [Next]_vars => TypeOK'
<1> SUFFICES ASSUME TypeOK, [Next]_vars PROVE TypeOK'
  OBVIOUS
<1> USE AgentInstanceAssumption
    DEF TypeOK, Spend, Goto, Lands, HoldEnds, Time, NoTime, Phases, Actors,
        RUNNING_REPLICAS, STOPPED_REPLICAS
<1>1. CASE \E r \in Runs, outcome \in Outcomes : RunStep(r, outcome)
  BY <1>1, RunStepType
<1>2. CASE \E r \in Runs : EndDrain(r) \/ Crash(r)
  BY <1>2 DEF EndDrain, Crash, ghosts
<1>3. CASE WatchdogReadsScale \/ WatchdogReadsLease \/ WatchdogCannotRead
  BY <1>3 DEF WatchdogReadsScale, WatchdogReadsLease, WatchdogCannotRead, ghosts
<1>4. CASE \E outcome \in Outcomes : WatchdogStarts(outcome)
  BY <1>4 DEF WatchdogStarts
<1>5. CASE \E outcome \in Outcomes : WatchdogReleases(outcome)
  BY <1>5 DEF WatchdogReleases, Released, ghosts
<1>6. CASE OperatorStops \/ OperatorStarts
  BY <1>6 DEF OperatorStops, OperatorStarts
<1>7. CASE Tick
  BY <1>7 DEF Tick, ghosts
<1>8. CASE UNCHANGED vars
  BY <1>8 DEF vars
<1>9. QED BY <1>1, <1>2, <1>3, <1>4, <1>5, <1>6, <1>7, <1>8 DEF Next

\* Every reachable state is well typed, whatever the timing.
THEOREM TypeCorrect == Spec => []TypeOK
BY InitType, NextType, PTL DEF Spec

-----------------------------------------------------------------------------
\* The initial state satisfies the inductive invariant: nobody has done
\* anything yet.
LEMMA InitIInv == Init => IInv
<1> SUFFICES ASSUME Init PROVE IInv
  OBVIOUS
<1>1. TypeOK
  BY InitType
<1>2. Quiet
  BY AgentInstanceAssumption
     DEF Init, Quiet, AtMostOneRun, LiveRunIsCovered, ReleasedOnlyAfterStart,
         StoppedBehindThePass, StartHasALease, HoldIsUndisturbed, Live
<1>3. NeverStranded /\ OnlyTheDeadAreCleanedUp /\ DrainHasTheDoor
  BY DEF Init, NeverStranded, OnlyTheDeadAreCleanedUp, DrainHasTheDoor
<1>4. QED
  BY <1>1, <1>2, <1>3 DEF Init, IInv, Running, RUNNING_REPLICAS

\* A lease a live run keeps fresh has a deadline no pass can have reached.
LEMMA CoveredUntilDeadline ==
  ASSUME MaxGap < TTL, IInv, Undisputed, NEW r \in Runs, Live(r)
  PROVE  /\ LeaseDeadline(lease) \in Nat
         /\ LeaseDeadline(lease) > clock
BY AgentInstanceAssumption
   DEF IInv, Quiet, LiveRunIsCovered, LeaseDeadline, TypeOK, NoTime

(***************************************************************************)
(* Each action keeps the invariant.  A state in which somebody disputed    *)
(* the lease has nothing to show beyond the types, so each lemma is about  *)
(* the undisputed successor.                                               *)
(***************************************************************************)
Claims == Quiet /\ NeverStranded /\ OnlyTheDeadAreCleanedUp /\ DrainHasTheDoor

\* An acquisition nobody disputes finds no other live run and no pass about
\* to write, so the acquirer's own fresh lease is the only one that matters.
LEMMA AcquireKeeps ==
  ASSUME MaxGap < TTL, IInv, NEW r \in Runs, NEW outcome \in Outcomes,
         AcquireLease(r, outcome), Undisputed'
  PROVE  Claims'
<1>1. /\ Undisputed
      /\ wd.pc \notin {"start", "release"}
      /\ \A q \in Runs \ {r} : ~Live(q)
      /\ UNCHANGED <<replicas, wd, clock, startedBy>>
      /\ pc[r] = "new"
  BY DEF AcquireLease, Undisputed, Disputed
<1>2. PICK phase \in {"stopping", "gone"} :
        /\ pc' = [pc EXCEPT ![r] = phase]
        /\ phase = "stopping" <=> outcome = "ok"
  BY DEF AcquireLease, Goto
<1>3. signed' = [signed EXCEPT ![r] = clock]
  BY DEF AcquireLease
<1>4. \A q \in Runs \ {r} : ~Live(q)'
  BY <1>1, <1>2 DEF Live, IInv, TypeOK
<1>5. CASE Lands(outcome)
  <2>1. lease' = AcquiredBy(r) /\ stoppedBy' = HoldEnds
    BY <1>5 DEF AcquireLease
  <2>2. LeaseDeadline(lease)' = clock + TTL
    BY <2>1, AgentInstanceAssumption
       DEF LeaseDeadline, AcquiredBy, NoTime, IInv, TypeOK
  <2>3. QED
    BY <1>1, <1>2, <1>3, <1>4, <2>1, <2>2, AgentInstanceAssumption
       DEF Claims, Quiet, AtMostOneRun, LiveRunIsCovered,
           ReleasedOnlyAfterStart, StoppedBehindThePass, StartHasALease,
           HoldIsUndisturbed, NeverStranded, OnlyTheDeadAreCleanedUp,
           DrainHasTheDoor, AcquiredBy, Live, HoldEnds, NoTime, IInv, TypeOK
<1>6. CASE ~Lands(outcome)
  <2>1. UNCHANGED <<lease, stoppedBy>> /\ pc'[r] = "gone"
    BY <1>2, <1>6 DEF AcquireLease, Lands, IInv, TypeOK
  <2>2. \A q \in Runs : ~Live(q)'
    BY <1>4, <2>1 DEF Live
  <2>3. QED
    BY <1>1, <1>2, <2>1, <2>2
       DEF Claims, Quiet, AtMostOneRun, LiveRunIsCovered,
           ReleasedOnlyAfterStart, StoppedBehindThePass, StartHasALease,
           HoldIsUndisturbed, NeverStranded, OnlyTheDeadAreCleanedUp,
           DrainHasTheDoor, Live, Running, LeaseDeadline, IInv, TypeOK
<1>7. QED BY <1>5, <1>6

\* A run stops the instance under a lease whose deadline is still ahead of
\* every pass.
LEMMA StopKeeps ==
  ASSUME MaxGap < TTL, IInv, NEW r \in Runs, NEW outcome \in Outcomes,
         StopInstance(r, outcome), Undisputed'
  PROVE  Claims'
<1>1. /\ Undisputed
      /\ Live(r)
      /\ UNCHANGED <<lease, wd, clock, signed, startedBy>>
  BY DEF StopInstance, Undisputed, Live
<1>2. PICK phase \in {"draining", "gone"} :
        /\ pc' = [pc EXCEPT ![r] = phase]
        /\ phase = "draining" <=> outcome = "ok"
  BY DEF StopInstance, Goto
<1>3. /\ LeaseDeadline(lease)' \in Nat
      /\ LeaseDeadline(lease)' > clock
  BY <1>1, CoveredUntilDeadline DEF LeaseDeadline
<1>4. \A q \in Runs \ {r} : ~Live(q) /\ ~Live(q)'
  BY <1>1, <1>2 DEF IInv, Quiet, AtMostOneRun, Live, TypeOK
<1>5. wd.pc \notin {"start", "release"}
  BY <1>1 DEF IInv, OnlyTheDeadAreCleanedUp
<1>6. QED
  BY <1>1, <1>2, <1>3, <1>4, <1>5
     DEF Claims, Quiet, AtMostOneRun, LiveRunIsCovered,
         ReleasedOnlyAfterStart, StoppedBehindThePass, StartHasALease,
         HoldIsUndisturbed, NeverStranded, OnlyTheDeadAreCleanedUp,
         DrainHasTheDoor, StopInstance, Lands, Live, Running, IInv, TypeOK,
         NoTime, STOPPED_REPLICAS

\* A renewal moves the deadline and the last sign of life together.
LEMMA RenewKeeps ==
  ASSUME MaxGap < TTL, IInv, NEW r \in Runs, NEW outcome \in Outcomes,
         RenewLease(r, outcome), Undisputed'
  PROVE  Claims'
<1>1. /\ Undisputed
      /\ Live(r)
      /\ UNCHANGED <<replicas, wd, clock, stoppedBy, startedBy>>
  BY DEF RenewLease, Undisputed, Live
<1>2. PICK phase \in {"draining", "starting"} : pc' = [pc EXCEPT ![r] = phase]
  BY DEF RenewLease, Goto
<1>3. \A q \in Runs : Live(q)' <=> Live(q)
  BY <1>1, <1>2 DEF Live, IInv, TypeOK
<1>4. /\ lease'.renewed = signed'[r]
      /\ lease'.duration = TTL
      /\ clock <= signed'[r] + MaxGap
      /\ \A q \in Runs \ {r} : signed'[q] = signed[q]
      /\ signed'[r] \in Nat
  BY <1>1, AgentInstanceAssumption
     DEF RenewLease, Renewed, IInv, Quiet, LiveRunIsCovered, TypeOK
<1>5. /\ LeaseDeadline(lease)' \in Nat
      /\ LeaseDeadline(lease)' > clock
  BY <1>4, AgentInstanceAssumption DEF LeaseDeadline, NoTime, IInv, TypeOK
<1>6. wd.pc \notin {"start", "release"} /\ stoppedBy # "hold"
  BY <1>1 DEF IInv, OnlyTheDeadAreCleanedUp, Quiet, HoldIsUndisturbed
<1>7. QED
  BY <1>1, <1>2, <1>3, <1>4, <1>5, <1>6
     DEF Claims, Quiet, AtMostOneRun, LiveRunIsCovered,
         ReleasedOnlyAfterStart, StoppedBehindThePass, StartHasALease,
         HoldIsUndisturbed, NeverStranded, OnlyTheDeadAreCleanedUp,
         DrainHasTheDoor, Live, Running, ByOperator, RenewLease, IInv, TypeOK, NoTime

\* The drain ends, or the process is killed: only the run's phase changes.
LEMMA LeaveKeeps ==
  ASSUME MaxGap < TTL, IInv, NEW r \in Runs, EndDrain(r) \/ Crash(r), Undisputed'
  PROVE  Claims'
<1>1. /\ Undisputed
      /\ UNCHANGED <<replicas, lease, wd, clock, signed, stoppedBy, startedBy>>
  BY DEF EndDrain, Crash, Undisputed, ghosts
<1>2. PICK phase \in {"starting", "gone"} :
        /\ pc' = [pc EXCEPT ![r] = phase]
        /\ Live(r)
  BY DEF EndDrain, Crash, Goto, Live
<1>3. \A q \in Runs : Live(q)' => Live(q)
  BY <1>2 DEF Live, IInv, TypeOK
<1>4. QED
  BY <1>1, <1>2, <1>3
     DEF Claims, Quiet, AtMostOneRun, LiveRunIsCovered,
         ReleasedOnlyAfterStart, StoppedBehindThePass, StartHasALease,
         HoldIsUndisturbed, NeverStranded, OnlyTheDeadAreCleanedUp,
         DrainHasTheDoor, Live, Running, ByOperator, LeaseDeadline, IInv, TypeOK

\* A run starts the instance while it alone is live.
LEMMA StartKeeps ==
  ASSUME MaxGap < TTL, IInv, NEW r \in Runs, NEW outcome \in Outcomes,
         StartInstance(r, outcome), Undisputed'
  PROVE  Claims'
<1>1. /\ Undisputed
      /\ Live(r)
      /\ UNCHANGED <<lease, wd, clock, signed, stoppedBy>>
  BY DEF StartInstance, Undisputed, Live
<1>2. PICK phase \in {"releasing", "gone"} :
        /\ pc' = [pc EXCEPT ![r] = phase]
        /\ phase = "releasing" <=> outcome = "ok"
  BY DEF StartInstance, Goto
<1>3. \A q \in Runs \ {r} : ~Live(q) /\ ~Live(q)'
  BY <1>1, <1>2 DEF IInv, Quiet, AtMostOneRun, Live, TypeOK
<1>4. wd.pc \notin {"start", "release"} /\ stoppedBy # "hold"
  BY <1>1 DEF IInv, OnlyTheDeadAreCleanedUp, Quiet, HoldIsUndisturbed
<1>5. QED
  BY <1>1, <1>2, <1>3, <1>4
     DEF Claims, Quiet, AtMostOneRun, LiveRunIsCovered,
         ReleasedOnlyAfterStart, StoppedBehindThePass, StartHasALease,
         HoldIsUndisturbed, NeverStranded, OnlyTheDeadAreCleanedUp,
         DrainHasTheDoor, StartInstance, Lands, Live, Running, LeaseDeadline,
         IInv, TypeOK, RUNNING_REPLICAS

\* A run gives up its lease after the instance has come up.
LEMMA ReleaseKeeps ==
  ASSUME MaxGap < TTL, IInv, NEW r \in Runs, NEW outcome \in Outcomes,
         ReleaseLease(r, outcome), Undisputed'
  PROVE  Claims'
<1>1. /\ Undisputed
      /\ Live(r)
      /\ UNCHANGED <<replicas, wd, clock, signed, stoppedBy, startedBy>>
      /\ Running \/ ByOperator
  BY DEF ReleaseLease, Undisputed, Live, ghosts, IInv, Quiet, ReleasedOnlyAfterStart
<1>2. pc' = [pc EXCEPT ![r] = "gone"]
  BY DEF ReleaseLease, Goto
<1>3. \A q \in Runs : ~Live(q)'
  BY <1>1, <1>2 DEF IInv, Quiet, AtMostOneRun, Live, TypeOK
<1>4. wd.pc \notin {"start", "release"} /\ stoppedBy # "hold"
  BY <1>1 DEF IInv, OnlyTheDeadAreCleanedUp, Quiet, HoldIsUndisturbed
<1>5. QED
  BY <1>1, <1>2, <1>3, <1>4
     DEF Claims, Quiet, AtMostOneRun, LiveRunIsCovered,
         ReleasedOnlyAfterStart, StoppedBehindThePass, StartHasALease,
         HoldIsUndisturbed, NeverStranded, OnlyTheDeadAreCleanedUp,
         DrainHasTheDoor, Live, Running, ByOperator

\* A pass that decides to write has found a lease no live run could have, and
\* the run that left it did not stop the instance behind the pass's back.
LEMMA ReadKeeps ==
  ASSUME MaxGap < TTL, IInv, Undisputed',
         WatchdogReadsScale \/ WatchdogReadsLease \/ WatchdogCannotRead
  PROVE  Claims'
<1>1. /\ Undisputed
      /\ UNCHANGED <<replicas, lease, pc, clock, signed, stoppedBy, startedBy>>
  BY DEF WatchdogReadsScale, WatchdogReadsLease, WatchdogCannotRead, ghosts, Undisputed
<1>2. CASE WatchdogReadsScale \/ WatchdogCannotRead
  BY <1>1, <1>2
     DEF Claims, Quiet, AtMostOneRun, LiveRunIsCovered, ReleasedOnlyAfterStart,
         StoppedBehindThePass, StartHasALease, HoldIsUndisturbed, NeverStranded,
         OnlyTheDeadAreCleanedUp, DrainHasTheDoor, WatchdogReadsScale,
         WatchdogCannotRead, Live, Running, ByOperator, LeaseDeadline, IInv, TypeOK
<1>3. CASE WatchdogReadsLease
  <2> DEFINE verdict == Decide(wd.replicas > 0, LeaseDeadline(lease), wd.now)
             next == CASE verdict = "restart" -> "start"
                       [] verdict = "release_stale" -> "release"
                       [] OTHER -> "idle"
  <2>1. wd.pc = "lease" /\ wd' = [wd EXCEPT !.pc = next]
    BY <1>3 DEF WatchdogReadsLease
  <2>2. LeaseDeadline(lease) \in Int
    BY AgentInstanceAssumption DEF LeaseDeadline, IInv, TypeOK, Time, NoTime
  <2>3. /\ next = "start" => LeaseDeadline(lease) # NoTime
        /\ next = "release" => wd.replicas > 0
        /\ next \in {"start", "release"} => LeaseDeadline(lease) <= wd.now
        /\ next \in {"start", "release", "idle"}
    BY <2>2 DEF Decide, NoTime, IInv, TypeOK, STOPPED_REPLICAS, RUNNING_REPLICAS
  <2>4. next \in {"start", "release"} => \A r \in Runs : ~Live(r)
    BY <1>1, <2>2, <2>3, CoveredUntilDeadline DEF IInv, TypeOK
  <2>5. next = "release" => Running \/ ByOperator
    BY <1>1, <2>1, <2>2, <2>3
       DEF IInv, Quiet, StoppedBehindThePass, TypeOK, ByOperator, Actors
  <2>6. wd'.pc = next
    BY <2>1 DEF IInv, TypeOK
  <2> HIDE DEF next
  <2>7. QED
    BY <1>1, <2>3, <2>4, <2>5, <2>6
       DEF Claims, Quiet, AtMostOneRun, LiveRunIsCovered,
           ReleasedOnlyAfterStart, StoppedBehindThePass, StartHasALease,
           HoldIsUndisturbed, NeverStranded, OnlyTheDeadAreCleanedUp,
           DrainHasTheDoor, Live, Running, ByOperator, LeaseDeadline, IInv, TypeOK
<1>4. QED BY <1>2, <1>3

\* The pass starts the instance while no run is live.
LEMMA WatchdogStartKeeps ==
  ASSUME MaxGap < TTL, IInv, NEW outcome \in Outcomes,
         WatchdogStarts(outcome), Undisputed'
  PROVE  Claims'
<1>1. /\ Undisputed
      /\ wd.pc = "start"
      /\ UNCHANGED <<lease, pc, clock, signed, stoppedBy>>
  BY DEF WatchdogStarts, Undisputed
<1>2. \A r \in Runs : ~Live(r)
  BY <1>1 DEF IInv, OnlyTheDeadAreCleanedUp
<1>3. stoppedBy # "hold"
  BY <1>1 DEF IInv, Quiet, StartHasALease, HoldIsUndisturbed
<1>4. PICK next \in {"release", "idle"} :
        /\ wd' = [wd EXCEPT !.pc = next]
        /\ next = "release" <=> outcome = "ok"
  BY DEF WatchdogStarts
<1>5. QED
  BY <1>1, <1>2, <1>3, <1>4
     DEF Claims, Quiet, AtMostOneRun, LiveRunIsCovered,
         ReleasedOnlyAfterStart, StoppedBehindThePass, StartHasALease,
         HoldIsUndisturbed, NeverStranded, OnlyTheDeadAreCleanedUp,
         DrainHasTheDoor, WatchdogStarts, Lands, Live, Running, LeaseDeadline,
         IInv, TypeOK, RUNNING_REPLICAS

\* The pass drops the lease of an instance that is up, or held by an operator.
LEMMA WatchdogReleaseKeeps ==
  ASSUME MaxGap < TTL, IInv, NEW outcome \in Outcomes,
         WatchdogReleases(outcome), Undisputed'
  PROVE  Claims'
<1>1. /\ Undisputed
      /\ wd.pc = "release"
      /\ wd' = [wd EXCEPT !.pc = "idle"]
      /\ UNCHANGED <<replicas, pc, clock, signed, stoppedBy, startedBy>>
  BY DEF WatchdogReleases, Undisputed, ghosts
<1>2. Running \/ ByOperator
  BY <1>1 DEF IInv, Quiet, ReleasedOnlyAfterStart
<1>3. \A r \in Runs : ~Live(r)
  BY <1>1 DEF IInv, OnlyTheDeadAreCleanedUp
<1>4. LeaseDeadline(lease)' \in {NoTime, LeaseDeadline(lease)}
  BY DEF WatchdogReleases, Released, LeaseDeadline
<1>5. QED
  BY <1>1, <1>2, <1>3, <1>4
     DEF Claims, Quiet, AtMostOneRun, LiveRunIsCovered,
         ReleasedOnlyAfterStart, StoppedBehindThePass, StartHasALease,
         HoldIsUndisturbed, NeverStranded, OnlyTheDeadAreCleanedUp,
         DrainHasTheDoor, Live, Running, ByOperator, IInv, TypeOK

\* The operator's own scaling, and time.
LEMMA EnvironmentKeeps ==
  ASSUME MaxGap < TTL, IInv, OperatorStops \/ OperatorStarts \/ Tick, Undisputed'
  PROVE  Claims'
<1>1. Undisputed /\ UNCHANGED <<lease, pc, wd, signed>>
  BY DEF OperatorStops, OperatorStarts, Tick, Undisputed, ghosts
<1>2. CASE OperatorStops
  <2>1. LeaseDeadline(lease) = NoTime => \A r \in Runs : ~Live(r)
    BY <1>1, CoveredUntilDeadline DEF NoTime
  <2>2. QED
    BY <1>1, <1>2, <2>1
       DEF Claims, Quiet, AtMostOneRun, LiveRunIsCovered,
           ReleasedOnlyAfterStart, StoppedBehindThePass, StartHasALease,
           HoldIsUndisturbed, NeverStranded, OnlyTheDeadAreCleanedUp,
           DrainHasTheDoor, OperatorStops, Live, Running, ByOperator,
           LeaseDeadline, IInv, TypeOK, STOPPED_REPLICAS
<1>3. CASE OperatorStarts
  BY <1>1, <1>3
     DEF Claims, Quiet, AtMostOneRun, LiveRunIsCovered, ReleasedOnlyAfterStart,
         StoppedBehindThePass, StartHasALease, HoldIsUndisturbed, NeverStranded,
         OnlyTheDeadAreCleanedUp, DrainHasTheDoor, OperatorStarts, Live, Running,
         LeaseDeadline, HoldEnds, IInv, TypeOK, RUNNING_REPLICAS
<1>4. CASE Tick
  BY <1>1, <1>4, AgentInstanceAssumption
     DEF Claims, Quiet, AtMostOneRun, LiveRunIsCovered, ReleasedOnlyAfterStart,
         StoppedBehindThePass, StartHasALease, HoldIsUndisturbed, NeverStranded,
         OnlyTheDeadAreCleanedUp, DrainHasTheDoor, Tick, Live, Running,
         ByOperator, LeaseDeadline, ghosts, IInv, TypeOK
<1>5. QED BY <1>2, <1>3, <1>4

\* What holds of every state whether or not the lease is disputed.
LEMMA PassTimeKeeps ==
  ASSUME IInv, [Next]_vars
  PROVE  /\ wd'.now <= clock'
         /\ ~Running' => stoppedBy' # "nobody"
BY DEF IInv, TypeOK, vars, ghosts, Next, RunStep, AcquireLease, StopInstance,
       RenewLease, EndDrain, StartInstance, ReleaseLease, Crash,
       WatchdogReadsScale, WatchdogReadsLease, WatchdogCannotRead,
       WatchdogStarts, WatchdogReleases, OperatorStops, OperatorStarts, Tick,
       Running, HoldEnds, STOPPED_REPLICAS, RUNNING_REPLICAS

\* The invariant is inductive.
LEMMA NextIInv ==
  ASSUME MaxGap < TTL, IInv, [Next]_vars
  PROVE  IInv'
<1>1. TypeOK'
  BY NextType DEF IInv
<1>2. ASSUME Undisputed' PROVE Claims'
  <2>1. ASSUME NEW r \in Runs, NEW outcome \in Outcomes, RunStep(r, outcome)
        PROVE  Claims'
    BY <1>2, <2>1, AcquireKeeps, StopKeeps, RenewKeeps, StartKeeps, ReleaseKeeps
       DEF RunStep
  <2>2. CASE UNCHANGED vars
    BY <1>2, <2>2
       DEF vars, Claims, Quiet, AtMostOneRun, LiveRunIsCovered,
           ReleasedOnlyAfterStart, StoppedBehindThePass, StartHasALease,
           HoldIsUndisturbed, NeverStranded, OnlyTheDeadAreCleanedUp,
           DrainHasTheDoor, Undisputed, Live, Running, ByOperator,
           LeaseDeadline, IInv
  <2>3. QED
    BY <1>2, <2>1, <2>2, LeaveKeeps, ReadKeeps, WatchdogStartKeeps,
       WatchdogReleaseKeeps, EnvironmentKeeps
       DEF Next
<1>3. NeverStranded' /\ OnlyTheDeadAreCleanedUp' /\ DrainHasTheDoor'
  BY <1>2 DEF Claims, NeverStranded, OnlyTheDeadAreCleanedUp, DrainHasTheDoor
<1>4. QED
  BY <1>1, <1>2, <1>3, PassTimeKeeps DEF IInv, Claims

\* The invariant holds of every reachable state.
LEMMA Invariance == ASSUME MaxGap < TTL PROVE Spec => []IInv
<1>1. IInv /\ [Next]_vars => IInv'
  BY NextIInv
<1>2. QED BY <1>1, InitIInv, PTL DEF Spec

\* The order of the two writes keeps a run's stop from being mistaken for an
\* operator's hold: an instance a run stopped always has a deadline.
THEOREM StopHasADeadline == ASSUME MaxGap < TTL PROVE Spec => []NeverStranded
BY Invariance, PTL DEF IInv

\* The watchdog never starts the instance, nor drops the lease, under a live run.
THEOREM CleanupSparesTheLiving ==
  ASSUME MaxGap < TTL PROVE Spec => []OnlyTheDeadAreCleanedUp
BY Invariance, PTL DEF IInv

\* A draining run and interactive writers are kept apart.
THEOREM DrainIsExclusive == ASSUME MaxGap < TTL PROVE Spec => []DrainHasTheDoor
BY Invariance, PTL DEF IInv

\* An operator's hold outlives every watchdog pass.
THEOREM HoldsSurvive == ASSUME MaxGap < TTL PROVE Spec => []HoldsAreKept
<1>1. IInv => HoldsAreKept
  BY DEF IInv, Quiet, HoldIsUndisturbed, HoldsAreKept
<1>2. QED BY <1>1, Invariance, PTL
=============================================================================
