-------------------------- MODULE BatchProcessorProofs --------------------------
(***************************************************************************)
(* Proofs about BatchProcessor: its types, what the broker's answers mean  *)
(* and what a write may replace, for any number of runs; and, of one run   *)
(* at a time with the vault to itself, what it writes over, what its       *)
(* acknowledgement means, where its links land, and that it implements     *)
(* ChunkLedger.                                                            *)
(***************************************************************************)
EXTENDS BatchProcessor, SequenceTheorems, TLAPS

-----------------------------------------------------------------------------
(* The invariants.                                                         *)

\* What is outstanding exists; a run holds a chunk that does, and knows how
\* far it got with it.
RunsKnow ==
  /\ claim # "free" => Pending
  /\ tries # 0 => Pending
  /\ \A r \in Runs :
       /\ pc[r] \in {"off", "loop"} <=> item[r] = NoItem
       /\ item[r] <= Len(stream) /\ item[r] <= Oldest
       /\ pc[r] = "write" => todo[r] \subseteq Targets(Chunk(r))
       /\ pc[r] = "ack" => item[r] \in done
       /\ pc[r] = "nak" => attempt[r] < MaxDeliver
       /\ pc[r] = "term" => <<item[r], reason[r]>> \in dead

BatchInv == TypeOK /\ RunsKnow

\* A chunk is accounted for: finished, parked, orphaned, or in the hands of a
\* run that knows this delivery is its last.
LastHeld(i) == \E r \in Runs : item[r] = i /\ attempt[r] = MaxDeliver
Accounted(i) == i \in done \/ Parked(i) \/ i \in orphaned \/ LastHeld(i)

\* What is behind each of the broker's answers, and behind its last delivery.
AnswersStand ==
  /\ \A i \in 1..Len(settled) :
       /\ settled[i] = "acked" => i \in done
       /\ settled[i] = "termed" => Parked(i)
       /\ settled[i] = "dropped" => Accounted(i)
  /\ tries = MaxDeliver => Accounted(Oldest)

-----------------------------------------------------------------------------
(* Chunks.                                                                 *)

\* What is published is of its type, and says what it does.
LEMMA ChunkTyped ==
  ASSUME NEW c \in Publishable
  PROVE  /\ Targets(c) \subseteq Paths
         /\ c.batch \in Batches /\ c.links \subseteq Paths /\ c.form \in Forms
         /\ \A p \in Targets(c) :
              /\ c.edits[p].op \in Ops
              /\ c.edits[p].base \in Holdings /\ c.edits[p].post \in Holdings
              /\ c.edits[p].base = Absent <=> c.edits[p].op \in Creating
              /\ c.edits[p].post = Absent <=> c.edits[p].op \in Deleting
         /\ CreatedPaths(c) \subseteq Paths
<1>1. c \in Chunks
  BY BatchProcessorAssumption
<1>2. PICK S \in SUBSET Paths : c.edits \in [S -> Edits]
  BY <1>1 DEF Chunks
<1>3. Targets(c) = S
  BY <1>2 DEF Targets
<1>4. \A p \in S : c.edits[p] \in Edits
  BY <1>2
<1>5. \A p \in Targets(c) :
        /\ c.edits[p].base = Absent <=> c.edits[p].op \in Creating
        /\ c.edits[p].post = Absent <=> c.edits[p].op \in Deleting
  BY BatchProcessorAssumption DEF Targets
<1>6. c.batch \in Batches /\ c.links \subseteq Paths /\ c.form \in Forms
  BY <1>1 DEF Chunks
<1>. QED
  BY <1>3, <1>4, <1>5, <1>6 DEF Edits, CreatedPaths

\* A run holds a chunk that was published.
LEMMA HeldIsPublished ==
  ASSUME BatchInv, NEW r \in Runs, item[r] # NoItem
  PROVE  item[r] \in 1..Len(stream) /\ item[r] \in Numbers /\ Chunk(r) \in Publishable
<1>1. /\ item[r] \in Numbers /\ Len(stream) \in Nat
      /\ item[r] <= Len(stream) /\ MaxPublished \in Nat
  <2>1. item[r] \in Numbers \cup {NoItem} /\ Len(stream) \in Nat
    BY DEF BatchInv, TypeOK
  <2>. QED
    BY <2>1, BatchProcessorAssumption DEF BatchInv, RunsKnow
<1>2. item[r] \in 1..Len(stream)
  BY <1>1 DEF Numbers
<1>3. stream \in Seq(Publishable)
  BY DEF BatchInv, TypeOK
<1>4. stream[item[r]] \in Publishable
  BY <1>2, <1>3, ElementOfSeq
<1>. QED
  BY <1>1, <1>2, <1>4 DEF Chunk

\* A chunk in a run's hands stays the same one: the stream only grows.
LEMMA StreamGrows ==
  ASSUME TypeOK, [Next]_vars
  PROVE  /\ Len(stream) <= Len(stream')
         /\ \A i \in 1..Len(stream) : stream'[i] = stream[i]
<1>1. stream' = stream \/ \E c \in Publishable : stream' = Append(stream, c)
  BY DEF Next, RunStep, vars, BeginRun, Yield, FetchNothing, Fetch, ReadTarget, WriteTarget,
         CannotRead, Decide, CannotWrite, Ack, Nak, Term, DeadLetter, CannotDeadLetter, Crash,
         AckWaitExpires, NakDelayEnds, PromotionMoves, Publish, ForeignWrite
<1>2. stream \in Seq(Publishable) /\ Len(stream) \in Nat
  BY DEF TypeOK
<1>3. CASE stream' = stream
  BY <1>2, <1>3
<1>4. CASE \E c \in Publishable : stream' = Append(stream, c)
  <2>1. PICK c \in Publishable : stream' = Append(stream, c)
    BY <1>4
  <2>2. /\ Len(Append(stream, c)) = Len(stream) + 1
        /\ \A i \in 1..Len(stream) : Append(stream, c)[i] = stream[i]
    BY <1>2, AppendProperties
  <2>. QED
    BY <1>2, <2>1, <2>2
<1>. QED
  BY <1>1, <1>3, <1>4

-----------------------------------------------------------------------------
(* Types.                                                                  *)

\* Settling one more chunk keeps the broker's types.
LEMMA SettleTyped ==
  ASSUME BatchInv, NEW fate \in Fates, Settle(fate), Pending
  PROVE  /\ settled' \in Seq(Fates) /\ Len(settled') = Len(settled) + 1
         /\ Len(settled') <= Len(stream)
         /\ \A i \in 1..Len(settled) : settled'[i] = settled[i]
         /\ settled'[Len(settled) + 1] = fate
         /\ tries' = 0 /\ claim' = "free"
BY AppendProperties DEF BatchInv, TypeOK, Settle, Pending, Oldest

\* The limits are numbers.
LEMMA Limits ==
  /\ MaxDeliver \in Nat /\ MaxDeliver > 0 /\ MaxYields \in Nat /\ MaxPublished \in Nat
  /\ Publishable \subseteq Chunks /\ Absent \in Holdings
BY BatchProcessorAssumption DEF Holdings

\* Where the runs are and why, what they remember, and what is said of them,
\* is of its type.
PlacesTyped == pc \in [Runs -> Phases] /\ reason \in [Runs -> Reasons]
HandsTyped ==
  /\ item \in [Runs -> Numbers \cup {NoItem}]
  /\ attempt \in [Runs -> 0..MaxDeliver]
  /\ seen \in [Runs -> [Paths -> Holdings \cup {Unread}]]
  /\ todo \in [Runs -> SUBSET Paths]
  /\ yields \in [Runs -> 0..MaxYields]
  /\ faults \in Nat /\ foreign \in Nat
  /\ dead \subseteq Numbers \X Reasons
  /\ done \subseteq Numbers /\ orphaned \subseteq Numbers
  /\ ended \in [Runs -> [Numbers -> SUBSET Endings]]
  /\ vault \in [Paths -> Holdings]
  /\ promotion \in {"quiet", "busy"}

\* The names of the places and reasons, so that no step need list them.
LEMMA Names ==
  /\ {"off", "loop", "read", "write", "ack", "nak", "park", "term"} \subseteq Phases
  /\ {"none", "undecodable_chunk", "unapplicable_patch", "mcp_refused",
      "partially_applied", "redelivery_exhausted", "depends_on_failed_chunk",
      "admission_refused", "rejected"} \subseteq Reasons
  /\ {"applied", "failed", "dependent"} \subseteq Endings
  /\ {"acked", "termed", "dropped"} \subseteq Fates
BY DEF Phases, Reasons, Endings, Fates

\* A run that leaves forgets, and that is of its type.
LEMMA LeaveTyped ==
  ASSUME HandsTyped, PlacesTyped, NEW r \in Runs, Leave(r)
  PROVE  /\ PlacesTyped'
         /\ item' \in [Runs -> Numbers \cup {NoItem}]
         /\ attempt' \in [Runs -> 0..MaxDeliver]
         /\ seen' \in [Runs -> [Paths -> Holdings \cup {Unread}]]
         /\ todo' \in [Runs -> SUBSET Paths]
         /\ yields' \in [Runs -> 0..MaxYields]
         /\ ended' \in [Runs -> [Numbers -> SUBSET Endings]]
         /\ blocked \in [Runs -> SUBSET (Batches \X Paths)]
              => blocked' \in [Runs -> SUBSET (Batches \X Paths)]
BY Limits DEF HandsTyped, PlacesTyped, Leave, Goto, EmptyHands, Phases, Reasons, NoItem

\* So does one that puts its chunk down.
LEMMA EmptyTyped ==
  ASSUME HandsTyped, PlacesTyped, NEW r \in Runs, EmptyHands(r)
  PROVE  /\ reason' \in [Runs -> Reasons]
         /\ item' \in [Runs -> Numbers \cup {NoItem}]
         /\ attempt' \in [Runs -> 0..MaxDeliver]
         /\ seen' \in [Runs -> [Paths -> Holdings \cup {Unread}]]
         /\ todo' \in [Runs -> SUBSET Paths]
BY Limits DEF HandsTyped, PlacesTyped, EmptyHands, Reasons, NoItem

\* Whoever has left the loop holds a chunk of the stream, whose targets and
\* contents are the vault's.
LEMMA Holding ==
  ASSUME BatchInv, NEW r \in Runs, pc[r] \notin {"off", "loop"}
  PROVE  /\ item[r] # NoItem /\ item[r] \in Numbers /\ Chunk(r) \in Publishable
         /\ Targets(Chunk(r)) \subseteq Paths
         /\ \A p \in Targets(Chunk(r)) : Chunk(r).edits[p].post \in Holdings
         /\ pc[r] = "write" => /\ todo[r] \subseteq Targets(Chunk(r))
                               /\ NextWrites(r) \subseteq todo[r]
<1>1. item[r] # NoItem
  BY DEF BatchInv, RunsKnow
<1>2. pc[r] = "write" => todo[r] \subseteq Targets(Chunk(r)) /\ NextWrites(r) \subseteq todo[r]
  BY DEF BatchInv, RunsKnow, NextWrites
<1>. QED
  BY <1>1, <1>2, HeldIsPublished, ChunkTyped

\* The places and reasons of one run's steps.
LEMMA PlacesStep ==
  ASSUME BatchInv, [Next]_vars
  PROVE  PlacesTyped'
<1>1. PlacesTyped /\ HandsTyped
  BY DEF BatchInv, TypeOK, PlacesTyped, HandsTyped
<1>2. ASSUME NEW r \in Runs, Leave(r)
      PROVE  PlacesTyped'
  BY <1>1, <1>2, LeaveTyped
<1>3. ASSUME NEW r \in Runs, EmptyHands(r), Goto(r, "loop")
      PROVE  PlacesTyped'
  BY <1>1, <1>3, EmptyTyped, Names DEF PlacesTyped, Goto
<1>4. ASSUME NEW r \in Runs,
             NEW phase \in {"loop", "read", "write", "ack", "nak", "park", "term"},
             NEW why \in {"none", "undecodable_chunk", "unapplicable_patch", "mcp_refused",
                          "partially_applied", "redelivery_exhausted",
                          "depends_on_failed_chunk", "admission_refused", "rejected"},
             pc' = [pc EXCEPT ![r] = phase] \/ UNCHANGED pc,
             reason' = [reason EXCEPT ![r] = why] \/ UNCHANGED reason
      PROVE  PlacesTyped'
  BY <1>1, <1>4, Names DEF PlacesTyped
<1>5. ASSUME NEW r \in Runs, NEW refused \in BOOLEAN,
             IF refused THEN Park(r, "mcp_refused") ELSE RetryLater(r)
      PROVE  PlacesTyped'
  BY <1>4, <1>5 DEF Park, RetryLater, Goto
<1>6. ASSUME NEW r \in Runs, RunStep(r)
      PROVE  PlacesTyped'
  <2>1. CASE Yield(r) \/ FetchNothing(r)
    BY <1>1, <1>2, <2>1 DEF Yield, FetchNothing, PlacesTyped, handVars
  <2>2. CASE Fetch(r)
    BY <1>4, <2>2 DEF Fetch, Park, Goto
  <2>3. CASE \E p \in Paths : ReadTarget(r, p)
    BY <1>1, <2>3 DEF ReadTarget, PlacesTyped
  <2>4. CASE \E p \in Paths : WriteTarget(r, p)
    BY <1>4, <2>4 DEF WriteTarget, Goto
  <2>5. CASE \E refused \in BOOLEAN : CannotRead(r, refused)
    BY <1>5, <2>5 DEF CannotRead
  <2>6. CASE Decide(r)
    BY <1>4, <2>6 DEF Decide, Goto, Park
  <2>7. CASE \E p \in Paths, refused, landed \in BOOLEAN : CannotWrite(r, p, refused, landed)
    <3>1. \/ RetryLater(r) \/ Park(r, "mcp_refused") \/ Park(r, "partially_applied")
      BY <2>7 DEF CannotWrite
    <3>. QED
      BY <1>4, <1>5, <3>1 DEF Park, Goto
  <2>8. CASE \E lost \in BOOLEAN : Ack(r, lost) \/ Nak(r, lost) \/ Term(r, lost)
    BY <1>3, <2>8 DEF Ack, Nak, Term
  <2>9. CASE DeadLetter(r)
    BY <1>4, <2>9 DEF DeadLetter, Goto, handVars
  <2>10. CASE \E landed \in BOOLEAN : CannotDeadLetter(r, landed)
    BY <1>2, <2>10 DEF CannotDeadLetter
  <2>. QED
    BY <1>6, <2>1, <2>2, <2>3, <2>4, <2>5, <2>6, <2>7, <2>8, <2>9, <2>10 DEF RunStep
<1>7. ASSUME NEW r \in Runs, BeginRun(r) \/ Crash(r)
      PROVE  PlacesTyped'
  BY <1>2, <1>4, <1>7 DEF BeginRun, Crash, Goto, handVars
<1>8. ASSUME UNCHANGED <<pc, reason>>
      PROVE  PlacesTyped'
  BY <1>1, <1>8 DEF PlacesTyped
<1>. QED
  BY <1>6, <1>7, <1>8
     DEF Next, AckWaitExpires, NakDelayEnds, PromotionMoves, Publish, ForeignWrite, vars, handVars

\* The rest of what runs remember, and what is said of them.
LEMMA HandsStep ==
  ASSUME BatchInv, [Next]_vars
  PROVE  HandsTyped'
<1>0. HandsTyped /\ PlacesTyped /\ tries \in 0..MaxDeliver
  BY DEF BatchInv, TypeOK, HandsTyped, PlacesTyped
<1>. USE <1>0
<1>1. ASSUME UNCHANGED <<item, attempt, seen, todo, yields, faults, foreign, dead, done,
                         orphaned, ended, vault, promotion>>
      PROVE  HandsTyped'
  BY <1>1 DEF HandsTyped
<1>2. ASSUME NEW r \in Runs, Leave(r),
             UNCHANGED <<foreign, done, vault, promotion>>, faults' \in Nat,
             dead' \subseteq Numbers \X Reasons, orphaned' \subseteq Numbers
      PROVE  HandsTyped'
  BY <1>2, LeaveTyped DEF HandsTyped
<1>3. ASSUME NEW bad, FaultIf(bad)
      PROVE  faults' \in Nat
  BY <1>3 DEF HandsTyped, FaultIf, Fault
<1>4. ASSUME Fault
      PROVE  faults' \in Nat
  BY <1>4 DEF HandsTyped, Fault
<1>5. ASSUME NEW r \in Runs, EmptyHands(r), NEW lost, FaultIf(lost),
             UNCHANGED <<foreign, done, orphaned, vault, promotion, yields, dead>>,
             ended' \in [Runs -> [Numbers -> SUBSET Endings]]
      PROVE  HandsTyped'
  BY <1>3, <1>5, EmptyTyped DEF HandsTyped
<1>6. ASSUME NEW r \in Runs, NEW how \in {"applied", "failed", "dependent"},
             item[r] \in Numbers, EndsAs(r, how)
      PROVE  ended' \in [Runs -> [Numbers -> SUBSET Endings]]
  BY <1>6, Names DEF HandsTyped, EndsAs
<1>7. ASSUME NEW r \in Runs, RunStep(r)
      PROVE  HandsTyped'
  <2>1. CASE Yield(r)
    <3>1. CASE AfterYield(yields[r]) > MaxYields
      BY <1>2, <2>1, <3>1 DEF Yield, HandsTyped
    <3>2. CASE ~(AfterYield(yields[r]) > MaxYields)
      BY <2>1, <3>2, Limits DEF Yield, HandsTyped, AfterYield, handVars
    <3>. QED
      BY <3>1, <3>2
  <2>2. CASE FetchNothing(r)
    BY <1>2, <2>2 DEF FetchNothing, HandsTyped
  <2>3. CASE Fetch(r)
    <3>1. Oldest \in Numbers
      BY <2>3, Limits DEF BatchInv, TypeOK, Fetch, Deliverable, Pending, Oldest, Numbers
    <3>2. tries + 1 \in 0..MaxDeliver /\ 0 \in 0..MaxYields
      BY <2>3, Limits DEF Fetch, Deliverable
    <3>. QED
      BY <2>3, <3>1, <3>2 DEF Fetch, HandsTyped, ghosts
  <2>4. CASE \E p \in Paths : ReadTarget(r, p)
    BY <2>4 DEF ReadTarget, HandsTyped, ghosts
  <2>5. CASE \E p \in Paths : WriteTarget(r, p)
    <3>1. PICK p \in Paths : WriteTarget(r, p)
      BY <2>5
    <3>2. item[r] \in Numbers /\ Chunk(r).edits[p].post \in Holdings
      BY <3>1, Holding DEF WriteTarget
    <3>3. vault' \in [Paths -> Holdings] /\ todo' \in [Runs -> SUBSET Paths]
      BY <3>1, <3>2 DEF WriteTarget, LandsOn, HandsTyped
    <3>4. done' \subseteq Numbers
      BY <3>1, <3>2 DEF WriteTarget, HandsTyped
    <3>. QED
      BY <3>1, <3>3, <3>4 DEF WriteTarget, HandsTyped
  <2>6. CASE \E refused \in BOOLEAN : CannotRead(r, refused)
    BY <1>4, <2>6 DEF CannotRead, HandsTyped, ghosts
  <2>7. CASE Decide(r)
    <3>1. item[r] \in Numbers /\ Targets(Chunk(r)) \subseteq Paths
      BY <2>7, Holding DEF Decide
    <3>2. \/ todo' = [todo EXCEPT ![r] = Targets(Chunk(r))] /\ done' = done
          \/ todo' = todo /\ done' = done \cup {item[r]}
          \/ todo' = todo /\ done' = done
      BY <2>7 DEF Decide
    <3>3. todo' \in [Runs -> SUBSET Paths] /\ done' \subseteq Numbers
      BY <3>1, <3>2 DEF HandsTyped
    <3>. QED
      BY <2>7, <3>3 DEF Decide, HandsTyped
  <2>8. CASE \E p \in Paths, refused, landed \in BOOLEAN : CannotWrite(r, p, refused, landed)
    <3>1. PICK p \in Paths, refused \in BOOLEAN, landed \in BOOLEAN :
            CannotWrite(r, p, refused, landed)
      BY <2>8
    <3>2. Chunk(r).edits[p].post \in Holdings
      BY <3>1, Holding DEF CannotWrite
    <3>3. vault' \in [Paths -> Holdings]
      BY <3>1, <3>2 DEF CannotWrite, LandsOn, HandsTyped
    <3>4. faults' \in Nat
      BY <1>3, <3>1 DEF CannotWrite
    <3>. QED
      BY <3>1, <3>3, <3>4 DEF CannotWrite, HandsTyped
  <2>9. CASE \E lost \in BOOLEAN : Ack(r, lost)
    BY <1>5, <1>6, <2>9, Holding DEF Ack
  <2>10. CASE \E lost \in BOOLEAN : Nak(r, lost)
    BY <1>5, <2>10 DEF Nak, HandsTyped, ghosts
  <2>11. CASE \E lost \in BOOLEAN : Term(r, lost)
    BY <1>5, <1>6, <2>11, Holding DEF Term
  <2>12. CASE DeadLetter(r)
    <3>1. item[r] \in Numbers /\ reason[r] \in Reasons
      BY <2>12, Holding DEF DeadLetter, PlacesTyped
    <3>. QED
      BY <2>12, <3>1 DEF DeadLetter, HandsTyped, handVars, ghosts
  <2>13. CASE \E landed \in BOOLEAN : CannotDeadLetter(r, landed)
    <3>1. item[r] \in Numbers /\ reason[r] \in Reasons
      BY <2>13, Holding DEF CannotDeadLetter, PlacesTyped
    <3>2. dead' \subseteq Numbers \X Reasons /\ orphaned' \subseteq Numbers
      BY <2>13, <3>1 DEF CannotDeadLetter, HandsTyped, Orphans
    <3>. QED
      BY <1>2, <1>4, <2>13, <3>2 DEF CannotDeadLetter
  <2>. QED
    BY <1>7, <2>1, <2>2, <2>3, <2>4, <2>5, <2>6, <2>7, <2>8, <2>9, <2>10, <2>11, <2>12, <2>13
       DEF RunStep
<1>8. ASSUME NEW r \in Runs, Crash(r)
      PROVE  HandsTyped'
  <2>1. item[r] \in Numbers \cup {NoItem}
    BY DEF HandsTyped
  <2>2. dead' \subseteq Numbers \X Reasons /\ orphaned' \subseteq Numbers
    BY <1>8, <2>1 DEF Crash, HandsTyped, Orphans, Holds
  <2>. QED
    BY <1>2, <1>4, <1>8, <2>2 DEF Crash
<1>9. ASSUME NEW p \in Paths, NEW held \in Holdings, ForeignWrite(p, held)
      PROVE  HandsTyped'
  BY <1>9 DEF ForeignWrite, HandsTyped, handVars, ghosts
<1>10. ASSUME PromotionMoves
       PROVE  HandsTyped'
  BY <1>10 DEF PromotionMoves, HandsTyped, handVars, ghosts
<1>. QED
  BY <1>1, <1>7, <1>8, <1>9, <1>10
     DEF Next, BeginRun, AckWaitExpires, NakDelayEnds, Publish, vars, handVars, ghosts

-----------------------------------------------------------------------------
(* Who does what.                                                          *)

\* What a run has of its own, which no other run touches.
Own(r) ==
  <<pc[r], item[r], attempt[r], seen[r], todo[r], reason[r], blocked[r], ended[r]>>

\* A step is a run's own, or leaves what the run has alone.
LEMMA OwnSteps ==
  ASSUME TypeOK, [Next]_vars, NEW r \in Runs
  PROVE  Own(r)' = Own(r) \/ BeginRun(r) \/ RunStep(r) \/ Crash(r)
<1>0. /\ pc \in [Runs -> Phases] /\ item \in [Runs -> Numbers \cup {NoItem}]
      /\ attempt \in [Runs -> 0..MaxDeliver] /\ todo \in [Runs -> SUBSET Paths]
      /\ seen \in [Runs -> [Paths -> Holdings \cup {Unread}]]
      /\ reason \in [Runs -> Reasons] /\ blocked \in [Runs -> SUBSET (Batches \X Paths)]
      /\ ended \in [Runs -> [Numbers -> SUBSET Endings]]
  BY DEF TypeOK
<1>. USE DEF Own, Goto, Park, RetryLater, Leave, EmptyHands, EndsAs, handVars, ghosts
<1>1. ASSUME NEW s \in Runs \ {r}, BeginRun(s) \/ Crash(s)
      PROVE  Own(r)' = Own(r)
  BY <1>0, <1>1 DEF BeginRun, Crash
<1>2. ASSUME NEW s \in Runs \ {r}, RunStep(s)
      PROVE  Own(r)' = Own(r)
  <2>1. CASE Yield(s) \/ FetchNothing(s) \/ Fetch(s)
    BY <1>0, <2>1 DEF Yield, FetchNothing, Fetch
  <2>2. CASE \E p \in Paths : ReadTarget(s, p) \/ WriteTarget(s, p)
    BY <1>0, <2>2 DEF ReadTarget, WriteTarget
  <2>3. CASE \E refused \in BOOLEAN : CannotRead(s, refused)
    BY <1>0, <2>3 DEF CannotRead
  <2>4. CASE Decide(s)
    BY <1>0, <2>4 DEF Decide
  <2>5. CASE \E p \in Paths, refused, landed \in BOOLEAN : CannotWrite(s, p, refused, landed)
    BY <1>0, <2>5 DEF CannotWrite
  <2>6. CASE \E lost \in BOOLEAN : Ack(s, lost) \/ Nak(s, lost) \/ Term(s, lost)
    BY <1>0, <2>6 DEF Ack, Nak, Term
  <2>7. CASE DeadLetter(s) \/ \E landed \in BOOLEAN : CannotDeadLetter(s, landed)
    BY <1>0, <2>7 DEF DeadLetter, CannotDeadLetter
  <2>. QED
    BY <1>2, <2>1, <2>2, <2>3, <2>4, <2>5, <2>6, <2>7 DEF RunStep
<1>3. ASSUME \/ AckWaitExpires \/ NakDelayEnds \/ PromotionMoves \/ UNCHANGED vars
             \/ \E c \in Publishable : Publish(c)
             \/ \E p \in Paths, held \in Holdings : ForeignWrite(p, held)
      PROVE  Own(r)' = Own(r)
  BY <1>3 DEF AckWaitExpires, NakDelayEnds, PromotionMoves, Publish, ForeignWrite, vars
<1>. QED
  BY <1>1, <1>2, <1>3 DEF Next

\* What happens to the oldest chunk: it is taken up, given back, or settled
\* by whoever holds it or by the broker's own deadline.
LEMMA BrokerSteps ==
  ASSUME BatchInv, [Next]_vars
  PROVE  \/ UNCHANGED brokerVars
         \/ \E r \in Runs : Fetch(r)
         \/ /\ Pending /\ UNCHANGED <<settled, tries>>
            /\ claim # "free" /\ claim' \in {"free", "delayed"}
         \/ /\ Pending /\ Settle("acked")
            /\ \E r \in Runs : pc[r] = "ack" /\ item[r] = Oldest /\ item'[r] = NoItem
         \/ /\ Pending /\ Settle("termed")
            /\ \E r \in Runs : pc[r] = "term" /\ item[r] = Oldest /\ item'[r] = NoItem
         \/ Pending /\ tries = MaxDeliver /\ AckWaitExpires /\ Settle("dropped")
<1>1. ASSUME NEW r \in Runs, NEW lost \in BOOLEAN, Ack(r, lost) \/ Term(r, lost)
      PROVE  \/ UNCHANGED brokerVars
             \/ /\ Pending /\ Settle("acked")
                /\ pc[r] = "ack" /\ item[r] = Oldest /\ item'[r] = NoItem
             \/ /\ Pending /\ Settle("termed")
                /\ pc[r] = "term" /\ item[r] = Oldest /\ item'[r] = NoItem
  <2>1. item'[r] = NoItem
    BY <1>1 DEF Ack, Term, EmptyHands, BatchInv, TypeOK
  <2>2. item[r] <= Len(stream)
    BY DEF BatchInv, RunsKnow
  <2>. QED
    BY <1>1, <2>1, <2>2 DEF Ack, Term, Settles, Pending
<1>2. ASSUME NEW r \in Runs, NEW lost \in BOOLEAN, Nak(r, lost)
      PROVE  \/ UNCHANGED brokerVars
             \/ /\ Pending /\ UNCHANGED <<settled, tries>>
                /\ claim # "free" /\ claim' \in {"free", "delayed"}
  <2>1. attempt[r] < MaxDeliver /\ attempt[r] \in Int /\ MaxDeliver \in Int
    <3>1. attempt \in [Runs -> 0..MaxDeliver]
      BY DEF BatchInv, TypeOK
    <3>2. pc[r] = "nak" => attempt[r] < MaxDeliver
      BY DEF BatchInv, RunsKnow
    <3>. QED
      BY <1>2, <3>1, <3>2, Limits DEF Nak
  <2>2. claim # "free" => Pending
    BY DEF BatchInv, RunsKnow
  <2>. QED
    BY <1>2, <2>1, <2>2 DEF Nak, Redelivers
<1>3. ASSUME AckWaitExpires \/ NakDelayEnds
      PROVE  \/ /\ Pending /\ UNCHANGED <<settled, tries>>
                /\ claim # "free" /\ claim' \in {"free", "delayed"}
             \/ Pending /\ tries = MaxDeliver /\ AckWaitExpires /\ Settle("dropped")
  <2>1. claim # "free" => Pending
    BY DEF BatchInv, RunsKnow
  <2>. QED
    BY <1>3, <2>1 DEF AckWaitExpires, NakDelayEnds, Redelivers
<1>4. ASSUME NEW r \in Runs, RunStep(r) \/ BeginRun(r) \/ Crash(r)
      PROVE  \/ UNCHANGED brokerVars
             \/ Fetch(r)
             \/ \E lost \in BOOLEAN : Ack(r, lost) \/ Term(r, lost) \/ Nak(r, lost)
  BY <1>4 DEF RunStep, BeginRun, Crash, Yield, FetchNothing, ReadTarget, WriteTarget, CannotRead,
              Decide, CannotWrite, DeadLetter, CannotDeadLetter
<1>5. ASSUME \/ PromotionMoves \/ UNCHANGED vars
             \/ \E c \in Publishable : Publish(c)
             \/ \E p \in Paths, held \in Holdings : ForeignWrite(p, held)
      PROVE  UNCHANGED brokerVars
  BY <1>5 DEF PromotionMoves, Publish, ForeignWrite, vars
<1>. QED
  BY <1>1, <1>2, <1>3, <1>4, <1>5 DEF Next

\* Where a run may go, with what in its hands.
LEMMA HoldsSteps ==
  ASSUME BatchInv, [Next]_vars, NEW r \in Runs
  PROVE  \/ Own(r)' = Own(r)
         \/ /\ UNCHANGED <<item[r], attempt[r]>>
            /\ pc[r] \in {"off", "loop"} <=> pc'[r] \in {"off", "loop"}
            /\ pc'[r] = "write" => \/ pc[r] = "write" /\ todo'[r] \subseteq todo[r]
                                   \/ todo'[r] = Targets(Chunk(r))
            /\ pc'[r] = "ack" => item[r] \in done'
            /\ pc'[r] = "nak" => attempt[r] < MaxDeliver
            /\ pc'[r] = "term" => reason'[r] = reason[r] /\ <<item[r], reason[r]>> \in dead'
         \/ item'[r] = NoItem /\ attempt'[r] = 0 /\ pc'[r] \in {"off", "loop"}
         \/ /\ Fetch(r) /\ item'[r] = Oldest /\ attempt'[r] = tries + 1
            /\ pc'[r] \in {"read", "park"}
<1>0. /\ pc \in [Runs -> Phases] /\ item \in [Runs -> Numbers \cup {NoItem}]
      /\ attempt \in [Runs -> 0..MaxDeliver] /\ todo \in [Runs -> SUBSET Paths]
      /\ reason \in [Runs -> Reasons]
  BY DEF BatchInv, TypeOK
<1>1. ASSUME Leave(r)
      PROVE  item'[r] = NoItem /\ attempt'[r] = 0 /\ pc'[r] \in {"off", "loop"}
  BY <1>0, <1>1 DEF Leave, EmptyHands, Goto
<1>2. ASSUME Goto(r, "loop"), EmptyHands(r)
      PROVE  item'[r] = NoItem /\ attempt'[r] = 0 /\ pc'[r] \in {"off", "loop"}
  BY <1>0, <1>2 DEF EmptyHands, Goto
<1>3. ASSUME RetryLater(r)
      PROVE  /\ pc'[r] \in {"nak", "park"}
             /\ pc'[r] = "nak" => attempt[r] < MaxDeliver
  <2>1. attempt[r] \in Int /\ MaxDeliver \in Int
    BY <1>0, Limits
  <2>. QED
    BY <1>0, <1>3, <2>1 DEF RetryLater, ExhaustedRedelivery, Park, Goto
<1>4. ASSUME NEW why, Park(r, why)
      PROVE  pc'[r] = "park"
  BY <1>0, <1>4 DEF Park, Goto
<1>5. CASE RunStep(r)
  <2>1. CASE Yield(r) \/ FetchNothing(r)
    BY <1>0, <1>1, <2>1 DEF Yield, FetchNothing, handVars
  <2>2. CASE Fetch(r)
    BY <1>0, <2>2 DEF Fetch, Park, Goto
  <2>3. CASE \E p \in Paths : ReadTarget(r, p)
    BY <1>0, <2>3 DEF ReadTarget
  <2>4. CASE \E p \in Paths : WriteTarget(r, p)
    BY <1>0, <2>4 DEF WriteTarget, Goto
  <2>5. CASE \E refused \in BOOLEAN : CannotRead(r, refused)
    BY <1>0, <1>3, <1>4, <2>5 DEF CannotRead
  <2>6. CASE Decide(r)
    BY <1>0, <2>6 DEF Decide, Goto, Park
  <2>7. CASE \E p \in Paths, refused, landed \in BOOLEAN : CannotWrite(r, p, refused, landed)
    <3>1. /\ RetryLater(r) \/ Park(r, "mcp_refused") \/ Park(r, "partially_applied")
          /\ pc[r] = "write" /\ UNCHANGED <<item, attempt>>
      BY <2>7 DEF CannotWrite
    <3>. QED
      BY <1>3, <1>4, <3>1
  <2>8. CASE \E lost \in BOOLEAN : Ack(r, lost) \/ Nak(r, lost) \/ Term(r, lost)
    BY <1>2, <2>8 DEF Ack, Nak, Term
  <2>9. CASE DeadLetter(r)
    BY <1>0, <2>9 DEF DeadLetter, Goto, handVars
  <2>10. CASE \E landed \in BOOLEAN : CannotDeadLetter(r, landed)
    BY <1>1, <2>10 DEF CannotDeadLetter
  <2>. QED
    BY <1>5, <2>1, <2>2, <2>3, <2>4, <2>5, <2>6, <2>7, <2>8, <2>9, <2>10 DEF RunStep
<1>6. CASE BeginRun(r) \/ Crash(r)
  BY <1>0, <1>1, <1>6 DEF BeginRun, Crash, Goto, handVars
<1>. QED
  BY <1>5, <1>6, OwnSteps DEF BatchInv

\* What is finished or parked stays so.
LEMMA AnswersGrow ==
  ASSUME [Next]_vars
  PROVE  done \subseteq done' /\ dead \subseteq dead' /\ orphaned \subseteq orphaned'
BY DEF Next, RunStep, vars, ghosts, BeginRun, Yield, FetchNothing, Fetch, ReadTarget, WriteTarget,
       CannotRead, Decide, CannotWrite, Ack, Nak, Term, DeadLetter, CannotDeadLetter, Crash,
       AckWaitExpires, NakDelayEnds, PromotionMoves, Publish, ForeignWrite

-----------------------------------------------------------------------------
(* The types hold.                                                         *)

\* The broker's side.
LEMMA BrokerTyped ==
  ASSUME BatchInv, [Next]_vars
  PROVE  /\ stream' \in Seq(Publishable) /\ Len(stream') <= MaxPublished
         /\ settled' \in Seq(Fates) /\ Len(settled') <= Len(stream')
         /\ tries' \in 0..MaxDeliver /\ claim' \in {"free", "held", "delayed"}
         /\ Oldest <= Oldest' /\ (claim' # "free" => Pending') /\ (tries' # 0 => Pending')
<1>0. /\ stream \in Seq(Publishable) /\ Len(stream) \in Nat /\ Len(stream) <= MaxPublished
      /\ settled \in Seq(Fates) /\ Len(settled) \in Nat /\ Len(settled) <= Len(stream)
      /\ tries \in 0..MaxDeliver /\ claim \in {"free", "held", "delayed"}
      /\ claim # "free" => Len(settled) + 1 <= Len(stream)
      /\ tries # 0 => Len(settled) + 1 <= Len(stream)
  BY DEF BatchInv, TypeOK, RunsKnow, Pending, Oldest
<1>1. \/ stream' = stream
      \/ Len(stream) < MaxPublished /\ \E c \in Publishable : stream' = Append(stream, c)
  BY DEF Next, RunStep, vars, BeginRun, Yield, FetchNothing, Fetch, ReadTarget, WriteTarget,
         CannotRead, Decide, CannotWrite, Ack, Nak, Term, DeadLetter, CannotDeadLetter, Crash,
         AckWaitExpires, NakDelayEnds, PromotionMoves, Publish, ForeignWrite
<1>2. /\ stream' \in Seq(Publishable) /\ Len(stream') <= MaxPublished
      /\ Len(stream') \in Nat /\ Len(stream) <= Len(stream')
  <2>1. CASE stream' = stream
    BY <1>0, <2>1
  <2>2. CASE Len(stream) < MaxPublished /\ \E c \in Publishable : stream' = Append(stream, c)
    <3>1. PICK c \in Publishable : stream' = Append(stream, c)
      BY <2>2
    <3>2. Append(stream, c) \in Seq(Publishable) /\ Len(Append(stream, c)) = Len(stream) + 1
      BY <1>0, AppendProperties
    <3>. QED
      BY <1>0, <2>2, <3>1, <3>2, Limits
  <2>. QED
    BY <1>1, <2>1, <2>2
<1>3. ASSUME NEW fate \in Fates, Settle(fate), Pending
      PROVE  /\ settled' \in Seq(Fates) /\ Len(settled') <= Len(stream)
             /\ Len(settled') = Len(settled) + 1 /\ tries' = 0 /\ claim' = "free"
  BY <1>3, SettleTyped
<1>4. "acked" \in Fates /\ "termed" \in Fates /\ "dropped" \in Fates
  BY DEF Fates
<1>5. CASE \E fate \in Fates : Pending /\ Settle(fate)
  BY <1>0, <1>2, <1>3, <1>5, Limits DEF Oldest
<1>6. CASE \E r \in Runs : Fetch(r)
  BY <1>0, <1>2, <1>6, Limits DEF Fetch, Deliverable, Oldest, Pending
<1>7. CASE UNCHANGED brokerVars
  BY <1>0, <1>2, <1>7 DEF brokerVars, Oldest, Pending
<1>8. CASE Pending /\ UNCHANGED <<settled, tries>> /\ claim' \in {"free", "delayed"}
  BY <1>0, <1>2, <1>8 DEF Oldest, Pending
<1>. QED
  BY <1>4, <1>5, <1>6, <1>7, <1>8, BrokerSteps

\* What the runs blocked.
LEMMA BlockedTyped ==
  ASSUME BatchInv, [Next]_vars
  PROVE  blocked' \in [Runs -> SUBSET (Batches \X Paths)]
<1>0. /\ blocked \in [Runs -> SUBSET (Batches \X Paths)]
      /\ HandsTyped /\ PlacesTyped
  BY DEF BatchInv, TypeOK, HandsTyped, PlacesTyped
<1>1. ASSUME NEW r \in Runs, NEW lost \in BOOLEAN, Term(r, lost)
      PROVE  blocked' \in [Runs -> SUBSET (Batches \X Paths)]
  <2>1. Chunk(r) \in Publishable
    BY <1>1, Holding DEF Term
  <2>2. Blocks(Chunk(r), reason[r]) \subseteq Batches \X Paths
    BY <2>1, ChunkTyped DEF Blocks
  <2>. QED
    BY <1>0, <1>1, <2>2 DEF Term
<1>2. ASSUME NEW r \in Runs, Leave(r)
      PROVE  blocked' \in [Runs -> SUBSET (Batches \X Paths)]
  BY <1>0, <1>2, LeaveTyped
<1>3. \/ UNCHANGED blocked \/ \E r \in Runs : Leave(r)
      \/ \E r \in Runs, lost \in BOOLEAN : Term(r, lost)
  BY DEF Next, RunStep, vars, BeginRun, Yield, FetchNothing, Fetch, ReadTarget, WriteTarget,
         CannotRead, Decide, CannotWrite, Ack, Nak, DeadLetter, CannotDeadLetter, Crash,
         AckWaitExpires, NakDelayEnds, PromotionMoves, Publish, ForeignWrite
<1>. QED
  BY <1>0, <1>1, <1>2, <1>3

\* What each run knows of the chunk it holds.
LEMMA RunsKnowStep ==
  ASSUME BatchInv, [Next]_vars, NEW r \in Runs
  PROVE  /\ pc'[r] \in {"off", "loop"} <=> item'[r] = NoItem
         /\ item'[r] <= Len(stream') /\ item'[r] <= Oldest'
         /\ item'[r] = item[r] /\ item[r] # NoItem => Chunk(r)' = Chunk(r)
         /\ pc'[r] = "write" => todo'[r] \subseteq Targets(Chunk(r)')
         /\ pc'[r] = "ack" => item'[r] \in done'
         /\ pc'[r] = "nak" => attempt'[r] < MaxDeliver
         /\ pc'[r] = "term" => <<item'[r], reason'[r]>> \in dead'
<1>0. /\ pc[r] \in {"off", "loop"} <=> item[r] = NoItem
      /\ item[r] <= Len(stream) /\ item[r] <= Oldest
      /\ pc[r] = "write" => todo[r] \subseteq Targets(Chunk(r))
      /\ pc[r] = "ack" => item[r] \in done
      /\ pc[r] = "nak" => attempt[r] < MaxDeliver
      /\ pc[r] = "term" => <<item[r], reason[r]>> \in dead
  BY DEF BatchInv, RunsKnow
<1>1. /\ Oldest <= Oldest' /\ Len(stream) <= Len(stream')
      /\ \A i \in 1..Len(stream) : stream'[i] = stream[i]
      /\ Oldest \in Nat /\ Oldest' \in Nat /\ Len(stream) \in Nat /\ Len(stream') \in Nat
      /\ Oldest > 0
  <2>1. /\ settled \in Seq(Fates) /\ settled' \in Seq(Fates)
        /\ stream \in Seq(Publishable) /\ stream' \in Seq(Publishable)
    BY BrokerTyped DEF BatchInv, TypeOK
  <2>2. Len(settled) \in Nat /\ Len(settled') \in Nat
    BY <2>1
  <2>. QED
    BY <2>1, <2>2, BrokerTyped, StreamGrows DEF BatchInv, Oldest
<1>2. item[r] \in Nat
  <2>1. item[r] \in Numbers \cup {NoItem}
    BY DEF BatchInv, TypeOK
  <2>. QED
    BY <2>1, Limits DEF Numbers, NoItem
<1>3. item'[r] = item[r] /\ item[r] # NoItem => Chunk(r)' = Chunk(r)
  BY <1>0, <1>1, <1>2 DEF Chunk, NoItem
<1>4. done \subseteq done' /\ dead \subseteq dead'
  BY AnswersGrow
<1>5. CASE Own(r)' = Own(r)
  <2>1. pc'[r] = pc[r] /\ item'[r] = item[r] /\ attempt'[r] = attempt[r] /\ todo'[r] = todo[r]
        /\ reason'[r] = reason[r]
    BY <1>5 DEF Own
  <2>2. item'[r] <= Len(stream') /\ item'[r] <= Oldest'
    BY <1>0, <1>1, <1>2, <2>1
  <2>3. pc[r] = "write" => Chunk(r)' = Chunk(r)
    BY <1>0, <1>3, <2>1
  <2>. QED
    BY <1>0, <1>3, <1>4, <2>1, <2>2, <2>3
<1>6. CASE /\ UNCHANGED <<item[r], attempt[r]>>
           /\ pc[r] \in {"off", "loop"} <=> pc'[r] \in {"off", "loop"}
           /\ pc'[r] = "write" => \/ pc[r] = "write" /\ todo'[r] \subseteq todo[r]
                                  \/ todo'[r] = Targets(Chunk(r))
           /\ pc'[r] = "ack" => item[r] \in done'
           /\ pc'[r] = "nak" => attempt[r] < MaxDeliver
           /\ pc'[r] = "term" => reason'[r] = reason[r] /\ <<item[r], reason[r]>> \in dead'
  <2>1. item'[r] <= Len(stream') /\ item'[r] <= Oldest'
    BY <1>0, <1>1, <1>2, <1>6
  <2>2. pc'[r] = "write" => Chunk(r)' = Chunk(r)
    BY <1>0, <1>3, <1>6
  <2>. QED
    BY <1>0, <1>3, <1>6, <2>1, <2>2
<1>7. CASE item'[r] = NoItem /\ attempt'[r] = 0 /\ pc'[r] \in {"off", "loop"}
  BY <1>1, <1>3, <1>7 DEF NoItem
<1>8. CASE /\ Fetch(r) /\ item'[r] = Oldest /\ attempt'[r] = tries + 1
           /\ pc'[r] \in {"read", "park"}
  <2>1. Oldest <= Len(stream)
    BY <1>8 DEF Fetch, Deliverable, Pending
  <2>. QED
    BY <1>1, <1>3, <1>8, <2>1 DEF NoItem
<1>. QED
  BY <1>5, <1>6, <1>7, <1>8, HoldsSteps

\* Every step keeps the types and what runs know.
LEMMA BatchStep ==
  ASSUME BatchInv, [Next]_vars
  PROVE  BatchInv'
<1>1. TypeOK'
  BY HandsStep, PlacesStep, BrokerTyped, BlockedTyped DEF TypeOK, HandsTyped, PlacesTyped
<1>2. RunsKnow'
  BY BrokerTyped, RunsKnowStep DEF RunsKnow
<1>. QED
  BY <1>1, <1>2 DEF BatchInv

\* They hold when the first run begins.
LEMMA BatchStarts ==
  ASSUME Init
  PROVE  BatchInv
<1>1. TypeOK
  BY Limits, Names, BatchProcessorAssumption, EmptySeq
     DEF Init, TypeOK, Numbers, NoItem
<1>2. RunsKnow
  BY EmptySeq DEF Init, RunsKnow, Oldest, NoItem
<1>. QED
  BY <1>1, <1>2 DEF BatchInv

(***************************************************************************)
(* In every reachable state what the runs, the broker and the streams hold *)
(* is of its type: a run's attempts within the consumer's limit, its paths *)
(* those of the chunk it holds, at most one chunk settled at a time and    *)
(* none that was not published.                                            *)
(***************************************************************************)
THEOREM BatchTypeCorrect == Spec => []TypeOK
<1>1. Init => BatchInv
  BY BatchStarts
<1>2. BatchInv /\ [Next]_vars => BatchInv'
  BY BatchStep
<1>3. BatchInv => TypeOK
  BY DEF BatchInv
<1>. QED
  BY <1>1, <1>2, <1>3, PTL DEF Spec

-----------------------------------------------------------------------------
(* The broker's answers.                                                   *)

\* A run that puts a chunk down finished it, parked it, or leaves it to a
\* delivery still to come; or it dies with the last one.
LEMMA PuttingDown ==
  ASSUME BatchInv, [Next]_vars, NEW r \in Runs, item[r] # NoItem, item'[r] # item[r]
  PROVE  item[r] \in done \/ Parked(item[r]) \/ attempt[r] # MaxDeliver \/ item[r] \in orphaned'
<1>0. /\ item \in [Runs -> Numbers \cup {NoItem}] /\ reason[r] \in Reasons
      /\ pc[r] \notin {"off", "loop"}
      /\ pc[r] = "ack" => item[r] \in done
      /\ pc[r] = "term" => <<item[r], reason[r]>> \in dead
  BY DEF BatchInv, TypeOK, RunsKnow
<1>1. pc[r] = "nak" => attempt[r] # MaxDeliver
  <2>1. pc[r] = "nak" => attempt[r] < MaxDeliver
    BY DEF BatchInv, RunsKnow
  <2>. QED
    BY <2>1, Limits
<1>2. RunStep(r) \/ BeginRun(r) \/ Crash(r)
  BY OwnSteps DEF Own, BatchInv
<1>3. \/ pc[r] \in {"ack", "nak", "term"}
      \/ orphaned' = orphaned \cup Orphans(r)
  BY <1>0, <1>2 DEF RunStep, BeginRun, Crash, Holds, Yield, FetchNothing, Fetch, ReadTarget,
                    WriteTarget, CannotRead, Decide, CannotWrite, Ack, Nak, Term, DeadLetter,
                    CannotDeadLetter, handVars
<1>. QED
  BY <1>0, <1>1, <1>3 DEF Parked, Orphans

\* Once accounted for, a chunk stays so.
LEMMA AccountedStays ==
  ASSUME BatchInv, [Next]_vars, NEW i \in Numbers, Accounted(i)
  PROVE  Accounted(i)'
<1>1. i \in done => Accounted(i)'
  BY AnswersGrow DEF Accounted
<1>2. Parked(i) => Accounted(i)'
  BY AnswersGrow DEF Accounted, Parked
<1>3. i \in orphaned \/ i \in orphaned' => Accounted(i)'
  BY AnswersGrow DEF Accounted
<1>4. ASSUME NEW r \in Runs, item[r] = i, attempt[r] = MaxDeliver
      PROVE  Accounted(i)'
  <2>1. item[r] # NoItem
    BY <1>4, Limits DEF Numbers, NoItem
  <2>2. CASE item'[r] # item[r]
    BY <1>1, <1>2, <1>3, <1>4, <2>1, <2>2, PuttingDown
  <2>3. CASE item'[r] = item[r]
    <3>1. ~Fetch(r)
      BY <2>1 DEF BatchInv, RunsKnow, Fetch
    <3>2. attempt'[r] = attempt[r]
      BY <2>1, <2>3, <3>1, HoldsSteps DEF Own
    <3>. QED
      BY <1>4, <2>3, <3>2 DEF Accounted, LastHeld
  <2>. QED
    BY <2>2, <2>3
<1>. QED
  BY <1>1, <1>2, <1>3, <1>4 DEF Accounted, LastHeld

\* Every step keeps an account behind the broker's answers.
LEMMA AnswersStep ==
  ASSUME BatchInv, AnswersStand, [Next]_vars
  PROVE  AnswersStand'
<1>0. /\ settled \in Seq(Fates) /\ Len(settled) \in Nat /\ Len(stream) \in Nat
      /\ Len(settled) <= Len(stream) /\ Len(stream) <= MaxPublished
      /\ tries \in 0..MaxDeliver
  BY DEF BatchInv, TypeOK
<1>1. \A i \in 1..Len(settled) : i \in Numbers
  BY <1>0, Limits DEF Numbers
<1>2. ASSUME NEW i \in 1..Len(settled)
      PROVE  /\ settled[i] = "acked" => i \in done'
             /\ settled[i] = "termed" => Parked(i)'
             /\ settled[i] = "dropped" => Accounted(i)'
  <2>1. settled[i] = "acked" => i \in done'
    BY AnswersGrow DEF AnswersStand
  <2>2. settled[i] = "termed" => Parked(i)'
    BY AnswersGrow DEF AnswersStand, Parked
  <2>3. settled[i] = "dropped" => Accounted(i)'
    BY <1>1, AccountedStays DEF AnswersStand
  <2>. QED
    BY <2>1, <2>2, <2>3
<1>3. Pending => Oldest \in Numbers
  BY <1>0, Limits DEF Pending, Oldest, Numbers
<1>4. ASSUME UNCHANGED settled, tries' = MaxDeliver => Accounted(Oldest)'
      PROVE  AnswersStand'
  BY <1>2, <1>4 DEF AnswersStand
<1>5. ASSUME NEW fate \in Fates, NEW n \in Numbers, n = Oldest, Pending, Settle(fate),
             fate = "acked" => n \in done',
             fate = "termed" => Parked(n)',
             fate = "dropped" => Accounted(n)'
      PROVE  AnswersStand'
  <2>1. /\ Len(settled') = Len(settled) + 1 /\ tries' = 0
        /\ \A i \in 1..Len(settled) : settled'[i] = settled[i]
        /\ settled'[n] = fate
    BY <1>5, SettleTyped DEF Oldest
  <2>2. ASSUME NEW i \in 1..Len(settled')
        PROVE  /\ settled'[i] = "acked" => i \in done'
               /\ settled'[i] = "termed" => Parked(i)'
               /\ settled'[i] = "dropped" => Accounted(i)'
    <3>1. CASE i \in 1..Len(settled)
      BY <1>2, <2>1, <3>1
    <3>2. CASE i = n
      BY <1>5, <2>1, <3>2
    <3>3. i \in 1..Len(settled) \/ i = n
      BY <1>0, <1>5, <2>1 DEF Oldest
    <3>. QED
      BY <3>1, <3>2, <3>3
  <2>. QED
    BY <2>1, <2>2, Limits DEF AnswersStand
<1>6. CASE UNCHANGED brokerVars
  <2>1. tries' = MaxDeliver => Accounted(Oldest)
    BY <1>6 DEF AnswersStand, brokerVars
  <2>2. tries' = MaxDeliver => Accounted(Oldest)'
    <3>1. Oldest' = Oldest /\ tries' = tries
      BY <1>6 DEF brokerVars, Oldest
    <3>2. tries = MaxDeliver => Oldest \in Numbers
      BY <1>3, Limits DEF BatchInv, RunsKnow
    <3>. QED
      BY <2>1, <3>1, <3>2, AccountedStays
  <2>. QED
    BY <1>4, <1>6, <2>2 DEF brokerVars
<1>7. ASSUME NEW r \in Runs, Fetch(r)
      PROVE  AnswersStand'
  <2>1. UNCHANGED settled /\ tries' = tries + 1
    BY <1>7 DEF Fetch
  <2>2. item'[r] = Oldest /\ attempt'[r] = tries'
    BY <1>7 DEF Fetch, BatchInv, TypeOK
  <2>3. Oldest' = Oldest
    BY <2>1 DEF Oldest
  <2>. QED
    BY <1>4, <1>7, <2>1, <2>2, <2>3 DEF Accounted, LastHeld
<1>8. CASE Pending /\ UNCHANGED <<settled, tries>>
  <2>1. Oldest' = Oldest
    BY <1>8 DEF Oldest
  <2>. QED
    BY <1>3, <1>4, <1>8, <2>1, AccountedStays DEF AnswersStand
<1>9. ASSUME NEW r \in Runs, Pending, pc[r] = "ack", item[r] = Oldest, Settle("acked")
      PROVE  AnswersStand'
  <2>1. item[r] \in Numbers /\ item[r] \in done'
    BY <1>9, AnswersGrow, Holding DEF BatchInv, RunsKnow
  <2>. QED
    BY <1>5, <1>9, <2>1, Names
<1>10. ASSUME NEW r \in Runs, Pending, pc[r] = "term", item[r] = Oldest, Settle("termed")
       PROVE  AnswersStand'
  <2>1. PICK n \in Numbers : n = item[r]
    BY <1>10, Holding
  <2>2. PICK why \in Reasons : why = reason[r]
    BY DEF BatchInv, TypeOK
  <2>3. <<n, why>> \in dead'
    BY <1>10, <2>1, <2>2, AnswersGrow DEF BatchInv, RunsKnow
  <2>4. Parked(n)'
    BY <2>3 DEF Parked
  <2>. QED
    BY <1>5, <1>10, <2>1, <2>4, Names
<1>11. ASSUME Pending, tries = MaxDeliver, Settle("dropped")
       PROVE  AnswersStand'
  <2>1. PICK n \in Numbers : n = Oldest
    BY <1>3, <1>11
  <2>2. Accounted(n)
    BY <1>11, <2>1 DEF AnswersStand
  <2>3. Accounted(n)'
    BY <2>2, AccountedStays
  <2>. QED
    BY <1>5, <1>11, <2>1, <2>3, Names
<1>. QED
  BY <1>6, <1>7, <1>8, <1>9, <1>10, <1>11, BrokerSteps

(***************************************************************************)
(* Whatever runs overlap, whatever fails or dies and however often: the    *)
(* broker's answer is never ahead of the work.  An acknowledged chunk was  *)
(* finished in the vault, a terminated one has its copy, and one the       *)
(* broker gave up on has one or the other, or a run that holds it, or one  *)
(* that died holding its last delivery.                                    *)
(***************************************************************************)
THEOREM AnswersAreAccountedFor == Spec => []SettledIsAccountedFor
<1>1. Init => BatchInv /\ AnswersStand
  <2>1. ASSUME Init
        PROVE  Len(settled) = 0 /\ tries = 0
    BY <2>1, EmptySeq DEF Init
  <2>. QED
    BY <2>1, BatchStarts, Limits DEF AnswersStand
<1>2. BatchInv /\ AnswersStand /\ [Next]_vars => (BatchInv /\ AnswersStand)'
  BY BatchStep, AnswersStep
<1>3. BatchInv /\ AnswersStand => SettledIsAccountedFor
  <2>1. ASSUME BatchInv, AnswersStand, NEW i \in 1..Len(settled)
        PROVE  /\ settled[i] \in {"acked", "termed", "dropped"}
               /\ settled[i] = "acked" => i \in done
               /\ settled[i] = "termed" => Parked(i)
               /\ settled[i] = "dropped" =>
                    i \in done \/ Parked(i) \/ InHand(i) \/ i \in orphaned
    <3>1. settled[i] \in Fates
      BY <2>1, ElementOfSeq DEF BatchInv, TypeOK
    <3>. QED
      BY <2>1, <3>1 DEF Fates, AnswersStand, Accounted, LastHeld, InHand
  <2>. QED
    BY <2>1 DEF SettledIsAccountedFor
<1>. QED
  BY <1>1, <1>2, <1>3, PTL DEF Spec

-----------------------------------------------------------------------------
(* What a write may touch.                                                 *)

\* What a run that is writing decided: admission has nothing against the
\* chunk, and it only creates in the write-once layer.
MayWrite ==
  \A r \in Runs : pc[r] = "write" =>
    /\ ~AdmissionRefused(Chunk(r))
    /\ \A p \in Targets(Chunk(r)) \cap RawPaths : EditOf(r, p).op \in Creating

\* A run begins to write by deciding to.
LEMMA BeginsWriting ==
  ASSUME BatchInv, [Next]_vars, NEW r \in Runs, pc'[r] = "write", pc[r] # "write"
  PROVE  /\ pc[r] = "read" /\ Unseen(r) = {} /\ Chunk(r).form = "good"
         /\ ~DependsOn(Chunk(r), blocked[r]) /\ ~Rejected(Chunk(r), seen[r])
         /\ ~AdmissionRefused(Chunk(r))
         /\ todo'[r] = Targets(Chunk(r)) /\ Chunk(r)' = Chunk(r)
         /\ UNCHANGED <<item, vault, blocked, seen, reason, ended, stream>>
<1>0. /\ pc \in [Runs -> Phases] /\ todo \in [Runs -> SUBSET Paths]
  BY DEF BatchInv, TypeOK
<1>1. RunStep(r) \/ BeginRun(r) \/ Crash(r)
  BY OwnSteps DEF Own, BatchInv
<1>2. Decide(r)
  BY <1>0, <1>1 DEF RunStep, BeginRun, Crash, Leave, Goto, Park, RetryLater, Yield, FetchNothing,
       Fetch, ReadTarget, WriteTarget, CannotRead, CannotWrite, Ack, Nak, Term, DeadLetter,
       CannotDeadLetter, handVars
<1>3. /\ ~DependsOn(Chunk(r), blocked[r]) /\ ~Rejected(Chunk(r), seen[r])
      /\ Chunk(r).form = "good" /\ ~AdmissionRefused(Chunk(r))
      /\ todo'[r] = Targets(Chunk(r)) /\ pc[r] = "read" /\ Unseen(r) = {} /\ UNCHANGED reason
  BY <1>0, <1>2 DEF Decide, Goto, Park
<1>. QED
  BY <1>2, <1>3 DEF Decide, Chunk

\* A run that keeps writing keeps its chunk.
LEMMA KeepsWriting ==
  ASSUME BatchInv, [Next]_vars, NEW r \in Runs, pc'[r] = "write", pc[r] = "write"
  PROVE  item'[r] = item[r] /\ item[r] # NoItem /\ Chunk(r)' = Chunk(r)
<1>1. item[r] # NoItem
  BY Holding
<1>2. item'[r] = item[r]
  <2>1. ~Fetch(r)
    BY DEF Fetch
  <2>. QED
    BY <2>1, HoldsSteps DEF Own
<1>. QED
  BY <1>1, <1>2, RunsKnowStep

\* A write that lands is one the server may make, to what the chunk asks for
\* there.
LEMMA Landing ==
  ASSUME BatchInv, [Next]_vars, NEW r \in Runs, NEW p \in Paths, Writes(r, p)
  PROVE  /\ p \in todo[r] /\ p \in Targets(Chunk(r)) /\ ~Clobbers(r, p)
         /\ vault' = [vault EXCEPT ![p] = EditOf(r, p).post]
<1>0. vault \in [Paths -> Holdings]
  BY DEF BatchInv, TypeOK
<1>1. RunStep(r) \/ BeginRun(r) \/ Crash(r)
  BY OwnSteps DEF Own, BatchInv, Writes
<1>2. pc[r] = "write" /\ vault'[p] # vault[p]
  BY DEF Writes
<1>3. \/ \E q \in Paths : WriteTarget(r, q)
      \/ \E q \in Paths, refused, landed \in BOOLEAN : landed /\ CannotWrite(r, q, refused, landed)
  BY <1>1, <1>2 DEF RunStep, BeginRun, Crash, Yield, FetchNothing, Fetch, ReadTarget, CannotRead,
                    Decide, CannotWrite, Ack, Nak, Term, DeadLetter, CannotDeadLetter
<1>4. PICK q \in Paths : LandsOn(r, q) /\ ~Clobbers(r, q) /\ q \in NextWrites(r)
  BY <1>3 DEF WriteTarget, CannotWrite
<1>5. q = p
  BY <1>0, <1>2, <1>4 DEF LandsOn
<1>. QED
  BY <1>2, <1>4, <1>5, Holding DEF LandsOn, EditOf

(***************************************************************************)
(* For any runs, any other writers and any failures: no create and no      *)
(* rename replaces a note, nothing of the write-once layer is changed or   *)
(* removed, and no chunk with a post-image admission refuses writes any of *)
(* its paths.                                                              *)
(***************************************************************************)
THEOREM WritesStayAllowed == Spec => WritesAreAllowed
<1>1. Init => BatchInv /\ MayWrite
  BY BatchStarts DEF Init, MayWrite
<1>2. BatchInv /\ MayWrite /\ [Next]_vars => (BatchInv /\ MayWrite)'
  <2>1. ASSUME BatchInv, MayWrite, [Next]_vars, NEW r \in Runs, pc'[r] = "write"
        PROVE  /\ ~AdmissionRefused(Chunk(r)')
               /\ \A p \in Targets(Chunk(r)') \cap RawPaths :
                    Chunk(r)'.edits[p].op \in Creating
    <3>1. CASE pc[r] = "write"
      BY <2>1, <3>1, KeepsWriting DEF MayWrite, EditOf
    <3>2. CASE pc[r] # "write"
      <4>1. ~AdmissionRefused(Chunk(r)) /\ ~Rejected(Chunk(r), seen[r]) /\ Chunk(r)' = Chunk(r)
        BY <2>1, <3>2, BeginsWriting
      <4>2. ASSUME NEW p \in Targets(Chunk(r)), p \in RawPaths
            PROVE  Chunk(r).edits[p].op \in Creating
        BY <4>1, <4>2 DEF Rejected, TargetRejected
      <4>. QED
        BY <4>1, <4>2
    <3>. QED
      BY <3>1, <3>2
  <2>2. ASSUME BatchInv, MayWrite, [Next]_vars
        PROVE  MayWrite'
    BY <2>1, <2>2 DEF MayWrite, EditOf
  <2>. QED
    BY <2>2, BatchStep
<1>3. BatchInv /\ MayWrite /\ [Next]_vars =>
        [\A r \in Runs, p \in Paths : Writes(r, p) =>
           /\ EditOf(r, p).op \in Creating \/ p \in RawPaths => vault[p] = Absent
           /\ \A q \in Targets(Chunk(r)) \cap Curated :
                EditOf(r, q).post \notin Inadmissible]_vars
  <2>1. ASSUME BatchInv, MayWrite, [Next]_vars, NEW r \in Runs, NEW p \in Paths, Writes(r, p)
        PROVE  /\ EditOf(r, p).op \in Creating \/ p \in RawPaths => vault[p] = Absent
               /\ \A q \in Targets(Chunk(r)) \cap Curated :
                    EditOf(r, q).post \notin Inadmissible
    <3>1. pc[r] = "write"
      BY <2>1 DEF Writes
    <3>2. p \in Targets(Chunk(r)) /\ ~Clobbers(r, p) /\ Chunk(r) \in Publishable
      BY <2>1, <3>1, Landing, Holding
    <3>3. p \in RawPaths => EditOf(r, p).op \in Creating
      BY <2>1, <3>1, <3>2 DEF MayWrite
    <3>4. EditOf(r, p).op \in Creating => vault[p] = Absent
      BY <3>2 DEF EditOf, Clobbers, Overwrites, Creating, Deleting
    <3>5. ASSUME NEW q \in Targets(Chunk(r)), q \in Curated
          PROVE  EditOf(r, q).post \notin Inadmissible
      <4>1. EditOf(r, q).op \in Deleting \/ EditOf(r, q).post \notin Inadmissible
        BY <2>1, <3>1, <3>5 DEF MayWrite, AdmissionRefused, EditOf
      <4>2. EditOf(r, q).op \in Deleting => EditOf(r, q).post = Absent
        BY <3>2, ChunkTyped DEF EditOf
      <4>3. Absent \notin Inadmissible
        BY BatchProcessorAssumption
      <4>. QED
        BY <4>1, <4>2, <4>3
    <3>. QED
      BY <3>3, <3>4, <3>5
  <2>. QED
    BY <2>1
<1>. QED
  BY <1>1, <1>2, <1>3, PTL DEF Spec, WritesAreAllowed

-----------------------------------------------------------------------------
(* One run at a time, with the vault to itself.                            *)

\* No second run, and nobody else writes to the vault.
Alone == (\A r, s \in Runs : r = s) /\ MaxForeign = 0

\* The run holds the oldest chunk, at its last delivery; or the one settled
\* last, dropped under its hands.  Nothing later is finished or parked.
HandInv ==
  /\ foreign = 0
  /\ \A r \in Runs : item[r] # NoItem =>
       \/ item[r] = Oldest /\ attempt[r] = tries
       \/ item[r] = Len(settled) /\ attempt[r] = MaxDeliver /\ claim = "free"
  /\ \A i \in Numbers : i \in done \/ Parked(i) =>
       /\ i <= Oldest
       /\ \A r \in Runs : item[r] # NoItem => i <= item[r]

\* Only the chunk a run holds is finished or parked by a step.
LEMMA NewAnswers ==
  ASSUME BatchInv, [Next]_vars
  PROVE  \A i \in Numbers : i \in done' \/ Parked(i)' =>
           i \in done \/ Parked(i) \/ \E r \in Runs : item[r] = i /\ pc[r] \notin {"off", "loop"}
<1>1. \A i \in Numbers : i \in done' =>
        i \in done \/ \E r \in Runs : item[r] = i /\ pc[r] \notin {"off", "loop"}
  BY DEF Next, RunStep, vars, ghosts, BeginRun, Yield, FetchNothing, Fetch, ReadTarget,
         WriteTarget, CannotRead, Decide, CannotWrite, Ack, Nak, Term, DeadLetter,
         CannotDeadLetter, Crash, AckWaitExpires, NakDelayEnds, PromotionMoves, Publish,
         ForeignWrite
<1>2. \A i \in Numbers, why \in Reasons : <<i, why>> \in dead' =>
        <<i, why>> \in dead \/ \E r \in Runs : item[r] = i /\ pc[r] \notin {"off", "loop"}
  BY DEF Next, RunStep, vars, ghosts, BeginRun, Yield, FetchNothing, Fetch, ReadTarget,
         WriteTarget, CannotRead, Decide, CannotWrite, Ack, Nak, Term, DeadLetter,
         CannotDeadLetter, Crash, AckWaitExpires, NakDelayEnds, PromotionMoves, Publish,
         ForeignWrite
<1>. QED
  BY <1>1, <1>2 DEF Parked

\* Nobody else writes.
LEMMA NoForeign ==
  ASSUME BatchInv, foreign = 0, [Next]_vars
  PROVE  foreign' = 0 /\ \A p \in Paths, held \in Holdings : ~ForeignWrite(p, held)
<1>1. \A p \in Paths, held \in Holdings : ~ForeignWrite(p, held)
  BY DEF ForeignWrite
<1>2. foreign' = foreign
  BY <1>1 DEF Next, RunStep, vars, ghosts, BeginRun, Yield, FetchNothing, Fetch, ReadTarget,
         WriteTarget, CannotRead, Decide, CannotWrite, Ack, Nak, Term, DeadLetter,
         CannotDeadLetter, Crash, AckWaitExpires, NakDelayEnds, PromotionMoves, Publish
<1>. QED
  BY <1>1, <1>2

\* Every step keeps the run's hands so.
LEMMA HandStep ==
  ASSUME Alone, BatchInv, HandInv, [Next]_vars
  PROVE  HandInv'
<1>0. /\ Len(settled) \in Nat /\ Len(settled') \in Nat /\ Oldest <= Oldest'
      /\ item \in [Runs -> Numbers \cup {NoItem}]
      /\ tries \in Nat /\ Oldest \in Nat /\ Oldest' \in Nat
  <2>1. settled \in Seq(Fates) /\ settled' \in Seq(Fates)
    BY BrokerTyped DEF BatchInv, TypeOK
  <2>2. Len(settled) \in Nat /\ Len(settled') \in Nat
    BY <2>1
  <2>3. tries \in 0..MaxDeliver /\ item \in [Runs -> Numbers \cup {NoItem}]
    BY DEF BatchInv, TypeOK
  <2>. QED
    BY <2>2, <2>3, BrokerTyped, Limits DEF Oldest
<1>1. foreign' = 0
  BY NoForeign DEF HandInv
<1>2. ASSUME NEW r \in Runs, item'[r] # NoItem
      PROVE  \/ item'[r] = Oldest' /\ attempt'[r] = tries'
             \/ item'[r] = Len(settled') /\ attempt'[r] = MaxDeliver /\ claim' = "free"
  <2>1. CASE Fetch(r) /\ item'[r] = Oldest /\ attempt'[r] = tries + 1
    BY <2>1 DEF Fetch, Oldest
  <2>2. CASE item'[r] = item[r] /\ attempt'[r] = attempt[r] /\ ~Fetch(r)
    <3>1. \A s \in Runs : s = r
      BY DEF Alone
    <3>2. \/ item[r] = Oldest /\ attempt[r] = tries
          \/ item[r] = Len(settled) /\ attempt[r] = MaxDeliver /\ claim = "free"
      BY <1>2, <2>2 DEF HandInv
    <3>3. CASE UNCHANGED brokerVars
      BY <2>2, <3>2, <3>3 DEF brokerVars, Oldest
    <3>4. CASE /\ Pending /\ UNCHANGED <<settled, tries>>
               /\ claim # "free" /\ claim' \in {"free", "delayed"}
      BY <2>2, <3>2, <3>4 DEF Oldest
    <3>5. CASE Pending /\ tries = MaxDeliver /\ AckWaitExpires /\ Settle("dropped")
      <4>1. Len(settled') = Oldest /\ claim' = "free"
        BY <3>5, SettleTyped, Names DEF Oldest
      <4>2. item[r] = Oldest /\ attempt[r] = MaxDeliver
        BY <3>2, <3>5 DEF AckWaitExpires
      <4>. QED
        BY <2>2, <4>1, <4>2
    <3>. QED
      BY <1>2, <2>2, <3>1, <3>3, <3>4, <3>5, BrokerSteps
  <2>3. \/ item'[r] = item[r] /\ attempt'[r] = attempt[r]
        \/ Fetch(r) /\ item'[r] = Oldest /\ attempt'[r] = tries + 1
    BY <1>2, HoldsSteps DEF Own
  <2>4. Fetch(r) => item[r] = NoItem
    BY DEF Fetch, BatchInv, RunsKnow
  <2>. QED
    BY <1>2, <2>1, <2>2, <2>3, <2>4
<1>3. ASSUME NEW i \in Numbers, i \in done' \/ Parked(i)'
      PROVE  /\ i <= Oldest'
             /\ \A r \in Runs : item'[r] # NoItem => i <= item'[r]
  <2>0. i \in Nat
    BY Limits DEF Numbers
  <2>1. CASE i \in done \/ Parked(i)
    <3>1. i <= Oldest /\ \A r \in Runs : item[r] # NoItem => i <= item[r]
      BY <2>1 DEF HandInv
    <3>2. ASSUME NEW r \in Runs, item'[r] # NoItem
          PROVE  item'[r] = Oldest \/ item'[r] = item[r]
      BY <3>2, HoldsSteps DEF Own
    <3>. QED
      BY <1>0, <2>0, <3>1, <3>2
  <2>2. CASE \E s \in Runs : item[s] = i /\ pc[s] \notin {"off", "loop"}
    <3>1. PICK s \in Runs : item[s] = i /\ pc[s] \notin {"off", "loop"}
      BY <2>2
    <3>2. i <= Oldest
      BY <3>1 DEF BatchInv, RunsKnow
    <3>3. ASSUME NEW r \in Runs, item'[r] # NoItem
          PROVE  i <= item'[r]
      <4>1. r = s
        BY DEF Alone
      <4>2. ~Fetch(r)
        BY <3>1, <4>1 DEF Fetch
      <4>3. item'[r] = item[r]
        BY <3>3, <4>2, HoldsSteps DEF Own
      <4>. QED
        BY <2>0, <3>1, <4>1, <4>3
    <3>. QED
      BY <1>0, <2>0, <3>2, <3>3
  <2>. QED
    BY <1>3, <2>1, <2>2, NewAnswers
<1>. QED
  BY <1>1, <1>2, <1>3 DEF HandInv

-----------------------------------------------------------------------------
(* What the vault holds under the run's hands.                             *)

\* What the run read is still so; what it has yet to write is as its patch
\* found it, what it wrote is as its patch leaves it; and when it is about to
\* acknowledge, all of it is.
VaultOf(r) ==
  /\ pc[r] \in {"off", "loop"} => \A p \in Paths : seen[r][p] = Unread
  /\ pc[r] = "read" =>
       \A p \in Targets(Chunk(r)) : seen[r][p] \in {Unread, vault[p]}
  /\ pc[r] = "write" =>
       \A p \in Targets(Chunk(r)) :
         vault[p] = IF p \in todo[r] THEN EditOf(r, p).base ELSE EditOf(r, p).post
  /\ pc[r] = "ack" => \A p \in Targets(Chunk(r)) : vault[p] = EditOf(r, p).post

VaultInv == foreign = 0 /\ \A r \in Runs : VaultOf(r)

\* Of a run alone, only its own writes change the vault.
LEMMA VaultAlone ==
  ASSUME Alone, BatchInv, foreign = 0, [Next]_vars, NEW r \in Runs
  PROVE  vault' = vault \/ (pc[r] = "write" /\ RunStep(r))
<1>1. \A s \in Runs : s = r
  BY DEF Alone
<1>2. \A p \in Paths, held \in Holdings : ~ForeignWrite(p, held)
  BY NoForeign
<1>. QED
  BY <1>1, <1>2 DEF Next, RunStep, vars, BeginRun, Yield, FetchNothing, Fetch, ReadTarget,
         WriteTarget, CannotRead, Decide, CannotWrite, Ack, Nak, Term, DeadLetter,
         CannotDeadLetter, Crash, AckWaitExpires, NakDelayEnds, PromotionMoves, Publish

\* A run that puts its chunk down, or goes where nothing is said of the vault.
LEMMA VaultElsewhere ==
  ASSUME BatchInv, NEW r \in Runs,
         \/ EmptyHands(r)
         \/ pc'[r] \in {"nak", "park", "term"}
  PROVE  pc'[r] \notin {"read", "write", "ack"} => VaultOf(r)'
<1>1. seen \in [Runs -> [Paths -> Holdings \cup {Unread}]]
  BY DEF BatchInv, TypeOK
<1>. QED
  BY <1>1 DEF VaultOf, EmptyHands

\* Every step of the run keeps what it knows of the vault.
LEMMA VaultStep ==
  ASSUME Alone, BatchInv, VaultInv, [Next]_vars
  PROVE  VaultInv'
<1>. SUFFICES ASSUME NEW r \in Runs
              PROVE  VaultOf(r)'
  BY NoForeign DEF VaultInv
<1>0. /\ pc \in [Runs -> Phases] /\ todo \in [Runs -> SUBSET Paths]
      /\ seen \in [Runs -> [Paths -> Holdings \cup {Unread}]]
      /\ vault \in [Paths -> Holdings]
      /\ item \in [Runs -> Numbers \cup {NoItem}]
  BY DEF BatchInv, TypeOK
<1>1. VaultOf(r) /\ foreign = 0
  BY DEF VaultInv
<1>2. item'[r] = item[r] /\ item[r] # NoItem => Chunk(r)' = Chunk(r)
  BY RunsKnowStep
<1>3. pc[r] \notin {"off", "loop"} => item[r] # NoItem /\ Targets(Chunk(r)) \subseteq Paths
  BY Holding
<1>4. ASSUME EmptyHands(r), pc'[r] \in {"off", "loop"}
      PROVE  VaultOf(r)'
  BY <1>4, VaultElsewhere
<1>5. ASSUME pc'[r] \in {"nak", "park", "term"}
      PROVE  VaultOf(r)'
  BY <1>5 DEF VaultOf
<1>6. ASSUME Leave(r)
      PROVE  VaultOf(r)'
  BY <1>0, <1>4, <1>6 DEF Leave, Goto
<1>7. ASSUME UNCHANGED <<pc[r], item[r], seen[r], todo[r]>>, vault' = vault
      PROVE  VaultOf(r)'
  BY <1>1, <1>2, <1>3, <1>7 DEF VaultOf, EditOf
<1>8. CASE RunStep(r)
  <2>1. CASE Yield(r)
    BY <1>6, <1>7, <2>1 DEF Yield, handVars
  <2>2. CASE FetchNothing(r)
    BY <1>6, <2>2 DEF FetchNothing
  <2>3. CASE Fetch(r)
    <3>1. pc'[r] \in {"read", "park"} /\ pc[r] = "loop"
      BY <1>0, <2>3 DEF Fetch, Park, Goto
    <3>2. seen' = seen
      BY <2>3 DEF Fetch
    <3>3. Targets(Chunk(r)') \subseteq Paths
      <4>1. BatchInv' /\ pc'[r] \notin {"off", "loop"}
        BY <3>1, BatchStep
      <4>2. item'[r] # NoItem
        BY <4>1 DEF BatchInv, RunsKnow
      <4>3. Chunk(r)' \in Publishable
        <5>1. item' = [item EXCEPT ![r] = Oldest] /\ stream' = stream /\ Oldest <= Len(stream)
          BY <2>3 DEF Fetch, Deliverable, Pending
        <5>2. stream \in Seq(Publishable) /\ Oldest \in 1..Len(stream)
          <6>1. stream \in Seq(Publishable) /\ settled \in Seq(Fates)
            BY DEF BatchInv, TypeOK
          <6>. QED
            BY <5>1, <6>1 DEF Oldest
        <5>3. stream[Oldest] \in Publishable
          BY <5>2, ElementOfSeq
        <5>. QED
          BY <1>0, <5>1, <5>3 DEF Chunk
      <4>. QED
        BY <4>3, ChunkTyped
    <3>. QED
      BY <1>1, <3>1, <3>2, <3>3 DEF VaultOf
  <2>4. CASE \E p \in Paths : ReadTarget(r, p)
    <3>1. PICK p \in Paths : ReadTarget(r, p)
      BY <2>4
    <3>2. /\ pc'[r] = "read" /\ pc[r] = "read" /\ Chunk(r)' = Chunk(r) /\ vault' = vault
          /\ seen'[r] = [seen[r] EXCEPT ![p] = vault[p]]
      BY <1>0, <1>2, <1>3, <3>1 DEF ReadTarget
    <3>. QED
      BY <1>0, <1>1, <1>3, <3>2 DEF VaultOf
  <2>5. CASE \E p \in Paths : WriteTarget(r, p)
    <3>1. PICK p \in Paths : WriteTarget(r, p)
      BY <2>5
    <3>2. /\ pc[r] = "write" /\ Chunk(r)' = Chunk(r) /\ p \in Targets(Chunk(r))
          /\ vault' = [vault EXCEPT ![p] = EditOf(r, p).post]
          /\ todo'[r] = todo[r] \ {p}
      BY <1>0, <1>2, <1>3, <3>1, Holding DEF WriteTarget, LandsOn, EditOf
    <3>3. \A q \in Targets(Chunk(r)) :
            vault'[q] = IF q \in todo'[r] THEN EditOf(r, q).base ELSE EditOf(r, q).post
      BY <1>0, <1>1, <1>3, <3>2 DEF VaultOf
    <3>4. pc'[r] = "write" \/ (pc'[r] = "ack" /\ todo'[r] = {})
      BY <1>0, <3>1, <3>2 DEF WriteTarget, Goto
    <3>. QED
      BY <3>2, <3>3, <3>4 DEF VaultOf, EditOf
  <2>6. CASE \E refused \in BOOLEAN : CannotRead(r, refused)
    <3>1. pc'[r] \in {"nak", "park"}
      BY <1>0, <2>6 DEF CannotRead, RetryLater, Park, Goto
    <3>. QED
      BY <1>5, <3>1
  <2>7. CASE Decide(r)
    <3>1. /\ pc[r] = "read" /\ Chunk(r)' = Chunk(r) /\ vault' = vault /\ Unseen(r) = {}
      BY <1>2, <1>3, <2>7 DEF Decide
    <3>2. \A p \in Targets(Chunk(r)) : seen[r][p] = vault[p]
      BY <1>1, <3>1 DEF VaultOf, Unseen
    <3>3. CASE pc'[r] = "write"
      <4>1. ~Rejected(Chunk(r), seen[r]) /\ todo'[r] = Targets(Chunk(r))
        BY <3>1, <3>3, BeginsWriting
      <4>2. \A p \in Targets(Chunk(r)) : vault[p] = EditOf(r, p).base
        <5>. SUFFICES ASSUME NEW p \in Targets(Chunk(r))
                      PROVE  vault[p] = EditOf(r, p).base
          OBVIOUS
        <5>1. ~TargetRejected(p, EditOf(r, p), vault[p])
          BY <3>2, <4>1 DEF Rejected, EditOf
        <5>2. EditOf(r, p).op \in Creating => EditOf(r, p).base = Absent
          BY <3>1, Holding, ChunkTyped DEF EditOf
        <5>. QED
          BY <5>1, <5>2 DEF TargetRejected
      <4>. QED
        BY <3>1, <3>3, <4>1, <4>2 DEF VaultOf, EditOf
    <3>4. CASE pc'[r] = "ack"
      <4>1. AlreadyApplied(Chunk(r), seen[r])
        BY <1>0, <2>7, <3>4 DEF Decide, Goto, Park
      <4>2. \A p \in Targets(Chunk(r)) : vault[p] = EditOf(r, p).post
        BY <3>2, <4>1 DEF AlreadyApplied, EditOf
      <4>. QED
        BY <3>1, <3>4, <4>2 DEF VaultOf, EditOf
    <3>5. pc'[r] \in {"write", "ack", "park"}
      BY <1>0, <2>7 DEF Decide, Goto, Park
    <3>. QED
      BY <1>5, <3>3, <3>4, <3>5
  <2>8. CASE \E p \in Paths, refused, landed \in BOOLEAN : CannotWrite(r, p, refused, landed)
    <3>1. RetryLater(r) \/ Park(r, "mcp_refused") \/ Park(r, "partially_applied")
      BY <2>8 DEF CannotWrite
    <3>2. pc'[r] \in {"nak", "park"}
      BY <1>0, <3>1 DEF RetryLater, Park, Goto
    <3>. QED
      BY <1>5, <3>2
  <2>9. CASE \E lost \in BOOLEAN : Ack(r, lost) \/ Nak(r, lost) \/ Term(r, lost)
    BY <1>0, <1>4, <2>9 DEF Ack, Nak, Term, Goto
  <2>10. CASE DeadLetter(r)
    BY <1>0, <1>5, <2>10 DEF DeadLetter, Goto
  <2>11. CASE \E landed \in BOOLEAN : CannotDeadLetter(r, landed)
    BY <1>6, <2>11 DEF CannotDeadLetter
  <2>. QED
    BY <1>8, <2>1, <2>2, <2>3, <2>4, <2>5, <2>6, <2>7, <2>8, <2>9, <2>10, <2>11 DEF RunStep
<1>9. CASE BeginRun(r)
  BY <1>0, <1>1, <1>9 DEF BeginRun, Goto, VaultOf, handVars
<1>10. CASE Crash(r)
  BY <1>6, <1>10 DEF Crash
<1>11. CASE Own(r)' = Own(r)
  BY <1>1, <1>7, <1>8, <1>11, VaultAlone DEF Own
<1>. QED
  BY <1>8, <1>9, <1>10, <1>11, OwnSteps DEF BatchInv

(***************************************************************************)
(* One run at a time with the vault to itself, any failures, redeliveries  *)
(* and crashes: when it acknowledges a chunk, every path of the chunk is   *)
(* in the vault as the chunk wants it.                                     *)
(***************************************************************************)
THEOREM AckSaysItIsThere ==
  ASSUME Alone
  PROVE  Spec => AckMeansItsWorkIsThere
<1>1. Init => BatchInv /\ VaultInv
  BY BatchStarts DEF Init, VaultInv, VaultOf, Alone
<1>2. BatchInv /\ VaultInv /\ [Next]_vars => (BatchInv /\ VaultInv)'
  BY BatchStep, VaultStep
<1>3. BatchInv /\ VaultInv /\ [Next]_vars =>
        [\A r \in Runs : pc[r] = "ack" /\ pc'[r] = "loop" =>
           \A p \in Targets(Chunk(r)) : vault[p] = EditOf(r, p).post]_vars
  BY DEF VaultInv, VaultOf
<1>. QED
  BY <1>1, <1>2, <1>3, PTL DEF Spec, AckMeansItsWorkIsThere

(***************************************************************************)
(* And each of its writes meets the very note its patch was made against.  *)
(***************************************************************************)
THEOREM WritesFindTheirBase ==
  ASSUME Alone
  PROVE  Spec => WritesMeetTheirBase
<1>1. Init => BatchInv /\ VaultInv
  BY BatchStarts DEF Init, VaultInv, VaultOf, Alone
<1>2. BatchInv /\ VaultInv /\ [Next]_vars => (BatchInv /\ VaultInv)'
  BY BatchStep, VaultStep
<1>3. BatchInv /\ VaultInv /\ [Next]_vars =>
        [\A r \in Runs, p \in Paths : Writes(r, p) => vault[p] = EditOf(r, p).base]_vars
  <2>1. ASSUME BatchInv, VaultInv, NEW r \in Runs, NEW p \in Paths, Writes(r, p)
        PROVE  vault[p] = EditOf(r, p).base
    <3>1. pc[r] = "write" /\ p \in todo[r]
      BY <2>1 DEF Writes
    <3>2. p \in Targets(Chunk(r))
      BY <2>1, <3>1, Holding
    <3>. QED
      BY <2>1, <3>1, <3>2 DEF VaultInv, VaultOf
  <2>. QED
    BY <2>1
<1>. QED
  BY <1>1, <1>2, <1>3, PTL DEF Spec, WritesMeetTheirBase

-----------------------------------------------------------------------------
(* Where links land.                                                       *)

\* The run was done with chunk i itself.
DoneWith(r, i) == ended[r][i] \cap {"applied", "failed"} # {}

\* The chunk the run holds, or will hold next.
Current(r, j) ==
  IF item[r] = NoItem THEN j = Oldest /\ tries < MaxDeliver ELSE j = item[r]

\* Chunk j was to remove q, and the run was or will be done with it itself.
Takes(r, j, q) ==
  /\ Removes(stream[j], q)
  /\ \/ DoneWith(r, j)
     \/ /\ Current(r, j) /\ ~DependsOn(stream[j], blocked[r])
        /\ reason[r] # "depends_on_failed_chunk"

\* What chunk i creates is blocked, there, or taken away since.
Stands(r, i) ==
  \A q \in CreatedPaths(stream[i]) :
    \/ <<stream[i].batch, q>> \in blocked[r]
    \/ vault[q] # Absent
    \/ \E j \in (i + 1)..Len(stream) : Takes(r, j, q)

LinksOf(r) ==
  /\ pc[r] \in {"park", "term"} \/ reason[r] = "none"
  /\ pc[r] = "write" => ~DependsOn(Chunk(r), blocked[r])
  /\ \A i \in Numbers : ended[r][i] # {} =>
       /\ i <= Oldest /\ i <= Len(stream)
       /\ item[r] # NoItem => i <= item[r]
       /\ DoneWith(r, i) => Stands(r, i)

LinksInv == \A r \in Runs : LinksOf(r)

\* A run's step, by what it does to what it holds and remembers.
LEMMA LinkSteps ==
  ASSUME BatchInv, LinksInv, [Next]_vars, NEW r \in Runs
  PROVE  \/ Own(r)' = Own(r)
         \/ /\ ended'[r] = [i \in Numbers |-> {}] /\ reason'[r] = "none"
            /\ item'[r] = NoItem /\ pc'[r] = "off"
         \/ /\ UNCHANGED <<item[r], blocked[r], ended[r]>> /\ pc'[r] \notin {"park", "term"}
            /\ reason'[r] = "none"
            /\ pc'[r] = "write" => ~DependsOn(Chunk(r), blocked[r])
         \/ /\ UNCHANGED <<item[r], blocked[r], ended[r]>> /\ pc'[r] \in {"park", "term"}
            /\ reason'[r] = "depends_on_failed_chunk" =>
                 reason[r] = reason'[r] \/ DependsOn(Chunk(r), blocked[r])
         \/ /\ Fetch(r) /\ item'[r] = Oldest /\ UNCHANGED <<blocked[r], ended[r]>>
            /\ pc'[r] \in {"read", "park"} /\ (pc'[r] = "park" \/ reason'[r] = "none")
            /\ reason'[r] # "depends_on_failed_chunk"
         \/ /\ item'[r] = NoItem /\ pc'[r] = "loop" /\ reason'[r] = "none"
            /\ \/ /\ pc[r] = "ack" /\ UNCHANGED blocked[r]
                  /\ ended'[r] = [ended[r] EXCEPT ![item[r]] = @ \cup {"applied"}]
               \/ /\ pc[r] = "term" /\ reason[r] = "depends_on_failed_chunk"
                  /\ blocked'[r] = blocked[r] \cup Blocks(Chunk(r), reason[r])
                  /\ ended'[r] = [ended[r] EXCEPT ![item[r]] = @ \cup {"dependent"}]
               \/ /\ pc[r] = "term" /\ reason[r] # "depends_on_failed_chunk"
                  /\ blocked'[r] = blocked[r] \cup Blocks(Chunk(r), reason[r])
                  /\ ended'[r] = [ended[r] EXCEPT ![item[r]] = @ \cup {"failed"}]
               \/ pc[r] = "nak" /\ UNCHANGED <<blocked[r], ended[r]>>
<1>0. /\ pc \in [Runs -> Phases] /\ item \in [Runs -> Numbers \cup {NoItem}]
      /\ reason \in [Runs -> Reasons] /\ blocked \in [Runs -> SUBSET (Batches \X Paths)]
      /\ ended \in [Runs -> [Numbers -> SUBSET Endings]]
  BY DEF BatchInv, TypeOK
<1>1. /\ pc[r] \in {"park", "term"} \/ reason[r] = "none"
      /\ pc[r] = "write" => ~DependsOn(Chunk(r), blocked[r])
  BY DEF LinksInv, LinksOf
<1>2. ASSUME Leave(r)
      PROVE  /\ ended'[r] = [i \in Numbers |-> {}] /\ reason'[r] = "none"
             /\ item'[r] = NoItem /\ pc'[r] = "off"
  BY <1>0, <1>2 DEF Leave, EmptyHands, Goto
<1>3. ASSUME Goto(r, "loop"), EmptyHands(r)
      PROVE  item'[r] = NoItem /\ pc'[r] = "loop" /\ reason'[r] = "none"
  BY <1>0, <1>3 DEF EmptyHands, Goto
<1>4. ASSUME NEW why, Park(r, why)
      PROVE  pc'[r] = "park" /\ reason'[r] = why
  BY <1>0, <1>4 DEF Park, Goto
<1>5. ASSUME RetryLater(r)
      PROVE  \/ pc'[r] = "park" /\ reason'[r] = "redelivery_exhausted"
             \/ pc'[r] = "nak" /\ reason' = reason
  BY <1>0, <1>4, <1>5 DEF RetryLater, Goto
<1>6. CASE RunStep(r)
  <2>1. CASE Yield(r)
    BY <1>0, <1>1, <1>2, <2>1 DEF Yield, handVars
  <2>2. CASE FetchNothing(r)
    BY <1>2, <2>2 DEF FetchNothing
  <2>3. CASE Fetch(r)
    <3>1. /\ pc[r] = "loop" /\ item'[r] = Oldest /\ UNCHANGED <<blocked, ended>>
      BY <1>0, <2>3 DEF Fetch, ghosts
    <3>2. \/ pc'[r] = "park" /\ reason'[r] = "undecodable_chunk"
          \/ pc'[r] = "read" /\ reason' = reason
      BY <1>0, <1>4, <2>3 DEF Fetch, Goto
    <3>. QED
      BY <1>1, <2>3, <3>1, <3>2
  <2>4. CASE \E p \in Paths : ReadTarget(r, p)
    BY <1>1, <2>4 DEF ReadTarget, ghosts
  <2>5. CASE \E p \in Paths : WriteTarget(r, p)
    BY <1>0, <1>1, <2>5 DEF WriteTarget, Goto
  <2>6. CASE \E refused \in BOOLEAN : CannotRead(r, refused)
    <3>1. /\ UNCHANGED <<item, blocked, ended>> /\ pc[r] = "read"
          /\ Park(r, "mcp_refused") \/ RetryLater(r)
      BY <2>6 DEF CannotRead, ghosts
    <3>. QED
      BY <1>1, <1>4, <1>5, <3>1
  <2>7. CASE Decide(r)
    <3>1. UNCHANGED <<item, blocked, ended>> /\ pc[r] = "read"
      BY <2>7 DEF Decide
    <3>2. \/ pc'[r] \in {"ack", "write"} /\ UNCHANGED reason
          \/ DependsOn(Chunk(r), blocked[r]) /\ Park(r, "depends_on_failed_chunk")
          \/ Park(r, "rejected") \/ Park(r, "unapplicable_patch") \/ Park(r, "admission_refused")
      BY <1>0, <2>7 DEF Decide, Goto
    <3>3. pc'[r] = "write" => ~DependsOn(Chunk(r), blocked[r])
      BY <3>1, BeginsWriting
    <3>. QED
      BY <1>1, <1>4, <3>1, <3>2, <3>3
  <2>8. CASE \E p \in Paths, refused, landed \in BOOLEAN : CannotWrite(r, p, refused, landed)
    <3>1. /\ UNCHANGED <<item, blocked, ended>> /\ pc[r] = "write"
          /\ Park(r, "mcp_refused") \/ Park(r, "partially_applied") \/ RetryLater(r)
      BY <2>8 DEF CannotWrite
    <3>. QED
      BY <1>1, <1>4, <1>5, <3>1
  <2>9. CASE \E lost \in BOOLEAN : Ack(r, lost)
    BY <1>0, <1>3, <2>9 DEF Ack, EndsAs
  <2>10. CASE \E lost \in BOOLEAN : Term(r, lost)
    BY <1>0, <1>3, <2>10 DEF Term, EndsAs
  <2>11. CASE \E lost \in BOOLEAN : Nak(r, lost)
    BY <1>3, <2>11 DEF Nak, ghosts
  <2>12. CASE DeadLetter(r)
    BY <1>0, <2>12 DEF DeadLetter, Goto, handVars, ghosts
  <2>13. CASE \E landed \in BOOLEAN : CannotDeadLetter(r, landed)
    BY <1>2, <2>13 DEF CannotDeadLetter
  <2>. QED
    BY <1>6, <2>1, <2>2, <2>3, <2>4, <2>5, <2>6, <2>7, <2>8, <2>9, <2>10, <2>11, <2>12, <2>13
       DEF RunStep
<1>7. CASE BeginRun(r)
  BY <1>0, <1>1, <1>7 DEF BeginRun, Goto, handVars, ghosts
<1>8. CASE Crash(r)
  BY <1>2, <1>8 DEF Crash
<1>. QED
  BY <1>6, <1>7, <1>8, OwnSteps DEF BatchInv

\* A write puts what the chunk asks for at one of its paths.
LEMMA VaultLands ==
  ASSUME BatchInv, NEW r \in Runs, pc[r] = "write", RunStep(r)
  PROVE  vault' = vault \/ \E p \in Targets(Chunk(r)) :
                             vault' = [vault EXCEPT ![p] = EditOf(r, p).post]
<1>1. \/ UNCHANGED vault
      \/ \E p \in Paths : p \in NextWrites(r) /\ LandsOn(r, p)
  BY DEF RunStep, Yield, FetchNothing, Fetch, ReadTarget, WriteTarget, CannotRead,
         Decide, CannotWrite, Ack, Nak, Term, DeadLetter, CannotDeadLetter
<1>. QED
  BY <1>1, Holding DEF LandsOn, EditOf

\* While it remembers, what a run is done with it stays done with.
LEMMA EndedGrows ==
  ASSUME BatchInv, LinksInv, [Next]_vars, NEW r \in Runs,
         ended'[r] # [i \in Numbers |-> {}]
  PROVE  /\ \A i \in Numbers : ended[r][i] \subseteq ended'[r][i]
         /\ blocked[r] \subseteq blocked'[r]
         /\ \A i \in Numbers : ended'[r][i] # ended[r][i] =>
              i = item[r] /\ pc[r] \in {"ack", "term"} /\ item'[r] = NoItem
<1>0. ended[r] \in [Numbers -> SUBSET Endings]
  BY DEF BatchInv, TypeOK
<1>. QED
  BY <1>0, LinkSteps DEF Own

\* The chunk a run is at stays the one it is at until it is done with it.
LEMMA TakesStays ==
  ASSUME Alone, BatchInv, HandInv, LinksInv, [Next]_vars, NEW r \in Runs,
         ended'[r] # [i \in Numbers |-> {}],
         NEW j \in 1..Len(stream), NEW q, Takes(r, j, q)
  PROVE  Takes(r, j, q)'
<1>0. /\ j \in Numbers /\ stream'[j] = stream[j] /\ item[r] \in Numbers \cup {NoItem}
      /\ ended[r] \in [Numbers -> SUBSET Endings]
      /\ Len(settled) \in Nat /\ tries \in 0..MaxDeliver /\ attempt[r] \in 0..MaxDeliver
  <2>1. /\ stream \in Seq(Publishable) /\ Len(stream) <= MaxPublished
        /\ settled \in Seq(Fates) /\ tries \in 0..MaxDeliver
        /\ item \in [Runs -> Numbers \cup {NoItem}] /\ attempt \in [Runs -> 0..MaxDeliver]
        /\ ended \in [Runs -> [Numbers -> SUBSET Endings]]
    BY DEF BatchInv, TypeOK
  <2>2. j \in Numbers
    BY <2>1, Limits DEF Numbers
  <2>. QED
    BY <2>1, <2>2, StreamGrows DEF BatchInv
<1>1. ASSUME DoneWith(r, j)
      PROVE  Takes(r, j, q)'
  BY <1>0, <1>1, EndedGrows DEF Takes, DoneWith
<1>2. ASSUME Current(r, j), ~DependsOn(stream[j], blocked[r]),
             reason[r] # "depends_on_failed_chunk"
      PROVE  Takes(r, j, q)'
  <2>0. ASSUME Current(r, j)', ~DependsOn(stream[j], blocked'[r]),
               reason'[r] # "depends_on_failed_chunk"
        PROVE  Takes(r, j, q)'
    BY <1>0, <2>0 DEF Takes
  <2>1. CASE item[r] = NoItem /\ ~Fetch(r)
    <3>1. \A s \in Runs : s = r /\ ~Fetch(s) /\ pc[s] \notin {"ack", "term"}
      <4>1. \A s \in Runs : s = r
        BY DEF Alone
      <4>2. pc[r] \in {"off", "loop"}
        BY <2>1 DEF BatchInv, RunsKnow
      <4>. QED
        BY <2>1, <4>1, <4>2
    <3>2. tries # MaxDeliver /\ j = Oldest /\ tries < MaxDeliver
      BY <1>0, <1>2, <2>1, Limits DEF Current
    <3>3. UNCHANGED <<settled, tries>>
      BY <3>1, <3>2, BrokerSteps DEF brokerVars
    <3>4. item'[r] = NoItem /\ pc'[r] \in {"off", "loop"}
      <4>1. item'[r] = NoItem
        BY <2>1, HoldsSteps DEF Own
      <4>. QED
        BY <4>1, RunsKnowStep
    <3>5. pc[r] \in {"off", "loop"}
      BY <2>1 DEF BatchInv, RunsKnow
    <3>6. blocked'[r] = blocked[r] /\ reason'[r] # "depends_on_failed_chunk"
      BY <1>2, <2>1, <3>4, <3>5, LinkSteps DEF Own
    <3>7. Current(r, j)'
      BY <3>2, <3>3, <3>4 DEF Current, Oldest
    <3>. QED
      BY <1>2, <2>0, <3>6, <3>7
  <2>2. CASE Fetch(r)
    <3>1. item[r] = NoItem /\ pc[r] = "loop" /\ UNCHANGED settled
      BY <2>2 DEF Fetch, BatchInv, RunsKnow
    <3>2. j = Oldest
      BY <1>2, <3>1 DEF Current
    <3>3. /\ item'[r] = Oldest /\ blocked'[r] = blocked[r]
          /\ reason'[r] # "depends_on_failed_chunk"
      <4>1. /\ item \in [Runs -> Numbers \cup {NoItem}] /\ reason \in [Runs -> Reasons]
            /\ pc \in [Runs -> Phases]
        BY DEF BatchInv, TypeOK
      <4>2. item'[r] = Oldest /\ blocked'[r] = blocked[r]
        BY <2>2, <4>1 DEF Fetch
      <4>3. reason'[r] \in {reason[r], "undecodable_chunk"}
        BY <2>2, <4>1 DEF Fetch, Park
      <4>. QED
        BY <1>2, <4>2, <4>3
    <3>4. item'[r] # NoItem
      BY <1>0, <3>3 DEF Oldest, NoItem
    <3>5. Current(r, j)'
      BY <3>2, <3>3, <3>4 DEF Current
    <3>. QED
      BY <1>2, <2>0, <3>3, <3>5
  <2>3. CASE item[r] # NoItem /\ item'[r] = item[r]
    <3>1. j = item[r] /\ Chunk(r) = stream[j] /\ pc[r] \notin {"off", "loop"}
      BY <1>2, <2>3 DEF Current, Chunk, BatchInv, RunsKnow
    <3>2. blocked'[r] = blocked[r] /\ reason'[r] # "depends_on_failed_chunk"
      BY <1>2, <2>3, <3>1, LinkSteps DEF Own, Fetch
    <3>3. Current(r, j)'
      BY <2>3, <3>1 DEF Current
    <3>. QED
      BY <1>2, <2>0, <3>2, <3>3
  <2>4. CASE item[r] # NoItem /\ item'[r] # item[r]
    <3>1. j = item[r] /\ pc[r] \notin {"off", "loop"} /\ ~Fetch(r)
      BY <1>2, <2>4 DEF Current, BatchInv, RunsKnow, Fetch
    <3>2. CASE pc[r] = "nak" /\ item'[r] = NoItem /\ reason'[r] = "none"
               /\ UNCHANGED <<blocked[r], ended[r]>>
      <4>1. attempt[r] < MaxDeliver
        BY <3>2 DEF BatchInv, RunsKnow
      <4>2. item[r] = Oldest /\ attempt[r] = tries
        BY <1>0, <2>4, <4>1, Limits DEF HandInv
      <4>3. UNCHANGED <<settled, tries>>
        <5>1. \A s \in Runs : s = r /\ ~Fetch(s) /\ pc[s] \notin {"ack", "term"}
          BY <3>1, <3>2 DEF Alone
        <5>2. tries # MaxDeliver
          BY <1>0, <4>1, <4>2, Limits
        <5>. QED
          BY <5>1, <5>2, BrokerSteps DEF brokerVars
      <4>4. Current(r, j)'
        BY <3>1, <3>2, <4>1, <4>2, <4>3 DEF Current, Oldest
      <4>. QED
        BY <1>2, <2>0, <3>2, <4>4
    <3>3. CASE \E how \in {"applied", "failed"} :
                 ended'[r] = [ended[r] EXCEPT ![item[r]] = @ \cup {how}]
      <4>1. DoneWith(r, j)'
        BY <1>0, <3>1, <3>3 DEF DoneWith
      <4>. QED
        BY <1>0, <1>2, <4>1 DEF Takes
    <3>. QED
      BY <1>2, <2>4, <3>1, <3>2, <3>3, LinkSteps DEF Own
  <2>. QED
    BY <2>1, <2>2, <2>3, <2>4
<1>. QED
  BY <1>1, <1>2 DEF Takes

\* What stood for a chunk the run was done with still does.
LEMMA StandsStays ==
  ASSUME Alone, BatchInv, HandInv, LinksInv, [Next]_vars, NEW r \in Runs,
         ended'[r] # [k \in Numbers |-> {}], NEW i \in Numbers, DoneWith(r, i)
  PROVE  Stands(r, i)'
<1>0. /\ Len(stream) \in Nat /\ Len(stream') \in Nat /\ Len(stream) <= Len(stream')
      /\ stream \in Seq(Publishable) /\ vault \in [Paths -> Holdings]
  BY BrokerTyped, StreamGrows DEF BatchInv, TypeOK
<1>1. /\ i \in 1..Len(stream) /\ stream'[i] = stream[i] /\ Stands(r, i)
      /\ item[r] # NoItem => i <= item[r]
  <2>1. ended[r][i] # {}
    BY DEF DoneWith
  <2>2. i <= Len(stream) /\ Stands(r, i) /\ (item[r] # NoItem => i <= item[r])
    BY <2>1 DEF LinksInv, LinksOf
  <2>3. i \in 1..Len(stream)
    BY <1>0, <2>2, Limits DEF Numbers
  <2>. QED
    BY <2>2, <2>3, StreamGrows DEF BatchInv
<1>2. stream[i] \in Publishable
  BY <1>0, <1>1, ElementOfSeq
<1>. SUFFICES ASSUME NEW q \in CreatedPaths(stream[i])
              PROVE  \/ <<stream[i].batch, q>> \in blocked'[r]
                     \/ vault'[q] # Absent
                     \/ \E j \in (i + 1)..Len(stream') : Takes(r, j, q)'
  BY <1>1 DEF Stands
<1>3. CASE <<stream[i].batch, q>> \in blocked[r]
  BY <1>3, EndedGrows
<1>4. ASSUME NEW j \in (i + 1)..Len(stream), Takes(r, j, q)
      PROVE  \E k \in (i + 1)..Len(stream') : Takes(r, k, q)'
  <2>1. j \in 1..Len(stream) /\ j \in (i + 1)..Len(stream')
    BY <1>0, <1>1
  <2>2. Takes(r, j, q)'
    BY <1>4, <2>1, TakesStays
  <2>. QED
    BY <2>1, <2>2
<1>5. CASE vault[q] # Absent
  <2>1. CASE vault'[q] = vault[q]
    BY <1>5, <2>1
  <2>2. CASE vault'[q] # vault[q]
    <3>1. pc[r] = "write" /\ RunStep(r)
      BY <2>2, VaultAlone DEF HandInv
    <3>2. PICK p \in Targets(Chunk(r)) : vault' = [vault EXCEPT ![p] = EditOf(r, p).post]
      BY <2>2, <3>1, VaultLands
    <3>3. q \in Paths /\ p = q /\ vault'[q] = EditOf(r, q).post
      <4>1. q \in Paths
        BY <1>2, ChunkTyped
      <4>. QED
        BY <1>0, <2>2, <3>2, <4>1
    <3>4. CASE EditOf(r, q).post # Absent
      BY <3>3, <3>4
    <3>5. CASE EditOf(r, q).post = Absent
      <4>1. Chunk(r) \in Publishable /\ item[r] # NoItem
        BY <3>1, Holding
      <4>2. EditOf(r, q).op \in Deleting
        BY <3>2, <3>3, <3>5, <4>1, ChunkTyped DEF EditOf
      <4>3. item[r] \in 1..Len(stream) /\ Removes(stream[item[r]], q)
        BY <3>2, <3>3, <4>1, <4>2, HeldIsPublished DEF EditOf, Chunk, Removes
      <4>4. i # item[r]
        BY <4>2 DEF CreatedPaths, EditOf, Chunk, Creating, Deleting
      <4>5. item[r] \in (i + 1)..Len(stream)
        BY <1>0, <1>1, <4>1, <4>3, <4>4
      <4>6. Takes(r, item[r], q)
        BY <3>1, <4>1, <4>3 DEF Takes, Current, LinksInv, LinksOf, Chunk
      <4>. QED
        BY <1>4, <4>5, <4>6
    <3>. QED
      BY <3>4, <3>5
  <2>. QED
    BY <2>1, <2>2
<1>. QED
  BY <1>1, <1>3, <1>4, <1>5 DEF Stands

\* What a run is now done with leaves its paths there, or blocked.
LEMMA StandsFirst ==
  ASSUME Alone, BatchInv, HandInv, VaultInv, LinksInv, [Next]_vars, NEW r \in Runs,
         ended'[r] # [k \in Numbers |-> {}], NEW i \in Numbers, ~DoneWith(r, i), DoneWith(r, i)'
  PROVE  Stands(r, i)'
<1>0. ended[r] \in [Numbers -> SUBSET Endings]
  BY DEF BatchInv, TypeOK
<1>1. i = item[r] /\ pc[r] \in {"ack", "term"} /\ item[r] # NoItem /\ item'[r] = NoItem
  <2>1. ended'[r][i] # ended[r][i]
    BY DEF DoneWith
  <2>. QED
    BY <2>1, EndedGrows, Holding
<1>2. stream'[i] = Chunk(r) /\ Chunk(r) \in Publishable
  BY <1>1, HeldIsPublished, StreamGrows DEF BatchInv, Chunk
<1>3. CASE pc[r] = "ack"
  <2>1. vault' = vault
    BY <1>3, VaultAlone DEF HandInv
  <2>2. ASSUME NEW q \in CreatedPaths(Chunk(r))
        PROVE  vault[q] # Absent
    <3>1. q \in Targets(Chunk(r)) /\ EditOf(r, q).op \in Creating
      BY DEF CreatedPaths, EditOf
    <3>2. vault[q] = EditOf(r, q).post
      BY <1>3, <3>1 DEF VaultInv, VaultOf
    <3>3. EditOf(r, q).op \notin Deleting
      BY <3>1 DEF Creating, Deleting
    <3>4. EditOf(r, q).post # Absent
      BY <1>2, <3>1, <3>3, ChunkTyped DEF EditOf
    <3>. QED
      BY <3>2, <3>4
  <2>. QED
    BY <1>2, <2>1, <2>2 DEF Stands
<1>4. CASE pc[r] = "term"
  <2>1. /\ reason[r] # "depends_on_failed_chunk"
        /\ blocked'[r] = blocked[r] \cup Blocks(Chunk(r), reason[r])
    <3>1. \/ ended'[r] = [ended[r] EXCEPT ![item[r]] = @ \cup {"dependent"}]
          \/ /\ reason[r] # "depends_on_failed_chunk"
             /\ blocked'[r] = blocked[r] \cup Blocks(Chunk(r), reason[r])
      BY <1>1, <1>4, LinkSteps DEF Own, Fetch
    <3>2. ended'[r] # [ended[r] EXCEPT ![item[r]] = @ \cup {"dependent"}]
      BY <1>0, <1>1 DEF DoneWith
    <3>. QED
      BY <3>1, <3>2
  <2>2. \A q \in CreatedPaths(Chunk(r)) : <<Chunk(r).batch, q>> \in blocked'[r]
    BY <2>1 DEF Blocks
  <2>. QED
    BY <1>2, <2>2 DEF Stands
<1>. QED
  BY <1>1, <1>3, <1>4

\* Every step keeps what links rely on.
LEMMA LinksStep ==
  ASSUME Alone, BatchInv, HandInv, VaultInv, LinksInv, [Next]_vars
  PROVE  LinksInv'
<1>. SUFFICES ASSUME NEW r \in Runs
              PROVE  LinksOf(r)'
  BY DEF LinksInv
<1>0. /\ pc[r] \in {"park", "term"} \/ reason[r] = "none"
      /\ pc[r] = "write" => ~DependsOn(Chunk(r), blocked[r])
      /\ \A i \in Numbers : ended[r][i] # {} =>
           /\ i <= Oldest /\ i <= Len(stream)
           /\ item[r] # NoItem => i <= item[r]
  BY DEF LinksInv, LinksOf
<1>1. pc'[r] \in {"park", "term"} \/ reason'[r] = "none"
  BY <1>0, LinkSteps DEF Own
<1>2. ASSUME pc'[r] = "write"
      PROVE  ~DependsOn(Chunk(r)', blocked'[r])
  <2>1. CASE pc[r] # "write"
    BY <1>2, <2>1, BeginsWriting
  <2>2. CASE pc[r] = "write"
    <3>1. Chunk(r)' = Chunk(r) /\ item'[r] = item[r] /\ item[r] # NoItem
      BY <1>2, <2>2, KeepsWriting
    <3>2. blocked'[r] = blocked[r]
      BY <1>2, <2>2, <3>1, LinkSteps DEF Own
    <3>. QED
      BY <1>0, <2>2, <3>1, <3>2
  <2>. QED
    BY <2>1, <2>2
<1>3. ASSUME NEW i \in Numbers, ended'[r][i] # {}
      PROVE  /\ i <= Oldest' /\ i <= Len(stream')
             /\ item'[r] # NoItem => i <= item'[r]
             /\ DoneWith(r, i)' => Stands(r, i)'
  <2>0. /\ Oldest \in Nat /\ Oldest' \in Nat /\ Oldest <= Oldest' /\ i \in Nat
        /\ Len(stream) \in Nat /\ Len(stream') \in Nat /\ Len(stream) <= Len(stream')
    <3>1. /\ settled \in Seq(Fates) /\ settled' \in Seq(Fates)
          /\ stream \in Seq(Publishable) /\ stream' \in Seq(Publishable)
      BY BrokerTyped DEF BatchInv, TypeOK
    <3>2. Len(settled) \in Nat /\ Len(settled') \in Nat
      BY <3>1
    <3>. QED
      BY <3>1, <3>2, Limits, BrokerTyped, StreamGrows DEF BatchInv, Oldest, Numbers
  <2>1. ended'[r] # [k \in Numbers |-> {}]
    BY <1>3
  <2>2. \/ ended[r][i] # {}
        \/ i = item[r] /\ item[r] # NoItem /\ item'[r] = NoItem
    BY <1>3, <2>1, EndedGrows, Holding
  <2>3. i <= Oldest /\ i <= Len(stream)
    BY <1>0, <2>2 DEF BatchInv, RunsKnow
  <2>4. item'[r] # NoItem => item'[r] = item[r] \/ item'[r] = Oldest
    BY HoldsSteps DEF Own
  <2>5. item'[r] # NoItem => i <= item'[r]
    BY <1>0, <2>2, <2>3, <2>4
  <2>6. DoneWith(r, i)' => Stands(r, i)'
    BY <2>1, StandsStays, StandsFirst
  <2>7. i <= Oldest' /\ i <= Len(stream')
    BY <2>0, <2>3
  <2>. QED
    BY <2>5, <2>6, <2>7
<1>. QED
  BY <1>1, <1>2, <1>3 DEF LinksOf

(***************************************************************************)
(* One run at a time with the vault to itself, whatever fails: a write     *)
(* whose chunk links to a path that an earlier chunk of its batch creates, *)
(* and that the run was done with itself, finds a note there, unless a     *)
(* chunk taken up in between was to remove it.                             *)
(***************************************************************************)
THEOREM LinksFindTheirNotes ==
  ASSUME Alone
  PROVE  Spec => LinksLandOnNotes
<1>. DEFINE All == BatchInv /\ HandInv /\ VaultInv /\ LinksInv
<1>1. Init => All
  <2>1. ASSUME Init
        PROVE  HandInv /\ VaultInv /\ LinksInv
    <3>1. HandInv
      BY <2>1 DEF Init, HandInv, Alone, Parked
    <3>2. VaultInv
      BY <2>1 DEF Init, VaultInv, VaultOf, Alone
    <3>3. LinksInv
      BY <2>1 DEF Init, LinksInv, LinksOf
    <3>. QED
      BY <3>1, <3>2, <3>3
  <2>. QED
    BY <2>1, BatchStarts
<1>2. All /\ [Next]_vars => All'
  BY BatchStep, HandStep, VaultStep, LinksStep
<1>3. ASSUME All, [Next]_vars, NEW r \in Runs, NEW p \in Paths, Writes(r, p),
             NEW i \in 1..(item[r] - 1),
             stream[i].batch = Chunk(r).batch, ended[r][i] \cap {"applied", "failed"} # {},
             NEW q \in CreatedPaths(stream[i]) \cap Chunk(r).links
      PROVE  \/ vault[q] # Absent
             \/ \E j \in (i + 1)..item[r] :
                  /\ j = item[r] \/ ended[r][j] \cap {"applied", "failed"} # {}
                  /\ Removes(stream[j], q)
  <2>1. pc[r] = "write"
    BY <1>3 DEF Writes
  <2>2. /\ item[r] # NoItem /\ item[r] \in Nat /\ i \in Numbers /\ Len(stream) \in Nat
        /\ Len(stream) <= MaxPublished
    <3>1. item[r] \in Numbers /\ item[r] # NoItem
      BY <1>3, <2>1, Holding
    <3>2. stream \in Seq(Publishable) /\ Len(stream) <= MaxPublished
      BY <1>3 DEF BatchInv, TypeOK
    <3>. QED
      BY <3>1, <3>2, Limits DEF Numbers
  <2>3. Stands(r, i) /\ ~DependsOn(Chunk(r), blocked[r])
    BY <1>3, <2>1, <2>2 DEF LinksInv, LinksOf, DoneWith
  <2>4. <<stream[i].batch, q>> \notin blocked[r]
    BY <1>3, <2>3 DEF DependsOn
  <2>5. CASE \E j \in (i + 1)..Len(stream) : Takes(r, j, q)
    <3>1. PICK j \in (i + 1)..Len(stream) : Takes(r, j, q)
      BY <2>5
    <3>2. Removes(stream[j], q) /\ (j = item[r] \/ DoneWith(r, j))
      BY <2>2, <3>1 DEF Takes, Current
    <3>3. j \in Numbers /\ j <= item[r]
      <4>1. j \in Numbers
        BY <1>3, <2>2, <3>1, Limits DEF Numbers
      <4>2. DoneWith(r, j) => j <= item[r]
        BY <1>3, <2>2, <4>1 DEF LinksInv, LinksOf, DoneWith
      <4>. QED
        BY <2>2, <3>2, <4>1, <4>2
    <3>4. j \in (i + 1)..item[r]
      BY <1>3, <2>2, <3>1, <3>3
    <3>. QED
      BY <3>2, <3>4 DEF DoneWith
  <2>. QED
    BY <2>3, <2>4, <2>5 DEF Stands
<1>4. All /\ [Next]_vars =>
        [\A r \in Runs, p \in Paths : Writes(r, p) =>
           \A i \in 1..(item[r] - 1) :
             /\ stream[i].batch = Chunk(r).batch
             /\ ended[r][i] \cap {"applied", "failed"} # {}
             => \A q \in CreatedPaths(stream[i]) \cap Chunk(r).links :
                  \/ vault[q] # Absent
                  \/ \E j \in (i + 1)..item[r] :
                       /\ j = item[r] \/ ended[r][j] \cap {"applied", "failed"} # {}
                       /\ Removes(stream[j], q)]_vars
  BY <1>3
<1>. HIDE DEF All
<1>. QED
  BY <1>1, <1>2, <1>4, PTL DEF Spec, LinksLandOnNotes

-----------------------------------------------------------------------------
(* The ledger it keeps.                                                    *)

ParkedSet == {i \in Numbers : Parked(i)}
ClosedSet == done \cup ParkedSet \cup Vanished

LedgerInv == BatchInv /\ AnswersStand /\ HandInv

\* The numbers these proofs compare.
LEMMA LedgerNumbers ==
  ASSUME BatchInv, [Next]_vars
  PROVE  /\ Len(settled) \in Nat /\ Len(settled') \in Nat
         /\ Oldest = Len(settled) + 1 /\ Oldest' = Len(settled') + 1
         /\ Len(stream) \in Nat /\ Len(stream') \in Nat /\ Len(stream) <= MaxPublished
         /\ Len(settled) <= Len(stream)
         /\ \A i \in Numbers : i \in Nat /\ i > 0
         /\ \A r \in Runs : item[r] \in Numbers \cup {NoItem} /\ item[r] \in Nat
         /\ done \subseteq Numbers
<1>1. /\ settled \in Seq(Fates) /\ settled' \in Seq(Fates)
      /\ stream \in Seq(Publishable) /\ stream' \in Seq(Publishable)
      /\ item \in [Runs -> Numbers \cup {NoItem}]
      /\ Len(stream) <= MaxPublished /\ Len(settled) <= Len(stream) /\ done \subseteq Numbers
  BY BrokerTyped DEF BatchInv, TypeOK
<1>2. /\ Len(settled) \in Nat /\ Len(settled') \in Nat
      /\ Len(stream) \in Nat /\ Len(stream') \in Nat
  BY <1>1
<1>3. \A i \in Numbers : i \in Nat /\ i > 0
  BY Limits DEF Numbers
<1>. QED
  BY <1>1, <1>2, <1>3 DEF Oldest, NoItem

\* A chunk settled and in nobody's hands is closed.
LEMMA SettledIsClosed ==
  ASSUME LedgerInv, NEW i \in Numbers, i < Oldest, ~InHand(i)
  PROVE  i \in ClosedSet
<1>1. i \in 1..Len(settled)
  <2>1. settled \in Seq(Fates)
    BY DEF LedgerInv, BatchInv, TypeOK
  <2>. QED
    BY <2>1, Limits DEF Numbers, Oldest
<1>2. settled[i] \in Fates
  BY <1>1, ElementOfSeq DEF LedgerInv, BatchInv, TypeOK
<1>3. settled[i] = "dropped" => i \in ClosedSet
  BY DEF Dropped, ClosedSet, Vanished, ParkedSet
<1>4. settled[i] = "acked" \/ settled[i] = "termed" => i \in ClosedSet
  BY <1>1 DEF LedgerInv, AnswersStand, ClosedSet, ParkedSet
<1>. QED
  BY <1>2, <1>3, <1>4 DEF Fates

\* It is the turn of the chunk in the run's hands; or, in nobody's, of the
\* oldest one.
LEMMA HeldIsInTurn ==
  ASSUME Alone, LedgerInv, [Next]_vars, NEW i \in Numbers,
         \/ InHand(i)
         \/ i = Oldest /\ \A r \in Runs : item[r] = NoItem
  PROVE  Ledger!InTurn(i)
<1>. USE LedgerNumbers DEF LedgerInv
<1>1. ASSUME NEW j, InHand(j), j # NoItem
      PROVE  j = i
  BY <1>1 DEF InHand, Alone
<1>2. i <= Oldest
  <2>1. InHand(i) => i <= Oldest
    BY DEF InHand, BatchInv, RunsKnow
  <2>2. i \in Nat /\ Oldest \in Nat
    BY LedgerNumbers
  <2>. QED
    BY <2>1, <2>2
<1>3. i \notin Vanished
  BY DEF Vanished, Dropped
<1>4. ASSUME NEW j \in 1..Len(stream), j < i
      PROVE  j \in ClosedSet
  <2>1. j \in Numbers /\ j # NoItem
    BY Limits DEF Numbers, NoItem
  <2>2. ~InHand(j)
    BY <1>1, <1>4, <2>1
  <2>. QED
    BY <1>2, <1>4, <2>1, <2>2, SettledIsClosed
<1>5. ASSUME NEW j \in ClosedSet
      PROVE  j <= i
  <2>1. CASE j \in done \/ j \in ParkedSet
    <3>1. j \in Numbers
      BY <2>1 DEF ParkedSet
    <3>2. j <= Oldest /\ \A r \in Runs : item[r] # NoItem => j <= item[r]
      BY <2>1, <3>1 DEF HandInv, ParkedSet
    <3>3. CASE InHand(i)
      BY <3>2, <3>3 DEF InHand, NoItem
    <3>. QED
      BY <3>2, <3>3
  <2>2. CASE j \in Vanished
    <3>1. j \in Numbers /\ j < Oldest /\ ~InHand(j)
      BY <2>2 DEF Vanished, Dropped
    <3>2. CASE InHand(i)
      <4>1. PICK r \in Runs : item[r] = i /\ item[r] # NoItem
        BY <3>2 DEF InHand, NoItem
      <4>2. item[r] = Oldest \/ item[r] = Len(settled)
        BY <4>1 DEF HandInv
      <4>. QED
        BY <3>1, <4>1, <4>2
    <3>. QED
      BY <3>1, <3>2
  <2>. QED
    BY <2>1, <2>2 DEF ClosedSet
<1>. QED
  BY <1>3, <1>4, <1>5 DEF Ledger!InTurn, Ledger!Closed, ClosedSet, ParkedSet

\* What vanished stays so; a chunk vanishes when the run holding it lets go of
\* it, or when the broker gives up on it in nobody's hands.
LEMMA Vanishing ==
  ASSUME Alone, LedgerInv, [Next]_vars
  PROVE  /\ Vanished \subseteq Vanished'
         /\ \A i \in Vanished' \ Vanished :
              /\ i \in Numbers /\ i \notin ClosedSet /\ i \notin done' /\ ~Parked(i)'
              /\ i <= Len(stream)
              /\ \/ \E r \in Runs : item[r] = i /\ item'[r] # item[r]
                 \/ i = Oldest /\ (\A r \in Runs : item[r] = NoItem) /\ settled' # settled
<1>. USE LedgerNumbers DEF LedgerInv
<1>1. \/ settled' = settled
      \/ \E fate \in Fates : Pending /\ Settle(fate)
  BY BrokerSteps, Names DEF Fetch, brokerVars
<1>2. /\ Len(settled) <= Len(settled')
      /\ \A i \in 1..Len(settled) : settled'[i] = settled[i]
      /\ Len(settled') <= Len(settled) + 1
      /\ Len(settled') = Len(settled) => settled' = settled
  <2>1. CASE settled' = settled
    BY <2>1
  <2>2. ASSUME NEW fate \in Fates, Pending, Settle(fate)
        PROVE  /\ Len(settled') = Len(settled) + 1
               /\ \A i \in 1..Len(settled) : settled'[i] = settled[i]
    BY <2>2, SettleTyped
  <2>. QED
    BY <1>1, <2>1, <2>2
<1>3. \A r \in Runs : item'[r] = item[r] \/ item'[r] = NoItem \/ item'[r] = Oldest
  BY HoldsSteps DEF Own
<1>4. ASSUME NEW i \in Vanished
      PROVE  i \in Vanished'
  <2>1. /\ i \in Numbers /\ i < Oldest /\ settled[i] = "dropped"
        /\ i \notin done /\ ~Parked(i) /\ ~InHand(i)
    BY DEF Vanished, Dropped
  <2>2. i < Oldest' /\ settled'[i] = "dropped"
    BY <1>2, <2>1
  <2>3. i \notin done' /\ ~Parked(i)'
    BY <2>1, NewAnswers DEF InHand
  <2>4. \A r \in Runs : item'[r] # i
    BY <1>3, <2>1 DEF InHand, NoItem
  <2>. QED
    BY <2>1, <2>2, <2>3, <2>4 DEF Vanished, Dropped, InHand
<1>5. ASSUME NEW i \in Vanished', i \notin Vanished
      PROVE  /\ i \in Numbers /\ i \notin ClosedSet /\ i \notin done' /\ ~Parked(i)'
             /\ i <= Len(stream)
             /\ \/ \E r \in Runs : item[r] = i /\ item'[r] # item[r]
                \/ i = Oldest /\ (\A r \in Runs : item[r] = NoItem) /\ settled' # settled
  <2>1. /\ i \in Numbers /\ i < Oldest' /\ settled'[i] = "dropped"
        /\ i \notin done' /\ ~Parked(i)' /\ \A r \in Runs : item'[r] # i
    BY <1>5 DEF Vanished, Dropped, InHand
  <2>2. i \notin done /\ ~Parked(i) /\ i \notin ClosedSet
    BY <1>5, <2>1, AnswersGrow DEF Parked, ClosedSet, ParkedSet
  <2>3. CASE i < Oldest
    <3>1. settled[i] = "dropped"
      BY <1>2, <2>1, <2>3
    <3>2. InHand(i)
      BY <1>5, <2>1, <2>2, <2>3, <3>1 DEF Vanished, Dropped
    <3>. QED
      BY <2>1, <2>2, <2>3, <3>2 DEF InHand
  <2>4. CASE ~(i < Oldest)
    <3>1. i = Oldest /\ settled' # settled /\ Len(settled') = Len(settled) + 1
      BY <1>2, <2>1, <2>4
    <3>2. Pending /\ AckWaitExpires
      <4>1. ASSUME NEW fate \in Fates, Pending, Settle(fate), fate # "dropped"
            PROVE  FALSE
        BY <2>1, <3>1, <4>1, SettleTyped
      <4>. QED
        BY <3>1, <4>1, BrokerSteps, Names DEF Fetch, brokerVars
    <3>3. item' = item /\ claim = "held"
      BY <3>2 DEF AckWaitExpires, handVars
    <3>4. ASSUME NEW r \in Runs
          PROVE  item[r] = NoItem
      BY <2>1, <3>1, <3>3 DEF HandInv
    <3>. QED
      BY <2>1, <2>2, <3>1, <3>2, <3>4 DEF Pending
  <2>. QED
    BY <2>3, <2>4
<1>. QED
  BY <1>4, <1>5

\* What a step publishes, finishes or parks.
LEMMA LedgerSteps ==
  ASSUME BatchInv, [Next]_vars
  PROVE  \/ /\ Len(stream') = Len(stream) + 1 /\ Len(stream) < MaxPublished
            /\ UNCHANGED <<done, dead, settled, item>>
         \/ /\ stream' = stream /\ UNCHANGED <<dead, settled, item>>
            /\ \E r \in Runs : item[r] # NoItem /\ done' = done \cup {item[r]}
         \/ /\ stream' = stream /\ UNCHANGED <<done, settled>>
            /\ \E r \in Runs : item[r] # NoItem /\ dead' = dead \cup {<<item[r], reason[r]>>}
         \/ stream' = stream /\ UNCHANGED <<done, dead>>
<1>1. stream \in Seq(Publishable)
  BY DEF BatchInv, TypeOK
<1>2. ASSUME NEW r \in Runs, RunStep(r) \/ BeginRun(r) \/ Crash(r)
      PROVE  /\ stream' = stream
             /\ \/ UNCHANGED <<done, dead>>
                \/ /\ UNCHANGED <<dead, settled, item>> /\ pc[r] \notin {"off", "loop"}
                   /\ done' = done \cup {item[r]}
                \/ /\ UNCHANGED <<done, settled>> /\ pc[r] \notin {"off", "loop"}
                   /\ dead' = dead \cup {<<item[r], reason[r]>>}
  BY <1>2 DEF RunStep, BeginRun, Crash, Yield, FetchNothing, Fetch, ReadTarget, WriteTarget,
              CannotRead, Decide, CannotWrite, Ack, Nak, Term, DeadLetter, CannotDeadLetter,
              brokerVars, handVars, ghosts
<1>3. ASSUME NEW r \in Runs, pc[r] \notin {"off", "loop"}
      PROVE  item[r] # NoItem
  BY <1>3, Holding
<1>4. ASSUME NEW c \in Publishable, Publish(c)
      PROVE  /\ Len(stream') = Len(stream) + 1 /\ Len(stream) < MaxPublished
             /\ UNCHANGED <<done, dead, settled, item>>
  BY <1>1, <1>4, AppendProperties DEF Publish, brokerVars, handVars, ghosts
<1>. QED
  BY <1>2, <1>3, <1>4
     DEF Next, AckWaitExpires, NakDelayEnds, PromotionMoves, ForeignWrite, vars, ghosts

\* Each step of the run is one of the ledger's, or none.
LEMMA LedgerStep ==
  ASSUME Alone, LedgerInv, [Next]_vars
  PROVE  [Ledger!Next]_(Ledger!vars)
<1>. USE LedgerNumbers DEF LedgerInv
<1>0. /\ Vanished \subseteq Vanished'
      /\ \A i \in Vanished' \ Vanished :
           /\ i \in Numbers /\ i \notin ClosedSet /\ i \notin done' /\ ~Parked(i)'
           /\ i <= Len(stream)
           /\ \/ \E r \in Runs : item[r] = i /\ item'[r] # item[r]
              \/ i = Oldest /\ (\A r \in Runs : item[r] = NoItem) /\ settled' # settled
  BY Vanishing
<1>1. \A r, s \in Runs : r = s
  BY DEF Alone
<1>2. ASSUME UNCHANGED <<settled, item>>
      PROVE  Vanished' = Vanished
  BY <1>0, <1>2
<1>3. CASE /\ Len(stream') = Len(stream) + 1 /\ Len(stream) < MaxPublished
           /\ UNCHANGED <<done, dead, settled, item>>
  <2>1. ParkedSet' = ParkedSet
    BY <1>3 DEF ParkedSet, Parked
  <2>. QED
    BY <1>2, <1>3, <2>1 DEF Ledger!Next, Ledger!Publish, ParkedSet
<1>4. CASE /\ stream' = stream /\ UNCHANGED <<dead, settled, item>>
           /\ \E r \in Runs : item[r] # NoItem /\ done' = done \cup {item[r]}
  <2>1. PICK r \in Runs : item[r] # NoItem /\ done' = done \cup {item[r]}
    BY <1>4
  <2>2. item[r] \in 1..Len(stream) /\ item[r] \in Numbers /\ InHand(item[r])
    BY <2>1, HeldIsPublished DEF InHand
  <2>3. Ledger!InTurn(item[r])
    BY <2>2, HeldIsInTurn
  <2>4. ParkedSet' = ParkedSet /\ Vanished' = Vanished
    BY <1>2, <1>4 DEF ParkedSet, Parked
  <2>. QED
    BY <1>4, <2>1, <2>2, <2>3, <2>4 DEF Ledger!Next, Ledger!Apply, ParkedSet
<1>5. CASE /\ stream' = stream /\ UNCHANGED <<done, settled>>
           /\ \E r \in Runs : item[r] # NoItem /\ dead' = dead \cup {<<item[r], reason[r]>>}
  <2>1. PICK r \in Runs : item[r] # NoItem /\ dead' = dead \cup {<<item[r], reason[r]>>}
    BY <1>5
  <2>2. item[r] \in 1..Len(stream) /\ item[r] \in Numbers /\ InHand(item[r])
    BY <2>1, HeldIsPublished DEF InHand
  <2>3. Ledger!InTurn(item[r])
    BY <2>2, HeldIsInTurn
  <2>4. reason[r] \in Reasons
    BY DEF BatchInv, TypeOK
  <2>5. ParkedSet' = ParkedSet \cup {item[r]}
    BY <2>1, <2>2, <2>4 DEF ParkedSet, Parked
  <2>6. Vanished' = Vanished
    BY <1>0, <1>1, <1>5, <2>5 DEF ParkedSet
  <2>. QED
    BY <1>5, <2>2, <2>3, <2>5, <2>6 DEF Ledger!Next, Ledger!Park, ParkedSet
<1>6. CASE stream' = stream /\ UNCHANGED <<done, dead>>
  <2>1. ParkedSet' = ParkedSet
    BY <1>6 DEF ParkedSet, Parked
  <2>2. CASE Vanished' = Vanished
    BY <1>6, <2>1, <2>2 DEF Ledger!vars, ParkedSet
  <2>3. CASE Vanished' # Vanished
    <3>1. PICK i \in Vanished' : i \notin Vanished
      BY <1>0, <2>3
    <3>2. Vanished' = Vanished \cup {i}
      <4>1. \A k \in Numbers : k # NoItem
        BY LedgerNumbers DEF NoItem
      <4>2. ASSUME NEW k \in Vanished', k \notin Vanished
            PROVE  k = i
        <5>1. /\ i \in Numbers /\ k \in Numbers
              /\ \/ \E r \in Runs : item[r] = i
                 \/ i = Oldest /\ \A r \in Runs : item[r] = NoItem
              /\ \/ \E r \in Runs : item[r] = k
                 \/ k = Oldest /\ \A r \in Runs : item[r] = NoItem
          BY <1>0, <3>1, <4>2
        <5>. QED
          BY <1>1, <4>1, <5>1
      <4>. QED
        BY <1>0, <3>1, <4>2
    <3>3. i \in 1..Len(stream) /\ i \notin ClosedSet /\ i \in Numbers
      BY <1>0, <3>1
    <3>4. Ledger!InTurn(i)
      BY <1>0, <3>1, <3>3, HeldIsInTurn DEF InHand
    <3>. QED
      BY <1>6, <2>1, <3>2, <3>3, <3>4
         DEF Ledger!Next, Ledger!Vanish, Ledger!Closed, ClosedSet, ParkedSet
  <2>. QED
    BY <2>2, <2>3
<1>. QED
  BY <1>3, <1>4, <1>5, <1>6, LedgerSteps

(***************************************************************************)
(* One run at a time with the vault to itself implements the chunk ledger: *)
(* chunks are answered one at a time in the order they were published,     *)
(* none before every earlier one is closed, and one that vanished is       *)
(* nobody's to answer again.                                               *)
(***************************************************************************)
THEOREM RunKeepsTheLedger ==
  ASSUME Alone
  PROVE  Spec => LedgerSpec
<1>1. Init => LedgerInv
  <2>1. ASSUME Init
        PROVE  AnswersStand /\ HandInv
    <3>1. AnswersStand
      BY <2>1, EmptySeq, Limits DEF Init, AnswersStand
    <3>2. HandInv
      BY <2>1 DEF Init, HandInv, Alone, Parked
    <3>. QED
      BY <3>1, <3>2
  <2>. QED
    BY <2>1, BatchStarts DEF LedgerInv
<1>2. LedgerInv /\ [Next]_vars => LedgerInv'
  BY BatchStep, AnswersStep, HandStep DEF LedgerInv
<1>3. Init => Ledger!Init
  <2>1. ASSUME Init
        PROVE  Len(stream) = 0 /\ Len(settled) = 0 /\ done = {} /\ dead = {}
    BY <2>1, EmptySeq DEF Init
  <2>2. ASSUME Init
        PROVE  Vanished = {}
    BY <2>1, <2>2, Limits DEF Vanished, Dropped, Oldest, Numbers
  <2>. QED
    BY <2>1, <2>2 DEF Ledger!Init, Parked
<1>4. LedgerInv /\ [Next]_vars => [Ledger!Next]_(Ledger!vars)
  BY LedgerStep
<1>. QED
  BY <1>1, <1>2, <1>3, <1>4, PTL DEF Spec, LedgerSpec, Ledger!Spec
=============================================================================
