----------------------------- MODULE ChunkLedger -----------------------------
(***************************************************************************)
(* What the batch pipeline owes a producer: chunks are published in one    *)
(* order and each is answered in that order.  A chunk's answer is that its *)
(* work is in the vault (applied), that a copy of it lies on the           *)
(* dead-letter stream (parked), or both; or nobody will ever answer it     *)
(* (vanished).  No chunk is answered before every earlier one is closed,   *)
(* none is answered once a later one is, and one that vanished stays so.   *)
(***************************************************************************)
EXTENDS Naturals

CONSTANT MaxPublished   \* bound: chunks ever published

VARIABLES published, applied, parked, vanished

vars == <<published, applied, parked, vanished>>

Closed == applied \cup parked \cup vanished

Init ==
  /\ published = 0
  /\ applied = {}
  /\ parked = {}
  /\ vanished = {}

\* It is chunk i's turn: every earlier chunk is closed and no later one is.
InTurn(i) ==
  /\ i \notin vanished
  /\ \A j \in 1..published : j < i => j \in Closed
  /\ \A j \in Closed : j <= i

Publish ==
  /\ published < MaxPublished
  /\ published' = published + 1
  /\ UNCHANGED <<applied, parked, vanished>>

Apply(i) ==
  /\ InTurn(i)
  /\ applied' = applied \cup {i}
  /\ UNCHANGED <<published, parked, vanished>>

Park(i) ==
  /\ InTurn(i)
  /\ parked' = parked \cup {i}
  /\ UNCHANGED <<published, applied, vanished>>

Vanish(i) ==
  /\ InTurn(i)
  /\ i \notin Closed
  /\ vanished' = vanished \cup {i}
  /\ UNCHANGED <<published, applied, parked>>

Next ==
  \/ Publish
  \/ \E i \in 1..published : Apply(i) \/ Park(i) \/ Vanish(i)

Spec == Init /\ [][Next]_vars
=============================================================================
