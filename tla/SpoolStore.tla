------------------------------ MODULE SpoolStore ------------------------------
(***************************************************************************)
(* What the spool promises the replication cycle, which overwrites a       *)
(* person's edits on the strength of it: an entry is not there or there    *)
(* whole, and leaves only after the sink took it.  That the sink may take  *)
(* one twice is part of the promise; that one is ever lost is not.         *)
(***************************************************************************)
CONSTANT Entries

VARIABLES
  held,    \* the entries the spool holds
  taken,   \* the entries the sink took
  relied   \* the entries the cycle was told are stored

Init == held = {} /\ taken = {} /\ relied = {}

\* An entry comes to be held.
Store(e) == e \notin held \cup taken /\ held' = held \cup {e} /\ UNCHANGED <<taken, relied>>

\* The cycle learns that it is.
Rely(e) ==
  e \in held \cup taken /\ relied' = relied \cup {e} /\ UNCHANGED <<held, taken>>

Take(e) == e \in held /\ taken' = taken \cup {e} /\ UNCHANGED <<held, relied>>

Remove(e) == e \in held \cap taken /\ held' = held \ {e} /\ UNCHANGED <<taken, relied>>

Next == \E e \in Entries : Store(e) \/ Rely(e) \/ Take(e) \/ Remove(e)

Spec == Init /\ [][Next]_<<held, taken, relied>>

=============================================================================
