--------------------------- MODULE MCBatchProcessor ---------------------------
(***************************************************************************)
(* A small vault for BatchProcessor: a raw note, a curated one, and a note *)
(* of neither kind, and the chunks a producer may publish about them.      *)
(***************************************************************************)
EXTENDS BatchProcessor, TLC

CONSTANTS r1, r2, raw, cur, free, old, new, bad, b1, b2

Create(post) == [op |-> "create", base |-> Absent, post |-> post]
Modify(base, post) == [op |-> "modify", base |-> base, post |-> post]
Delete(base) == [op |-> "delete", base |-> base, post |-> Absent]
MoveIn(post) == [op |-> "moveIn", base |-> Absent, post |-> post]
MoveOut(base) == [op |-> "moveOut", base |-> base, post |-> Absent]

Patch(batch, touched, links) ==
  [batch |-> batch, edits |-> touched, links |-> links, form |-> "good"]

\* Writes the raw note, and edits a curated one.
Import == Patch(b1, raw :> Create(new) @@ cur :> Modify(old, new), {})
\* Links to the note Import creates.
Relink == Patch(b1, free :> Create(new), {raw})
\* The same link, from another batch.
Elsewhere == Patch(b2, free :> Create(new), {raw})
\* Links to the note Relink creates: the second hop.
Second == Patch(b1, cur :> Modify(old, new), {free})
\* Moves the free note into curated space.
Promote == Patch(b2, free :> MoveOut(old) @@ cur :> MoveIn(old), {})
\* Moves a note admission refuses there, and writes another beside it.
Smuggle ==
  Patch(b2, free :> MoveOut(bad) @@ cur :> MoveIn(bad) @@ raw :> Create(new), {})
\* Breaks the write-once rule.
Retouch == Patch(b1, raw :> Modify(old, new), {})
Remove == Patch(b2, raw :> Delete(new), {})
Clear == Patch(b2, free :> Delete(new) @@ cur :> Modify(new, old), {})
Garbled == [Import EXCEPT !.form = "undecodable"]
Misfit == [Relink EXCEPT !.form = "unapplicable"]

Vault(r, c, f) == raw :> r @@ cur :> c @@ free :> f

\* What the safety runs publish, and over what.
SafetyChunks ==
  {Import, Relink, Promote, Smuggle, Retouch, Remove, Garbled, Misfit}
SafetyVaults ==
  {Vault(Absent, old, Absent), Vault(Absent, Absent, old),
   Vault(old, Absent, bad)}

\* What the runs about order and dependency publish.
OrderChunks == {Import, Relink, Elsewhere, Second, Clear}
OrderVaults ==
  {Vault(Absent, old, Absent), Vault(Absent, new, Absent), Vault(new, old, old)}

FewChunks == {Import, Relink}
FewVaults == {Vault(Absent, old, Absent)}

RunSymmetry == Permutations(Runs)
=============================================================================
