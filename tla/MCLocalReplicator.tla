--------------------------- MODULE MCLocalReplicator ---------------------------
(* A two-note vault for LocalReplicator. *)
EXTENDS LocalReplicator, TLC

CONSTANTS a, b, u1, u2, h1, img

BothNotes == {[p \in Paths |-> u1]}
NoteAndPicture == {a :> u1 @@ b :> img}
=============================================================================
