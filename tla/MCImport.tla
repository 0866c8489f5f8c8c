------------------------------- MODULE MCImport -------------------------------
(***************************************************************************)
(* The import's two parts: the producer with the processor that drains its *)
(* stream, and the patches the processor applies.  They share no state:    *)
(* each is explored with the other at rest.                                *)
(*                                                                         *)
(* HEAD has a note at 2, a file that is not UTF-8 at 4 and one of the raw  *)
(* layer at 5.  `a` and `a2` are alike, and `a2` links to 1; `png` has a   *)
(* NUL byte, `latin` is not UTF-8, `void` is empty; `a` is refused at 3,   *)
(* as admission refuses a note.                                            *)
(***************************************************************************)
EXTENDS BatchProducer, Patching, FiniteSetsExt, TLC

CONSTANTS a, a2, png, latin, void

MCBase == <<Absent, a, Absent, latin, a>>
MCKin == (a :> "a") @@ (a2 :> "a") @@ (png :> "png") @@ (latin :> "latin") @@ (void :> "void")
MCWeight == (Absent :> 0) @@ (a :> 1) @@ (a2 :> 2) @@ (png :> 0) @@ (latin :> 1) @@ (void :> 1)
MCPatchBytes(diffs) ==
  MapThenSumSet(LAMBDA d : IF HasText(d) THEN MCWeight[d.from] + MCWeight[d.to] ELSE 1, diffs)
MCGarbled == {d \in Diffs : HasText(d) /\ latin \in {d.from, d.to}}
MCLinks(d) == IF HasText(d) /\ a2 \in {d.from, d.to} THEN {1} ELSE {}
MCUnfit == {<<3, a>>}

\* What may be staged at each path when the import starts.
MCStaged == << {Absent, a, png}, {a, a2, Absent}, {Absent, a, a2, latin, void},
               {latin, Absent}, {a, Absent} >>

VARIABLE part

Init ==
  /\ ImportInit /\ PatchInit
  /\ part \in {"producer", "patch"}
  /\ IF part = "producer"
     THEN /\ old = NoText /\ new = NoText
          /\ \A p \in Paths : index[p] \in MCStaged[p]
          /\ Cardinality({p \in Paths : index[p] # Base[p]}) <= 3
     ELSE index = Base

ProducerPart == part = "producer" /\ ImportNext /\ UNCHANGED <<patchVars, part>>
PatchPart == part = "patch" /\ PatchNext /\ UNCHANGED <<importVars, part>>

Spec == Init /\ [][ProducerPart \/ PatchPart]_<<importVars, patchVars, part>>

=============================================================================
