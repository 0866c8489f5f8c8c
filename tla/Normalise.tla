------------------------------ MODULE Normalise ------------------------------
(***************************************************************************)
(* The lint pass's pure parts: what normalisation makes of a note's        *)
(* frontmatter, and what admission says of the result.  A block is its     *)
(* keys in the order found and a value for each; a value is nothing, a     *)
(* scalar or a list.  Texts are model values, told apart by what the code  *)
(* makes of them: IsoOf is parse_date().isoformat() where it parses, and   *)
(* LowerOf lower-cases the tags it can.  Bodies are carried along as they  *)
(* are and not modelled.                                                   *)
(***************************************************************************)
EXTENDS Integers, Sequences

CONSTANTS
  Schema,    \* the table of fields in canonical order: [name, type, required]
  Stamped,   \* the dates normalisation may fill in
  Demanded,  \* the fields admission wants a value in
  Scalars, Lists,
  NoValue,   \* "key:" with nothing after it
  Blank,     \* a scalar that says nothing
  NoItems,   \* the empty list
  IsoOf, LowerOf,
  Modified   \* the file's modification date, ISO

Fields == {Schema[i].name : i \in DOMAIN Schema}
Row(k) == CHOOSE r \in {Schema[i] : i \in DOMAIN Schema} : r.name = k
HasType(k, type) == k \in Fields /\ Row(k).type = type
Inserted == {k \in Fields : Row(k).required} \ Stamped

ASSUME NormaliseAssumption ==
  /\ Len(Schema) \in Nat /\ DOMAIN Schema = 1..Len(Schema)
  /\ \A i, j \in DOMAIN Schema : Schema[i].name = Schema[j].name => i = j
  /\ Stamped \subseteq {k \in Fields : HasType(k, "date")}
  /\ Blank \in Scalars /\ NoItems \in Lists /\ Scalars \cap Lists = {}
  /\ NoValue \notin Scalars \cup Lists
  /\ DOMAIN IsoOf \subseteq Scalars \ {Blank}
  /\ \A t \in DOMAIN IsoOf : IsoOf[t] \in DOMAIN IsoOf /\ IsoOf[IsoOf[t]] = IsoOf[t]
  /\ DOMAIN LowerOf = Lists /\ LowerOf[NoItems] = NoItems
  /\ \A l \in Lists : LowerOf[l] \in Lists /\ LowerOf[LowerOf[l]] = LowerOf[l]
  /\ Modified \in DOMAIN IsoOf /\ IsoOf[Modified] = Modified

IsEmpty(v) == v \in {NoValue, Blank, NoItems}
Keys(b) == DOMAIN b.value
Says(b, k) == k \in Keys(b) /\ ~IsEmpty(b.value[k])

\* A block a parser can give: each key once, with a value.
WellFormed(b) ==
  /\ b.order \in Seq(Keys(b)) /\ Keys(b) = {b.order[i] : i \in DOMAIN b.order}
  /\ \A i, j \in DOMAIN b.order : b.order[i] = b.order[j] => i = j
  /\ \A k \in Keys(b) : b.value[k] \in Scalars \cup Lists \cup {NoValue}

-----------------------------------------------------------------------------
(* normalise.                                                              *)

ToIso(b) ==
  {k \in Keys(b) : /\ HasType(k, "date")
                   /\ b.value[k] \in DOMAIN IsoOf /\ IsoOf[b.value[k]] # b.value[k]}

ToLower(b) ==
  {k \in Keys(b) \cap {"tags"} : b.value[k] \in Lists /\ LowerOf[b.value[k]] # b.value[k]}

ToStamp(b) == {k \in Stamped : k \notin Keys(b) \/ b.value[k] \in {NoValue, Blank}}

ToInsert(b) == Inserted \ Keys(b)

\* A sequence with the members of a set left out.
Without(s, out) ==
  LET upto[i \in 0..Len(s)] ==
        IF i = 0 THEN <<>>
        ELSE IF s[i] \in out THEN upto[i - 1] ELSE Append(upto[i - 1], s[i])
  IN upto[Len(s)]

Canonical(keys) == Without([i \in DOMAIN Schema |-> Schema[i].name], Fields \ keys)

\* Mutant of Ordered: a key the schema does not name is dropped.
OrderedMutDrops(b, keys) == Canonical(keys)

\* Known keys in the schema's order, then the others in the order found.
Ordered(b, keys) == Canonical(keys) \o Without(b.order, Fields)

Changes(b) ==
  {<<"date_format", k>> : k \in ToIso(b)} \cup {<<"tag_case", k>> : k \in ToLower(b)}
    \cup {<<"date_stamped", k>> : k \in ToStamp(b)}
    \cup {<<"key_inserted", k>> : k \in ToInsert(b)}
    \cup (IF Canonical(Keys(b)) \o Without(b.order, Fields) = b.order
          THEN {} ELSE {<<"key_order", "all">>})

\* Mutant of Filled: a missing key is given the value the pass stands for.
FilledMutClaims(b, k) == IF k \in ToInsert(b) THEN Modified ELSE b.value[k]

\* The value of a key normalisation does not rewrite.
Filled(b, k) == IF k \in ToInsert(b) THEN NoValue ELSE b.value[k]

Normal(b) ==
  LET keys == Keys(b) \cup Stamped \cup Inserted
  IN [order |-> Ordered(b, keys),
      value |-> [k \in keys |->
        CASE k \in ToStamp(b) -> Modified
          [] k \in ToIso(b)   -> IsoOf[b.value[k]]
          [] k \in ToLower(b) -> LowerOf[b.value[k]]
          [] OTHER            -> Filled(b, k)]]

-----------------------------------------------------------------------------
(* admission.refusals_for, finance apart.                                  *)

Mistyped(b) ==
  {k \in Keys(b) \cap Fields :
     IF HasType(k, "list") THEN b.value[k] \in Scalars ELSE b.value[k] \in Lists}

Refusals(b) ==
  {<<"wrong_type", k>> : k \in Mistyped(b)}
    \cup {<<"missing", k>> : k \in {k \in Demanded \ Mistyped(b) : ~Says(b, k)}}
    \cup {<<"date_unparseable", k>> :
            k \in {k \in Keys(b) \ Mistyped(b) :
                     HasType(k, "date") /\ Says(b, k) /\ b.value[k] \notin DOMAIN IsoOf}}

=============================================================================
