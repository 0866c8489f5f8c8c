------------------------------ MODULE MCLintPass ------------------------------
(***************************************************************************)
(* A lint pass over three notes.  Either the notes hold any block of a     *)
(* schema cut down to one field of each kind but integers and nothing      *)
(* interferes, or they hold a few and two passes, edits and failures do.   *)
(***************************************************************************)
EXTENDS LintPass, SequencesExt

CONSTANTS word, iso, loose, today, upper, lower

MCZone == (1 :> "curated") @@ (2 :> "agent") @@ (3 :> "raw")

MCSchema == <<
  [name |-> "type", type |-> "text", required |-> TRUE],
  [name |-> "created", type |-> "date", required |-> TRUE],
  [name |-> "tags", type |-> "list", required |-> TRUE],
  [name |-> "consolidated", type |-> "date", required |-> FALSE]>>

MCIsoOf == (iso :> iso) @@ (loose :> iso) @@ (today :> today)
MCLowerOf == (NoItems :> NoItems) @@ (upper :> lower) @@ (lower :> lower)

\* The keys a block is made of, in no order of the schema's, and their values.
MCKeys == <<"x", "tags", "consolidated", "type", "created">>
MCValues == [
  x |-> {Absent, word}, type |-> {Absent, NoValue, word, lower},
  created |-> {Absent, NoValue, Blank, loose, iso, word, lower},
  tags |-> {Absent, NoItems, upper, lower, word}, consolidated |-> {Absent, loose}]

Block(order, value) == [order |-> order, value |-> value]

Wide ==
  UNION {
    LET keys == {k \in DOMAIN v : v[k] # Absent}
        order == SelectSeq(MCKeys, LAMBDA k : k \in keys)
    IN {Block(o, [k \in keys |-> v[k]]) : o \in {order, Reverse(order)}}
    : v \in {v \in [DOMAIN MCValues -> UNION {MCValues[k] : k \in DOMAIN MCValues}] :
               \A k \in DOMAIN v : v[k] \in MCValues[k]}}

Untidy == Block(<<"tags", "type">>, "tags" :> upper @@ "type" :> word)
Claimless == Block(<<"created", "x">>, "created" :> loose @@ "x" :> word)
Tidy == Block(<<"type", "created", "tags">>,
              "type" :> word @@ "created" :> iso @@ "tags" :> lower)

Busy == {
  (1 :> Untidy) @@ (2 :> Claimless) @@ (3 :> Absent),
  (1 :> Claimless) @@ (2 :> Absent) @@ (3 :> Garbled)}

MCOriginals == Busy \cup {[n \in Notes |-> b] : b \in Wide}
MCEdits == (1 :> {Tidy, Absent}) @@ (2 :> {Untidy}) @@ (3 :> {})

VARIABLE calm  \* the passes of this behaviour, if nothing is to interfere

MCInit ==
  /\ Init
  /\ IF vault \in Busy THEN calm = {} ELSE calm = {CHOOSE p \in Passes : TRUE} /\ edits = 0 /\ faults = 0

Taking == IF calm = {} THEN Passes ELSE calm

MCSpec ==
  /\ MCInit /\ [][Next /\ (\A p \in Passes \ Taking : pc'[p] = "idle") /\ UNCHANGED calm]_<<vars, calm>>
  /\ \A p \in Passes : WF_vars(p \in Taking /\ PassStep(p))
  /\ WF_vars(LandLate)

=============================================================================
