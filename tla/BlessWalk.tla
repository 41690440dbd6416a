----------------------------- MODULE BlessWalk -----------------------------
(***************************************************************************)
(* A call of bless_into_proc() in ProcessTable.xs step by step: its caller *)
(* passes the arguments of one field after another, then the loop over the *)
(* format string takes them off the va_list, a letter at a time.           *)
(***************************************************************************)
EXTENDS BlessIntoProc

CONSTANTS
  Names,       \* the names of fields
  MaxFields    \* bound: fields of a format

VARIABLES
  fields,      \* the format letters and names, and what is passed for them
  abi,
  args,        \* the va_list
  starts,      \* history: how many units were passed before each field's
  turn,        \* the letter and the name that format and fields point to
  walk,        \* how far the va_list is read, and the hash
  stage        \* "passing", "walking", "done" or "croaked"

walkVars == <<fields, abi, args, starts, turn, walk, stage>>

\* The letters stand for the types that are passed, whether they are lower case
\* or capitals, which V has not; or one is unknown.
LetterFields ==
  {Field(n, l, b, VaTypes(l)) : n \in Names, l \in Letters \ {"V"}, b \in BOOLEAN}
ValueFields == {Field(n, "V", TRUE, VaTypes("V")) : n \in Names}
UnknownFields == {Field(n, "?", TRUE, <<"int">>) : n \in Names}

FieldChoices == LetterFields \cup ValueFields \cup UnknownFields

WalkInit ==
  /\ fields = <<>> /\ args = <<>> /\ starts = <<>>
  /\ abi \in Abis
  /\ turn = 1
  /\ walk = Start
  /\ stage = "passing"

Pass(field) ==
  /\ stage = "passing"
  /\ Len(fields) < MaxFields
  /\ fields' = Append(fields, field)
  /\ args' = args \o PassedFor(Len(fields) + 1, field.types, abi)
  /\ starts' = Append(starts, Len(args))
  /\ UNCHANGED <<abi, turn, walk, stage>>

\* va_start(args, fields)
VaStart ==
  /\ stage = "passing"
  /\ stage' = "walking"
  /\ UNCHANGED <<fields, abi, args, starts, turn, walk>>

\* while (*format) { ... format++; fields++; }; croak() does not return.
Loop ==
  /\ stage = "walking"
  /\ turn <= Len(fields)
  /\ walk' = Turn(walk, args, fields[turn], abi)
  /\ IF walk'.croaked THEN stage' = "croaked" /\ turn' = turn
     ELSE stage' = stage /\ turn' = turn + 1
  /\ UNCHANGED <<fields, abi, args, starts>>

LoopEnds ==
  /\ stage = "walking"
  /\ turn > Len(fields)
  /\ stage' = "done"
  /\ UNCHANGED <<fields, abi, args, starts, turn, walk>>

WalkNext == (\E field \in FieldChoices : Pass(field)) \/ VaStart \/ Loop \/ LoopEnds

WalkSpec == WalkInit /\ [][WalkNext]_walkVars

-----------------------------------------------------------------------------
(* Properties *)

\* At every turn, on both ABIs, what bless_into_proc() has stored is each
\* field's own, and a format that is walked to its end has used up the
\* va_list and looked up ttydev if it has a ttynum.  Only an unknown letter
\* croaks.
FormatsInStep ==
  /\ \A i \in DOMAIN walk.stored : walk.stored[i] = Own(i, fields[i], abi)
  /\ stage = "done" =>
       /\ Len(walk.stored) = Len(fields)
       /\ walk.at = Len(args)
       /\ walk.ttydev <=> \E i \in DOMAIN fields : LooksUp(fields[i])
       /\ \A i \in DOMAIN fields : fields[i].letter \in Letters
  /\ stage = "croaked" => fields[turn].letter \notin Letters
=============================================================================
