--------------------------- MODULE BlessIntoProc ---------------------------
(***************************************************************************)
(* The walk of bless_into_proc() in ProcessTable.xs over a format string,  *)
(* the field names and a va_list.                                          *)
(*                                                                         *)
(* A va_list is a sequence of 4-byte units.  Unit <<i, a, h>> is half h of *)
(* argument a of field i.  Under "lp64" each argument has a slot of two    *)
(* units, and the second is Garbage unless the caller's type fills it;     *)
(* under "ilp32" an argument has the units of its type.                    *)
(***************************************************************************)
EXTENDS Integers, Sequences, SequencesExt

Abis == {"lp64", "ilp32"}
Garbage == <<0, 0, 0>>
Undef == <<>>

\* A field as the caller of bless_into_proc() gives it: its name, its format
\* letter, whether that is lower case, and the C types of its arguments.
Field(name, letter, lower, types) ==
  [name |-> name, letter |-> letter, lower |-> lower, types |-> types]

\* The C types each letter stands for.
VaTypes(letter) ==
  CASE letter = "a" -> <<"pointer", "int">>
    [] letter \in {"s", "V"} -> <<"pointer">>
    [] letter \in {"i", "u"} -> <<"int">>
    [] letter \in {"l", "p"} -> <<"long">>
    [] letter = "j" -> <<"longlong">>

Letters == {"a", "s", "V", "i", "u", "l", "p", "j"}

Units(type, abi) ==
  IF type = "longlong" \/ (abi = "lp64" /\ type # "int") THEN 2 ELSE 1

Slot(type, abi) == IF abi = "lp64" THEN 2 ELSE Units(type, abi)

\* What the caller passes for argument a, of the type given, of field i.
Passed(i, a, type, abi) ==
  [h \in 1..Slot(type, abi) |->
     IF h <= Units(type, abi) THEN <<i, a, h>> ELSE Garbage]

\* The units before argument a of these types, and those of all of them: no
\* letter stands for more than two.
Before(types, a, abi) == IF a = 1 THEN 0 ELSE Slot(types[1], abi)
Width(types, abi) == Before(types, Len(types), abi) + Slot(types[Len(types)], abi)

\* What the caller passes for field i.
PassedFor(i, types, abi) ==
  IF Len(types) = 1 THEN Passed(i, 1, types[1], abi)
  ELSE Passed(i, 1, types[1], abi) \o Passed(i, 2, types[2], abi)

VaList(fields, abi) ==
  FlattenSeq([i \in DOMAIN fields |-> PassedFor(i, fields[i].types, abi)])

-----------------------------------------------------------------------------
(* The walk *)

\* The walk's state: how many units were read, the hash as the sequence of what
\* was stored, whether ttydev was stored, whether it croaked.
Start == [at |-> 0, stored |-> <<>>, ttydev |-> FALSE, croaked |-> FALSE]

\* va_arg(args, type), when so many units were read before.
VaArg(args, at, type, abi) == [h \in 1..Units(type, abi) |-> args[at + h]]

Fetched(args, at, types, abi) ==
  [a \in DOMAIN types |-> VaArg(args, at + Before(types, a, abi), types[a], abi)]

\* An int or a long called ttynum is looked up, and ttydev stored.
LooksUp(field) ==
  field.lower /\ field.name = "ttynum" /\ field.letter \in {"i", "l"}

\* One turn of the loop: fetch the arguments of the letter, store them, or
\* undef for a capital, under the field's name.
Turn_IgnoresPlaceholder(walk, args, field, abi) ==
  IF walk.croaked \/ field.letter \notin Letters
  THEN [walk EXCEPT !.croaked = TRUE]
  ELSE LET types == VaTypes(field.letter)
       IN  IF field.lower
           THEN [at |-> walk.at + Width(types, abi),
                 stored |-> Append(walk.stored,
                                   <<field.name, Fetched(args, walk.at, types, abi)>>),
                 ttydev |-> walk.ttydev \/ LooksUp(field),
                 croaked |-> FALSE]
           ELSE [walk EXCEPT !.stored = Append(@, <<field.name, Undef>>)]

Turn(walk, args, field, abi) ==
  IF walk.croaked \/ field.letter \notin Letters
  THEN [walk EXCEPT !.croaked = TRUE]
  ELSE LET types == VaTypes(field.letter)
       IN  [at |-> walk.at + Width(types, abi),
            stored |-> Append(walk.stored,
                              <<field.name,
                                IF field.lower THEN Fetched(args, walk.at, types, abi)
                                ELSE Undef>>),
            ttydev |-> walk.ttydev \/ LooksUp(field),
            croaked |-> FALSE]

Bless(fields, abi) ==
  LET args == VaList(fields, abi)
  IN  FoldLeft(LAMBDA walk, field : Turn(walk, args, field, abi), Start, fields)

-----------------------------------------------------------------------------
(* Properties *)

\* What a field is stored with: its name, and its own arguments, or undef.
Own(i, field, abi) ==
  <<field.name,
    IF field.lower
    THEN [a \in DOMAIN field.types |->
            [h \in 1..Units(VaTypes(field.letter)[a], abi) |-> <<i, a, h>>]]
    ELSE Undef>>

\* Every field gets what was passed for it, or undef, under its own name, and
\* the va_list is used up: a letter of the wrong width, or one that is
\* ignored without its placeholder, shifts all that follow.
InStep(fields, abi) ==
  LET walk == Bless(fields, abi)
  IN  /\ ~walk.croaked
      /\ walk.at = Len(VaList(fields, abi))
      /\ Len(walk.stored) = Len(fields)
      /\ \A i \in DOMAIN fields : walk.stored[i] = Own(i, fields[i], abi)
=============================================================================
