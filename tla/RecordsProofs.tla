--------------------------- MODULE RecordsProofs ---------------------------
(***************************************************************************)
(* What is proved of the records of a process and of the families on a     *)
(* table of them, however long a format, a text or a table is:             *)
(*   WalkInStep   bless_into_proc() gives every field its own arguments    *)
(*   TextsExact   cmdline and cmndline say what /proc/${pid}/cmdline says  *)
(*   FamilyExact  killfam() signals whom it was given and their            *)
(*                descendants, and nobody else                             *)
(***************************************************************************)
EXTENDS BlessWalk, CmdlineText, Killfam, FiniteSetTheorems, SequenceTheorems,
        NaturalsInduction, WellFoundedInduction, TLAPS

-----------------------------------------------------------------------------
(* I. The walk of bless_into_proc() *)

Unit == Nat \X Nat \X Nat

\* The variables' types.
Types ==
  /\ fields \in Seq(FieldChoices)
  /\ abi \in Abis
  /\ args \in Seq(Unit)
  /\ starts \in Seq(Nat) /\ Len(starts) = Len(fields)
  /\ turn \in 1..(Len(fields) + 1)
  /\ stage \in {"passing", "walking", "done", "croaked"}

\* Where the units of a field begin, and where those of the next one would.
Place(i) == IF i <= Len(fields) THEN starts[i] ELSE Len(args)

\* The arguments lie one behind the other, in the order of the fields.
Laid ==
  /\ Place(1) = 0
  /\ \A i \in DOMAIN fields :
       /\ Place(i + 1) = starts[i] + Width(fields[i].types, abi)
       /\ starts[i] + Width(fields[i].types, abi) <= Len(args)
       /\ \A a \in DOMAIN fields[i].types :
            \A h \in 1..Units(fields[i].types[a], abi) :
              args[starts[i] + Before(fields[i].types, a, abi) + h] = <<i, a, h>>

\* The walk stands at the units of the field it is at, and has stored those of
\* the fields before.
Walked ==
  /\ stage = "passing" => turn = 1
  /\ stage = "done" => turn = Len(fields) + 1
  /\ stage = "croaked" => turn <= Len(fields) /\ fields[turn].letter \notin Letters
  /\ walk = [at |-> Place(turn),
             stored |-> [i \in 1..(turn - 1) |-> Own(i, fields[i], abi)],
             ttydev |-> \E i \in 1..(turn - 1) : LooksUp(fields[i]),
             croaked |-> stage = "croaked"]
  /\ \A i \in 1..(turn - 1) : fields[i].letter \in Letters

IInv == Types /\ Laid /\ Walked

-----------------------------------------------------------------------------
(* Arguments and their units *)

\* A field has one argument, or the two of an array.
FieldTypes(types) ==
  \/ \E t : types = <<t>>
  \/ types = <<"pointer", "int">>

LEMMA ChoiceFacts ==
  ASSUME NEW field \in FieldChoices
  PROVE  /\ FieldTypes(field.types)
         /\ field.letter \in Letters => field.types = VaTypes(field.letter)
<1>1. \A l \in Letters : FieldTypes(VaTypes(l))
  BY DEF Letters, VaTypes, FieldTypes
<1>2. ASSUME NEW n \in Names, NEW l \in Letters, NEW b \in BOOLEAN,
             field = Field(n, l, b, VaTypes(l))
      PROVE  FieldTypes(field.types) /\ field.types = VaTypes(field.letter)
  BY <1>1, <1>2 DEF Field
<1>3. ASSUME NEW n \in Names, field = Field(n, "?", TRUE, <<"int">>)
      PROVE  FieldTypes(field.types) /\ field.letter \notin Letters
  BY <1>3 DEF Field, Letters, FieldTypes
<1>4. CASE field \in LetterFields
  BY <1>2, <1>4 DEF LetterFields
<1>5. CASE field \in ValueFields
  <2>1. "V" \in Letters /\ TRUE \in BOOLEAN
    BY DEF Letters
  <2> QED
    BY <1>2, <1>5, <2>1 DEF ValueFields
<1>6. CASE field \in UnknownFields
  BY <1>3, <1>6 DEF UnknownFields
<1> QED
  BY <1>4, <1>5, <1>6 DEF FieldChoices

LEMMA UnitFacts ==
  ASSUME NEW a \in Abis, NEW type
  PROVE  /\ Units(type, a) \in Nat /\ Slot(type, a) \in Nat
         /\ 1 <= Units(type, a) /\ Units(type, a) <= Slot(type, a)
BY DEF Units, Slot, Abis

LEMMA Joined ==
  ASSUME NEW S, NEW p \in Seq(S), NEW q \in Seq(S)
  PROVE  /\ p \o q \in Seq(S) /\ Len(p \o q) = Len(p) + Len(q)
         /\ \A k \in 1..Len(p) : (p \o q)[k] = p[k]
         /\ \A k \in 1..Len(q) : (p \o q)[Len(p) + k] = q[k]
<1>1. Len(p) \in Nat /\ Len(q) \in Nat
  BY LenProperties
<1>2. ASSUME NEW k \in 1..Len(p)
      PROVE  (p \o q)[k] = p[k]
  <2>1. k \in 1..(Len(p) + Len(q)) /\ k <= Len(p)
    BY <1>1
  <2> QED
    BY <2>1, ConcatProperties
<1>3. ASSUME NEW k \in 1..Len(q)
      PROVE  (p \o q)[Len(p) + k] = q[k]
  <2>1. /\ Len(p) + k \in 1..(Len(p) + Len(q)) /\ ~(Len(p) + k <= Len(p))
        /\ (Len(p) + k) - Len(p) = k
    BY <1>1
  <2> QED
    BY <2>1, ConcatProperties
<1> QED
  BY <1>2, <1>3, ConcatProperties

\* What lies in a part of a range lies in the range.
LEMMA InPart ==
  ASSUME NEW start \in Nat, NEW before \in Nat, NEW units \in Nat, NEW width \in Nat,
         NEW length \in Nat, NEW h \in 1..units,
         before + units <= width, start + width <= length
  PROVE  start + before + h \in 1..length
OBVIOUS

IsPassed(units, i, a, type, b) ==
  /\ units \in Seq(Unit)
  /\ Len(units) = Slot(type, b)
  /\ \A h \in 1..Units(type, b) : units[h] = <<i, a, h>>

LEMMA PassedIs ==
  ASSUME NEW b \in Abis, NEW i \in Nat, NEW a \in Nat, NEW type
  PROVE  IsPassed(Passed(i, a, type, b), i, a, type, b)
<1>1. /\ Units(type, b) \in Nat /\ Slot(type, b) \in Nat
      /\ Units(type, b) <= Slot(type, b)
  BY UnitFacts
<1>2. \A h \in 1..Slot(type, b) :
        (IF h <= Units(type, b) THEN <<i, a, h>> ELSE Garbage) \in Unit
  BY <1>1 DEF Unit, Garbage
<1>3. Passed(i, a, type, b) \in [1..Slot(type, b) -> Unit]
  BY <1>2 DEF Passed
<1>4. \A h \in 1..Units(type, b) : Passed(i, a, type, b)[h] = <<i, a, h>>
  BY <1>1 DEF Passed
<1> QED
  BY <1>1, <1>3, <1>4 DEF IsPassed

\* The units of field i, each where va_arg() will look for it.
Spread(units, i, types, b) ==
  \A a \in DOMAIN types :
    /\ Before(types, a, b) \in Nat /\ Units(types[a], b) \in Nat
    /\ Before(types, a, b) + Units(types[a], b) <= Width(types, b)
    /\ \A h \in 1..Units(types[a], b) : units[Before(types, a, b) + h] = <<i, a, h>>

LEMMA PassedForIs ==
  ASSUME NEW b \in Abis, NEW i \in Nat, NEW types, FieldTypes(types)
  PROVE  /\ PassedFor(i, types, b) \in Seq(Unit)
         /\ Len(PassedFor(i, types, b)) = Width(types, b)
         /\ Width(types, b) \in Nat
         /\ Spread(PassedFor(i, types, b), i, types, b)
<1>1. CASE \E t : types = <<t>>
  <2>1. PICK t : types = <<t>>
    BY <1>1
  <2>2. Len(types) = 1 /\ DOMAIN types = {1} /\ types[1] = t
    BY <2>1
  <2>3. Slot(t, b) \in Nat /\ Units(t, b) \in Nat /\ Units(t, b) <= Slot(t, b)
    BY UnitFacts
  <2>4. Before(types, 1, b) = 0 /\ Width(types, b) = Slot(t, b)
    BY <2>2, <2>3 DEF Before, Width
  <2>5. PassedFor(i, types, b) = Passed(i, 1, t, b)
    BY <2>2 DEF PassedFor
  <2> QED
    BY <2>2, <2>3, <2>4, <2>5, PassedIs DEF IsPassed, Spread
<1>2. CASE types = <<"pointer", "int">>
  <2> DEFINE p == Passed(i, 1, "pointer", b)
             q == Passed(i, 2, "int", b)
             m == Slot("pointer", b)
             n == Slot("int", b)
  <2>1. /\ Len(types) = 2 /\ DOMAIN types = {1, 2}
        /\ types[1] = "pointer" /\ types[2] = "int"
    BY <1>2
  <2>2. /\ m \in Nat /\ Units("pointer", b) \in Nat /\ Units("pointer", b) <= m
        /\ n \in Nat /\ Units("int", b) \in Nat /\ Units("int", b) <= n
    BY UnitFacts
  <2>3. /\ Before(types, 1, b) = 0 /\ Before(types, 2, b) = m
        /\ Width(types, b) = m + n
    BY <2>1 DEF Before, Width
  <2>4. PassedFor(i, types, b) = p \o q
    BY <2>1 DEF PassedFor
  <2>5. /\ p \in Seq(Unit) /\ Len(p) = m
        /\ \A h \in 1..Units("pointer", b) : p[h] = <<i, 1, h>>
    <3>1. IsPassed(p, i, 1, "pointer", b)
      BY PassedIs
    <3> HIDE DEF p
    <3> QED
      BY <3>1 DEF IsPassed
  <2>6. /\ q \in Seq(Unit) /\ Len(q) = n
        /\ \A h \in 1..Units("int", b) : q[h] = <<i, 2, h>>
    <3>1. IsPassed(q, i, 2, "int", b)
      BY PassedIs
    <3> HIDE DEF q
    <3> QED
      BY <3>1 DEF IsPassed
  <2> HIDE DEF p, q, m, n
  <2>7. /\ p \o q \in Seq(Unit) /\ Len(p \o q) = m + n
        /\ \A k \in 1..m : (p \o q)[k] = p[k]
        /\ \A k \in 1..n : (p \o q)[m + k] = q[k]
    <3>0. p \in Seq(Unit) /\ q \in Seq(Unit)
      BY <2>5, <2>6
    <3>1. /\ p \o q \in Seq(Unit) /\ Len(p \o q) = Len(p) + Len(q)
          /\ \A k \in 1..Len(p) : (p \o q)[k] = p[k]
      BY <3>0, Joined, Zenon
    <3>2. \A k \in 1..Len(q) : (p \o q)[Len(p) + k] = q[k]
      BY <3>0, Joined
    <3> QED
      BY <2>5, <2>6, <3>1, <3>2
  <2>8. \A h \in 1..Units("pointer", b) : (p \o q)[h] = <<i, 1, h>>
    BY <2>2, <2>5, <2>7
  <2>9. \A h \in 1..Units("int", b) : (p \o q)[m + h] = <<i, 2, h>>
    BY <2>2, <2>6, <2>7
  <2>10. Spread(p \o q, i, types, b)
    <3>1. /\ Before(types, 1, b) + Units(types[1], b) <= Width(types, b)
          /\ Before(types, 2, b) + Units(types[2], b) <= Width(types, b)
      BY <2>1, <2>2, <2>3
    <3>2. ASSUME NEW a \in DOMAIN types
          PROVE  /\ Before(types, a, b) \in Nat /\ Units(types[a], b) \in Nat
                 /\ Before(types, a, b) + Units(types[a], b) <= Width(types, b)
                 /\ \A h \in 1..Units(types[a], b) :
                      (p \o q)[Before(types, a, b) + h] = <<i, a, h>>
      <4>1. CASE a = 1
        <5>1. /\ Before(types, a, b) = 0 /\ types[a] = "pointer"
              /\ Before(types, a, b) + Units(types[a], b) <= Width(types, b)
          BY <2>1, <2>3, <3>1, <4>1
        <5>2. ASSUME NEW h \in 1..Units(types[a], b)
              PROVE  (p \o q)[Before(types, a, b) + h] = <<i, a, h>>
          <6>1. Before(types, a, b) + h = h
            BY <2>2, <5>1
          <6>2. (p \o q)[h] = <<i, a, h>>
            BY <2>8, <4>1, <5>1
          <6> QED
            BY <6>1, <6>2
        <5>3. Before(types, a, b) \in Nat /\ Units(types[a], b) \in Nat
          BY <2>2, <5>1
        <5> QED
          BY <5>1, <5>2, <5>3
      <4>2. CASE a = 2
        BY <2>1, <2>2, <2>3, <2>9, <3>1, <4>2
      <4> QED
        BY <2>1, <4>1, <4>2
    <3> QED
      BY <3>2 DEF Spread
  <2> QED
    BY <2>2, <2>3, <2>4, <2>7, <2>10
<1> QED
  BY <1>1, <1>2 DEF FieldTypes

-----------------------------------------------------------------------------
(* The steps *)

LEMMA InitInv == WalkInit => IInv
<1> SUFFICES ASSUME WalkInit
             PROVE  IInv
  OBVIOUS
<1>1. /\ fields = <<>> /\ args = <<>> /\ starts = <<>> /\ turn = 1
      /\ walk = Start /\ stage = "passing" /\ abi \in Abis
  BY DEF WalkInit
<1>2. Len(fields) = 0 /\ Len(args) = 0 /\ Len(starts) = 0 /\ DOMAIN fields = {}
  BY <1>1
<1>3. Types
  BY <1>1, <1>2 DEF Types
<1>4. Laid
  BY <1>2 DEF Laid, Place
<1>5. Walked
  <2>1. 1..(turn - 1) = {}
    BY <1>1
  <2>2. [i \in 1..(turn - 1) |-> Own(i, fields[i], abi)] = <<>>
    BY <2>1
  <2>3. Place(turn) = 0
    BY <1>1, <1>4 DEF Laid
  <2> QED
    BY <1>1, <2>1, <2>2, <2>3 DEF Walked, Start
<1> QED
  BY <1>3, <1>4, <1>5 DEF IInv

LEMMA PassKeeps ==
  ASSUME IInv, NEW field \in FieldChoices, Pass(field)
  PROVE  IInv'
<1>0. PICK n \in Nat : n = Len(fields)
  BY DEF IInv, Types
<1> DEFINE new == PassedFor(n + 1, field.types, abi)
<1>1. /\ stage = "passing" /\ turn = 1
      /\ fields' = Append(fields, field) /\ args' = args \o new
      /\ starts' = Append(starts, Len(args))
      /\ abi' = abi /\ turn' = turn /\ walk' = walk /\ stage' = stage
  BY <1>0 DEF Pass, IInv, Walked
<1>2. /\ fields \in Seq(FieldChoices) /\ n \in Nat /\ DOMAIN fields = 1..n
      /\ args \in Seq(Unit) /\ Len(args) \in Nat
      /\ starts \in Seq(Nat) /\ Len(starts) = n
      /\ abi \in Abis
  BY <1>0 DEF IInv, Types
<1>3. /\ fields' \in Seq(FieldChoices) /\ Len(fields') = n + 1
      /\ DOMAIN fields' = 1..(n + 1)
      /\ \A i \in 1..n : fields'[i] = fields[i]
      /\ fields'[n + 1] = field
  BY <1>0, <1>1, <1>2
<1>4. /\ starts' \in Seq(Nat) /\ Len(starts') = n + 1
      /\ \A i \in 1..n : starts'[i] = starts[i]
      /\ starts'[n + 1] = Len(args)
  BY <1>1, <1>2
<1>5. /\ new \in Seq(Unit) /\ Len(new) = Width(field.types, abi)
      /\ Width(field.types, abi) \in Nat
      /\ Spread(new, n + 1, field.types, abi)
  <2>1. FieldTypes(field.types) /\ n + 1 \in Nat
    BY <1>2, ChoiceFacts
  <2> QED
    BY <1>2, <2>1, PassedForIs
<1> HIDE DEF new
<1>6. /\ args' \in Seq(Unit) /\ Len(args') = Len(args) + Len(new)
      /\ \A k \in 1..Len(args) : args'[k] = args[k]
      /\ \A k \in 1..Len(new) : args'[Len(args) + k] = new[k]
  <2>1. args \in Seq(Unit) /\ new \in Seq(Unit) /\ args' = args \o new
    BY <1>1, <1>2, <1>5
  <2>2. /\ args \o new \in Seq(Unit) /\ Len(args \o new) = Len(args) + Len(new)
        /\ \A k \in 1..Len(args) : (args \o new)[k] = args[k]
    BY <2>1, Joined, Zenon
  <2>3. \A k \in 1..Len(new) : (args \o new)[Len(args) + k] = new[k]
    BY <2>1, Joined
  <2> QED
    BY <2>1, <2>2, <2>3
<1>7. Types'
  BY <1>1, <1>2, <1>3, <1>4, <1>6 DEF IInv, Types
<1>8. Laid'
  <2>1. Place(1)' = 0
    <3>1. CASE n = 0
      BY <1>0, <1>2, <1>3, <1>4, <3>1 DEF Place, IInv, Laid
    <3>2. CASE n # 0
      BY <1>0, <1>2, <1>3, <1>4, <3>2 DEF Place, IInv, Laid
    <3> QED
      BY <3>1, <3>2
  <2>2. ASSUME NEW i \in 1..n
        PROVE  /\ Place(i + 1)' = starts'[i] + Width(fields'[i].types, abi)
               /\ starts'[i] + Width(fields'[i].types, abi) <= Len(args')
               /\ \A a \in DOMAIN fields'[i].types :
                    \A h \in 1..Units(fields'[i].types[a], abi) :
                      args'[starts'[i] + Before(fields'[i].types, a, abi) + h] = <<i, a, h>>
    <3> DEFINE types == fields[i].types
    <3>1. /\ i \in DOMAIN fields /\ fields'[i].types = types /\ starts'[i] = starts[i]
          /\ starts[i] \in Nat /\ i \in Nat
      BY <1>2, <1>3, <1>4
    <3>2. /\ Place(i + 1) = starts[i] + Width(types, abi)
          /\ starts[i] + Width(types, abi) <= Len(args)
          /\ \A a \in DOMAIN types : \A h \in 1..Units(types[a], abi) :
               args[starts[i] + Before(types, a, abi) + h] = <<i, a, h>>
      BY <3>1 DEF IInv, Laid
    <3>3. FieldTypes(types)
      BY <1>2, <3>1, ChoiceFacts
    <3>4. /\ Width(types, abi) \in Nat
          /\ \A a \in DOMAIN types :
               /\ Before(types, a, abi) \in Nat /\ Units(types[a], abi) \in Nat
               /\ Before(types, a, abi) + Units(types[a], abi) <= Width(types, abi)
      BY <1>2, <3>1, <3>3, PassedForIs DEF Spread
    <3>5. Place(i + 1)' = Place(i + 1)
      BY <1>0, <1>2, <1>3, <1>4, SMTT(30) DEF Place
    <3> HIDE DEF types
    <3>6. starts[i] + Width(types, abi) <= Len(args')
      BY <1>2, <1>5, <1>6, <3>1, <3>2, <3>4
    <3>7. ASSUME NEW a \in DOMAIN types, NEW h \in 1..Units(types[a], abi)
          PROVE  args'[starts[i] + Before(types, a, abi) + h] = <<i, a, h>>
      <4>1. /\ Before(types, a, abi) \in Nat /\ Units(types[a], abi) \in Nat
            /\ Before(types, a, abi) + Units(types[a], abi) <= Width(types, abi)
        BY <3>4
      <4>2. starts[i] + Before(types, a, abi) + h \in 1..Len(args)
        <5>1. Len(args) \in Nat
          BY <1>2
        <5>2. starts[i] + Width(types, abi) <= Len(args)
          BY <3>2
        <5> QED
          BY <3>1, <3>4, <4>1, <5>1, <5>2, InPart
      <4> QED
        BY <1>6, <3>2, <4>2
    <3> QED
      BY <3>1, <3>2, <3>5, <3>6, <3>7
  <2>3. /\ Place(n + 2)' = starts'[n + 1] + Width(fields'[n + 1].types, abi)
        /\ starts'[n + 1] + Width(fields'[n + 1].types, abi) <= Len(args')
        /\ \A a \in DOMAIN fields'[n + 1].types :
             \A h \in 1..Units(fields'[n + 1].types[a], abi) :
               args'[starts'[n + 1] + Before(fields'[n + 1].types, a, abi) + h]
                 = <<n + 1, a, h>>
    <3>1. Place(n + 2)' = Len(args')
      BY <1>2, <1>3 DEF Place
    <3>2. ASSUME NEW a \in DOMAIN field.types, NEW h \in 1..Units(field.types[a], abi)
          PROVE  args'[Len(args) + Before(field.types, a, abi) + h] = <<n + 1, a, h>>
      <4>0. /\ Before(field.types, a, abi) \in Nat /\ Units(field.types[a], abi) \in Nat
            /\ Before(field.types, a, abi) + Units(field.types[a], abi) <= Len(new)
            /\ new[Before(field.types, a, abi) + h] = <<n + 1, a, h>>
        BY <1>5 DEF Spread
      <4>1. Before(field.types, a, abi) + h \in 1..Len(new)
        BY <1>5, <4>0
      <4>2. args'[Len(args) + (Before(field.types, a, abi) + h)] = <<n + 1, a, h>>
        BY <1>6, <4>0, <4>1
      <4>3. Len(args) + Before(field.types, a, abi) + h
              = Len(args) + (Before(field.types, a, abi) + h)
        BY <1>2, <4>0
      <4> QED
        BY <4>2, <4>3
    <3>3. starts'[n + 1] = Len(args) /\ fields'[n + 1] = field
      BY <1>2, <1>3, <1>4
    <3>4. Len(args') = Len(args) + Width(field.types, abi) /\ Len(args') \in Nat
      BY <1>2, <1>5, <1>6
    <3>5. Len(args) + Width(field.types, abi) <= Len(args')
      BY <3>4
    <3> QED
      BY <3>1, <3>2, <3>3, <3>4, <3>5, Zenon
  <2>4. ASSUME NEW i \in DOMAIN fields'
        PROVE  /\ Place(i + 1)' = starts'[i] + Width(fields'[i].types, abi)
               /\ starts'[i] + Width(fields'[i].types, abi) <= Len(args')
               /\ \A a \in DOMAIN fields'[i].types :
                    \A h \in 1..Units(fields'[i].types[a], abi) :
                      args'[starts'[i] + Before(fields'[i].types, a, abi) + h] = <<i, a, h>>
    <3>1. i \in 1..n \/ (i = n + 1 /\ i + 1 = n + 2)
      BY <1>2, <1>3
    <3>2. CASE i \in 1..n
      BY <2>2, <3>2
    <3>3. CASE i = n + 1 /\ i + 1 = n + 2
      BY <2>3, <3>3
    <3> QED
      BY <3>1, <3>2, <3>3
  <2> QED
    BY <1>1, <2>1, <2>4 DEF Laid
<1>9. Walked'
  <2>1. 1..(turn - 1) = {} /\ turn' = 1
    BY <1>1
  <2>2. Place(turn)' = Place(turn)
    BY <1>1, <1>8 DEF IInv, Laid
  <2>3. [i \in 1..(turn - 1) |-> Own(i, fields[i], abi)]
          = [i \in 1..(turn' - 1) |-> Own(i, fields'[i], abi')]
    BY <1>1, <2>1
  <2> QED
    BY <1>1, <2>1, <2>2, <2>3 DEF IInv, Walked
<1> QED
  BY <1>7, <1>8, <1>9 DEF IInv

\* A turn of the loop takes the units of its own field.
LEMMA LoopKeeps == IInv /\ Loop => IInv'
<1> SUFFICES ASSUME IInv, Loop
             PROVE  IInv'
  OBVIOUS
<1> DEFINE field == fields[turn]
           types == field.types
<1>1. /\ stage = "walking" /\ turn <= Len(fields)
      /\ UNCHANGED <<fields, abi, args, starts>>
      /\ walk' = Turn(walk, args, field, abi)
  BY DEF Loop
<1>2. /\ fields \in Seq(FieldChoices) /\ Len(fields) \in Nat
      /\ DOMAIN fields = 1..Len(fields)
      /\ turn \in 1..Len(fields) /\ turn \in Nat /\ abi \in Abis
      /\ starts \in Seq(Nat) /\ Len(starts) = Len(fields)
  BY <1>1 DEF IInv, Types
<1>3. /\ field \in FieldChoices /\ FieldTypes(types)
      /\ field.letter \in Letters => types = VaTypes(field.letter)
  BY <1>2, ChoiceFacts
<1>4. /\ walk.at = Place(turn) /\ ~walk.croaked
      /\ walk.stored = [i \in 1..(turn - 1) |-> Own(i, fields[i], abi)]
      /\ walk.ttydev = (\E i \in 1..(turn - 1) : LooksUp(fields[i]))
      /\ \A i \in 1..(turn - 1) : fields[i].letter \in Letters
      /\ walk = [at |-> walk.at, stored |-> walk.stored, ttydev |-> walk.ttydev,
                 croaked |-> FALSE]
  BY <1>1 DEF IInv, Walked
<1>5. Laid'
  <2>1. fields' = fields /\ abi' = abi /\ args' = args /\ starts' = starts
    BY <1>1
  <2> QED
    BY <2>1, ZenonT(30) DEF IInv, Laid, Place
<1>6. CASE field.letter \notin Letters
  <2>1. walk' = [walk EXCEPT !.croaked = TRUE]
    BY <1>1, <1>6 DEF Turn
  <2>2. walk' = [at |-> walk.at, stored |-> walk.stored, ttydev |-> walk.ttydev,
                 croaked |-> TRUE]
    BY <1>4, <2>1
  <2>3. stage' = "croaked" /\ turn' = turn
    BY <2>2 DEF Loop
  <2>4. Types'
    BY <1>1, <2>3 DEF IInv, Types
  <2>5. Walked'
    <3>1. /\ walk'.at = walk.at /\ walk'.stored = walk.stored
          /\ walk'.ttydev = walk.ttydev /\ walk'.croaked
      BY <2>2
    <3>2. Place(turn)' = Place(turn)
      BY <1>1, <2>3 DEF Place
    <3> QED
      BY <1>1, <1>2, <1>4, <1>6, <2>2, <2>3, <3>1, <3>2 DEF Walked
  <2> QED
    BY <1>5, <2>4, <2>5 DEF IInv
<1>7. CASE field.letter \in Letters
  <2> DEFINE value == IF field.lower THEN Fetched(args, walk.at, types, abi) ELSE Undef
             entry == <<field.name, value>>
  <2>1. walk' = [at |-> walk.at + Width(types, abi),
                 stored |-> Append(walk.stored, entry),
                 ttydev |-> walk.ttydev \/ LooksUp(field),
                 croaked |-> FALSE]
    BY <1>1, <1>3, <1>4, <1>7 DEF Turn
  <2>2. stage' = "walking" /\ turn' = turn + 1
    BY <1>1, <2>1 DEF Loop
  <2>3. Types'
    BY <1>1, <1>2, <2>2 DEF IInv, Types
  <2>4. walk.at + Width(types, abi) = Place(turn)'
    <3>1. Place(turn + 1) = starts[turn] + Width(types, abi) /\ walk.at = starts[turn]
      BY <1>2, <1>4 DEF IInv, Laid, Place
    <3>2. Place(turn)' = Place(turn + 1)
      BY <1>1, <2>2 DEF Place
    <3> QED
      BY <3>1, <3>2
  <2>5. entry = Own(turn, field, abi)
    <3>1. ASSUME NEW a \in DOMAIN types
          PROVE  VaArg(args, walk.at + Before(types, a, abi), types[a], abi)
                   = [h \in 1..Units(types[a], abi) |-> <<turn, a, h>>]
      <4>1. walk.at = starts[turn]
        BY <1>2, <1>4 DEF Place
      <4>2. \A h \in 1..Units(types[a], abi) :
              args[starts[turn] + Before(types, a, abi) + h] = <<turn, a, h>>
        BY <1>2 DEF IInv, Laid
      <4> QED
        BY <4>1, <4>2 DEF VaArg
    <3>2. Fetched(args, walk.at, types, abi)
            = [a \in DOMAIN types |-> [h \in 1..Units(types[a], abi) |-> <<turn, a, h>>]]
      BY <3>1 DEF Fetched
    <3> QED
      BY <1>3, <1>7, <3>2 DEF Own
  <2>6. Append(walk.stored, entry) = [i \in 1..turn |-> Own(i, fields[i], abi)]
    <3> DEFINE S == {Own(i, fields[i], abi) : i \in 1..turn}
               all == [i \in 1..turn |-> Own(i, fields[i], abi)]
    <3>1. entry \in S
      BY <1>2, <2>5
    <3>2. walk.stored \in Seq(S) /\ Len(walk.stored) = turn - 1
      <4>1. turn - 1 \in Nat /\ \A i \in 1..(turn - 1) : i \in 1..turn
        BY <1>2
      <4>2. \A i \in 1..(turn - 1) : Own(i, fields[i], abi) \in S
        BY <4>1
      <4> HIDE DEF S
      <4>3. walk.stored \in [1..(turn - 1) -> S]
        BY <1>4, <4>2
      <4> QED
        BY <4>1, <4>3
    <3>3. all \in Seq(S) /\ Len(all) = turn
      <4>1. all \in [1..turn -> S]
        OBVIOUS
      <4> HIDE DEF all, S
      <4> QED
        BY <1>2, <4>1
    <3> HIDE DEF entry, S
    <3>4. /\ Append(walk.stored, entry) \in Seq(S)
          /\ Len(Append(walk.stored, entry)) = turn
          /\ \A i \in 1..(turn - 1) : Append(walk.stored, entry)[i] = walk.stored[i]
          /\ Append(walk.stored, entry)[turn] = entry
      BY <1>2, <3>1, <3>2, AppendProperties
    <3>5. \A i \in 1..turn : Append(walk.stored, entry)[i] = all[i]
      <4>1. \A i \in 1..turn : i \in 1..(turn - 1) \/ i = turn
        BY <1>2
      <4>2. all[turn] = entry
        BY <1>2, <2>5
      <4>3. \A i \in 1..(turn - 1) : walk.stored[i] = all[i]
        BY <1>2, <1>4
      <4> QED
        BY <3>4, <4>1, <4>2, <4>3
    <3> HIDE DEF all
    <3>6. Append(walk.stored, entry) = all
      BY <1>2, <3>3, <3>4, <3>5, SeqEqual
    <3> QED
      BY <3>6 DEF all
  <2>7. (walk.ttydev \/ LooksUp(field)) = (\E i \in 1..turn : LooksUp(fields[i]))
    <3>1. \A i \in 1..turn : i \in 1..(turn - 1) \/ i = turn
      BY <1>2
    <3>2. turn \in 1..turn /\ \A i \in 1..(turn - 1) : i \in 1..turn
      BY <1>2
    <3> QED
      BY <1>4, <3>1, <3>2 DEF LooksUp
  <2>8. \A i \in 1..turn : fields[i].letter \in Letters
    <3>1. \A i \in 1..turn : i \in 1..(turn - 1) \/ i = turn
      BY <1>2
    <3> QED
      BY <1>4, <1>7, <3>1
  <2>9. turn' - 1 = turn
    BY <1>2, <2>2
  <2> HIDE DEF entry, value
  <2>10. Walked'
    BY <1>1, <2>1, <2>2, <2>4, <2>6, <2>7, <2>8, <2>9 DEF Walked
  <2> QED
    BY <1>5, <2>3, <2>10 DEF IInv
<1> QED
  BY <1>6, <1>7

\* Where only the stage changes.
LEMMA OnlyStage ==
  ASSUME IInv, UNCHANGED <<fields, abi, args, starts, turn, walk>>,
         stage' \in {"passing", "walking", "done", "croaked"},
         (stage' = "croaked") = (stage = "croaked"),
         stage' = "passing" => turn = 1,
         stage' = "done" => turn = Len(fields) + 1
  PROVE  IInv'
<1>1. Types'
  BY DEF IInv, Types
<1>2. Laid'
  BY DEF IInv, Laid, Place
<1>3. Place(turn)' = Place(turn)
  BY DEF Place
<1>4. Walked'
  BY <1>3 DEF IInv, Walked
<1> QED
  BY <1>1, <1>2, <1>4 DEF IInv

LEMMA Keeps == IInv /\ [WalkNext]_walkVars => IInv'
<1> SUFFICES ASSUME IInv, [WalkNext]_walkVars
             PROVE  IInv'
  OBVIOUS
<1>1. ASSUME NEW field \in FieldChoices, Pass(field)
      PROVE  IInv'
  BY <1>1, PassKeeps
<1>2. CASE VaStart
  BY <1>2, OnlyStage DEF VaStart, IInv, Walked
<1>3. CASE Loop
  BY <1>3, LoopKeeps
<1>4. CASE LoopEnds
  <2>1. turn = Len(fields) + 1
    BY <1>4 DEF LoopEnds, IInv, Types
  <2> QED
    BY <1>4, <2>1, OnlyStage DEF LoopEnds
<1>5. CASE UNCHANGED walkVars
  BY <1>5, OnlyStage DEF walkVars, IInv, Types, Walked
<1> QED
  BY <1>1, <1>2, <1>3, <1>4, <1>5 DEF WalkNext

\* bless_into_proc() stores each field's own arguments, or undef, at every turn,
\* for formats of every length, with any mixture of letters and capitals and on
\* both ABIs; one that it walks to its end has used up the va_list.
THEOREM WalkInStep == WalkSpec => []FormatsInStep
<1>1. IInv => FormatsInStep
  <2> SUFFICES ASSUME IInv
               PROVE  FormatsInStep
    OBVIOUS
  <2>1. walk.stored = [i \in 1..(turn - 1) |-> Own(i, fields[i], abi)]
    BY DEF IInv, Walked
  <2>2. ASSUME stage = "done"
        PROVE  /\ Len(walk.stored) = Len(fields)
               /\ walk.at = Len(args)
               /\ walk.ttydev <=> \E i \in DOMAIN fields : LooksUp(fields[i])
               /\ \A i \in DOMAIN fields : fields[i].letter \in Letters
    <3>1. Len(fields) \in Nat /\ DOMAIN fields = 1..Len(fields)
      BY DEF IInv, Types
    <3>2. turn - 1 = Len(fields)
      BY <2>2, <3>1 DEF IInv, Walked
    <3>3. Place(turn) = Len(args)
      BY <2>2, <3>1 DEF IInv, Walked, Place
    <3> QED
      BY <2>1, <3>1, <3>2, <3>3 DEF IInv, Walked
  <2> QED
    BY <2>1, <2>2 DEF FormatsInStep, IInv, Walked
<1> QED
  BY <1>1, InitInv, Keeps, PTL DEF WalkSpec

-----------------------------------------------------------------------------
(* II. The texts of a command line *)

\* What holds of no least number holds of none: the form in which everything
\* below is shown by induction.
LEMMA NatMin ==
  ASSUME NEW T \in SUBSET Nat, T # {}
  PROVE  \E n \in T : \A m \in T : n <= m
<1>1. IsWellFoundedOn(OpToRel(<, Nat), Nat)
  BY NatLessThanWellFounded
<1>2. PICK n \in T : \A m \in T : ~(<<m, n>> \in OpToRel(<, Nat))
  BY <1>1, WFMin
<1>3. \A m \in T : ~(m < n)
  BY <1>2 DEF OpToRel
<1> QED
  BY <1>3

\* f puts sequences behind one another, and its last value is FlattenSeq's.
Flattens(f, seqs, n) == f = [i \in 1..n |-> IF i = 1 THEN seqs[i] ELSE f[i - 1] \o seqs[i]]

\* FlattenSeq() is such a function, if there is one; and there is.
LEMMA FlattenDef ==
  ASSUME NEW seqs, Len(seqs) \in Nat \ {0}, \E f : Flattens(f, seqs, Len(seqs))
  PROVE  \E f : Flattens(f, seqs, Len(seqs)) /\ FlattenSeq(seqs) = f[Len(seqs)]
<1> DEFINE flatten[i \in 1..Len(seqs)] == IF i = 1 THEN seqs[i] ELSE flatten[i - 1] \o seqs[i]
<1>1. FlattenSeq(seqs) = flatten[Len(seqs)]
  BY DEF FlattenSeq
<1>2. flatten = CHOOSE f :
        f = [i \in 1..Len(seqs) |-> IF i = 1 THEN seqs[i] ELSE f[i - 1] \o seqs[i]]
  OBVIOUS
<1>3. flatten = [i \in 1..Len(seqs) |-> IF i = 1 THEN seqs[i] ELSE flatten[i - 1] \o seqs[i]]
  BY <1>2, Zenon DEF Flattens
<1> QED
  BY <1>1, <1>3 DEF Flattens

LEMMA FlattenExists ==
  ASSUME NEW seqs, NEW k \in Nat, k >= 1
  PROVE  \E f : Flattens(f, seqs, k)
<1> DEFINE T == {n \in Nat : n >= 1 /\ ~\E f : Flattens(f, seqs, n)}
<1> SUFFICES ASSUME T # {}
             PROVE  FALSE
  OBVIOUS
<1>1. PICK n \in T : \A m \in T : n <= m
  BY NatMin
<1>2. CASE n = 1
  <2> DEFINE f == [i \in 1..1 |-> seqs[i]]
  <2>1. f = [i \in 1..1 |-> IF i = 1 THEN seqs[i] ELSE f[i - 1] \o seqs[i]]
    OBVIOUS
  <2> QED
    BY <1>2, <2>1 DEF Flattens
<1>3. CASE n > 1
  <2>1. n - 1 \in Nat /\ n - 1 >= 1 /\ n - 1 < n /\ n - 1 \notin T
    BY <1>1, <1>3
  <2>2. PICK g : Flattens(g, seqs, n - 1)
    BY <2>1
  <2> DEFINE f == [i \in 1..n |-> IF i = n THEN g[n - 1] \o seqs[n] ELSE g[i]]
  <2>3. ASSUME NEW i \in 1..n
        PROVE  f[i] = IF i = 1 THEN seqs[i] ELSE f[i - 1] \o seqs[i]
    <3>1. CASE i = n
      <4>1. f[n] = g[n - 1] \o seqs[n]
        <5>1. n \in 1..n
          BY <1>3
        <5> QED
          BY <5>1
      <4>2. f[n - 1] = g[n - 1] /\ n # 1
        BY <1>3
      <4> QED
        BY <3>1, <4>1, <4>2
    <3>2. CASE i # n
      <4>1. i \in 1..(n - 1) /\ f[i] = g[i]
        BY <3>2
      <4>2. g[i] = IF i = 1 THEN seqs[i] ELSE g[i - 1] \o seqs[i]
        BY <2>2, <4>1 DEF Flattens
      <4>3. i # 1 => f[i - 1] = g[i - 1]
        BY <4>1
      <4> QED
        BY <4>1, <4>2, <4>3
    <3> QED
      BY <3>1, <3>2
  <2>4. Flattens(f, seqs, n)
    BY <2>3 DEF Flattens
  <2> QED
    BY <1>1, <2>4
<1> QED
  BY <1>1, <1>2, <1>3

\* Its values, and their type.
LEMMA FlattenAt ==
  ASSUME NEW f, NEW seqs, NEW k \in Nat, k >= 1, Flattens(f, seqs, k)
  PROVE  f[1] = seqs[1] /\ \A i \in 2..k : f[i] = f[i - 1] \o seqs[i]
<1>1. \A i \in 1..k : f[i] = IF i = 1 THEN seqs[i] ELSE f[i - 1] \o seqs[i]
  BY Zenon DEF Flattens
<1>2. 1 \in 1..k /\ \A i \in 2..k : i \in 1..k /\ i # 1
  OBVIOUS
<1> QED
  BY <1>1, <1>2, Zenon

LEMMA FlattenTyped ==
  ASSUME NEW S, NEW seqs \in Seq(Seq(S)), NEW f, NEW k \in Nat, k <= Len(seqs),
         Flattens(f, seqs, k)
  PROVE  \A i \in 1..k : f[i] \in Seq(S)
<1> DEFINE T == {n \in Nat : n \in 1..k /\ f[n] \notin Seq(S)}
<1> SUFFICES ASSUME T # {}
             PROVE  FALSE
  OBVIOUS
<1>1. PICK n \in T : \A m \in T : n <= m
  BY NatMin
<1>2. n \in 1..k /\ seqs[n] \in Seq(S)
  OBVIOUS
<1>3. f[n] = IF n = 1 THEN seqs[n] ELSE f[n - 1] \o seqs[n]
  BY <1>2 DEF Flattens
<1>4. CASE n = 1
  BY <1>2, <1>3, <1>4
<1>5. CASE n # 1
  <2>1. n - 1 \in 1..k /\ n - 1 \in Nat /\ n - 1 < n
    BY <1>2, <1>5
  <2>2. n - 1 \notin T
    BY <1>1, <2>1
  <2>3. f[n - 1] \in Seq(S)
    BY <2>1, <2>2
  <2>4. f[n - 1] \o seqs[n] \in Seq(S)
    BY <1>2, <2>3, ConcatProperties
  <2> QED
    BY <1>3, <1>5, <2>4
<1> QED
  BY <1>4, <1>5

\* What FlattenSeq() makes of a sequence of sequences, one after the other.
LEMMA FlattenOne ==
  ASSUME NEW S, NEW x \in Seq(S)
  PROVE  FlattenSeq(<<x>>) = x
<1>1. PICK c : c = <<x>>
  OBVIOUS
<1>2. Len(c) = 1 /\ c[1] = x
  BY <1>1
<1>3. \E f : Flattens(f, c, 1)
  <2>1. 1 \in Nat /\ 1 >= 1
    OBVIOUS
  <2> QED
    BY <2>1, FlattenExists, Zenon
<1>4. PICK f : Flattens(f, c, 1) /\ FlattenSeq(c) = f[1]
  <2>1. Len(c) \in Nat \ {0}
    BY <1>2
  <2> QED
    BY <1>2, <1>3, <2>1, FlattenDef
<1>5. f[1] = c[1]
  <2>1. 1 \in Nat /\ 1 >= 1
    OBVIOUS
  <2> QED
    BY <1>4, <2>1, FlattenAt, Zenon
<1> QED
  BY <1>1, <1>2, <1>4, <1>5

InRow(S) == \A p, q, r \in Seq(S) : (p \o q) \o r = p \o (q \o r)

LEMMA ThreeInRow ==
  ASSUME NEW S
  PROVE  InRow(S)
<1>1. ASSUME NEW p \in Seq(S), NEW q \in Seq(S), NEW r \in Seq(S)
      PROVE  (p \o q) \o r = p \o (q \o r)
  BY ConcatAssociative
<1> QED
  BY <1>1, Zenon DEF InRow

LEMMA FlattenCons ==
  ASSUME NEW S, NEW x \in Seq(S), NEW ss \in Seq(Seq(S)), ss # <<>>
  PROVE  FlattenSeq(<<x>> \o ss) = x \o FlattenSeq(ss) /\ FlattenSeq(ss) \in Seq(S)
<1> DEFINE n == Len(ss)
           c == <<x>> \o ss
<1>1. n \in Nat \ {0}
  BY EmptySeq
<1>2. \A p, q \in Seq(S) : (x \o p) \o q = x \o (p \o q)
  <2>1. InRow(S)
    BY ThreeInRow
  <2> QED
    BY <2>1, Zenon DEF InRow
<1>3. /\ c \in Seq(Seq(S)) /\ Len(c) = n + 1 /\ c[1] = x
      /\ \A i \in 1..n : c[i + 1] = ss[i] /\ ss[i] \in Seq(S)
  OBVIOUS
<1> HIDE DEF c
<1>4. PICK g : Flattens(g, ss, n) /\ FlattenSeq(ss) = g[n]
  <2>1. n \in Nat /\ n >= 1
    BY <1>1
  <2>2. \E f : Flattens(f, ss, n)
    BY <2>1, FlattenExists, Zenon
  <2> QED
    BY <1>1, <2>2, FlattenDef, Zenon
<1>5. PICK h : Flattens(h, c, n + 1) /\ FlattenSeq(c) = h[n + 1]
  <2>1. Len(c) \in Nat \ {0} /\ n + 1 \in Nat /\ n + 1 >= 1
    BY <1>1, <1>3
  <2>2. \E f : Flattens(f, c, Len(c))
    BY <1>3, <2>1, FlattenExists
  <2> QED
    BY <1>3, <2>1, <2>2, FlattenDef
<1>6. \A i \in 1..n : g[i] \in Seq(S)
  BY <1>1, <1>4, FlattenTyped
<1>7. g[1] = ss[1] /\ \A i \in 2..n : g[i] = g[i - 1] \o ss[i]
  <2>1. n \in Nat /\ n >= 1
    BY <1>1
  <2> QED
    BY <1>4, <2>1, FlattenAt, Zenon
<1>8. h[1] = c[1] /\ \A i \in 2..(n + 1) : h[i] = h[i - 1] \o c[i]
  <2>1. n + 1 \in Nat /\ n + 1 >= 1
    BY <1>1
  <2> QED
    BY <1>5, <2>1, FlattenAt, Zenon
<1> DEFINE T == {i \in Nat : i \in 1..n /\ h[i + 1] # x \o g[i]}
<1>9. ASSUME T # {}
      PROVE  FALSE
  <2>1. PICK i \in T : \A m \in T : i <= m
    BY <1>9, NatMin
  <2>2. i \in 1..n /\ h[i + 1] # x \o g[i]
    OBVIOUS
  <2>3. h[i + 1] = h[i] \o ss[i]
    <3>1. i + 1 \in 2..(n + 1) /\ (i + 1) - 1 = i
      BY <1>1, <2>2
    <3> QED
      BY <1>3, <1>8, <2>2, <3>1
  <2>4. CASE i = 1
    BY <1>3, <1>7, <1>8, <2>2, <2>3, <2>4
  <2>5. CASE i # 1
    <3>1. i - 1 \in 1..n /\ i - 1 \in Nat /\ i - 1 < i /\ (i - 1) + 1 = i /\ i \in 2..n
      BY <1>1, <2>2, <2>5
    <3>2. i - 1 \notin T
      BY <2>1, <3>1, SMTT(30)
    <3>3. h[i] = x \o g[i - 1]
      BY <3>1, <3>2
    <3>4. (x \o g[i - 1]) \o ss[i] = x \o (g[i - 1] \o ss[i])
      <4>1. g[i - 1] \in Seq(S) /\ ss[i] \in Seq(S)
        BY <1>3, <1>6, <2>2, <3>1
      <4> QED
        BY <1>2, <4>1, Zenon
    <3>5. g[i] = g[i - 1] \o ss[i]
      BY <1>7, <3>1
    <3> QED
      BY <2>2, <2>3, <3>3, <3>4, <3>5
  <2> QED
    BY <2>4, <2>5
<1>10. h[n + 1] = x \o g[n]
  <2>1. n \in 1..n /\ n \in Nat
    BY <1>1
  <2> QED
    BY <1>9, <2>1
<1>11. g[n] \in Seq(S)
  BY <1>1, <1>6
<1> QED
  BY <1>4, <1>5, <1>10, <1>11 DEF c

-----------------------------------------------------------------------------
(* The strings of a text *)

\* The strings from one place on, where end[s] is the Nul behind the string that
\* begins at s.
Follows(f, first, L, piece, end) ==
  f = [s \in first..(L + 2) |->
         IF s > L THEN <<>> ELSE <<piece[s]>> \o f[end[s] + 1]]

LEMMA FollowsExists ==
  ASSUME NEW L \in Nat, NEW piece, NEW end, \A s \in 1..L : end[s] \in s..(L + 1)
  PROVE  \E f : Follows(f, 1, L, piece, end)
<1> DEFINE T == {k \in Nat : k <= L + 1 /\ ~\E f : Follows(f, (L + 2) - k, L, piece, end)}
<1>1. ASSUME T # {}
      PROVE  FALSE
  <2>1. PICK k \in T : \A m \in T : k <= m
    BY <1>1, NatMin
  <2>2. k \in Nat /\ k <= L + 1 /\ ~\E f : Follows(f, (L + 2) - k, L, piece, end)
    OBVIOUS
  <2>3. CASE k = 0
    <3> DEFINE f == [s \in (L + 2)..(L + 2) |-> <<>>]
    <3>1. f = [s \in (L + 2)..(L + 2) |-> IF s > L THEN <<>> ELSE <<piece[s]>> \o f[end[s] + 1]]
      OBVIOUS
    <3>2. (L + 2) - k = L + 2
      BY <2>3
    <3> QED
      BY <2>2, <3>1, <3>2 DEF Follows
  <2>4. CASE k # 0
    <3> DEFINE a == (L + 2) - k
    <3>1. k - 1 \in Nat /\ k - 1 < k /\ k - 1 <= L + 1 /\ (L + 2) - (k - 1) = a + 1
      BY <2>2, <2>4
    <3>2. k - 1 \notin T
      BY <2>1, <3>1
    <3>3. PICK g : Follows(g, a + 1, L, piece, end)
      BY <3>1, <3>2
    <3>4. a \in Int /\ a >= 1 /\ a <= L + 1
      BY <2>2, <2>4
    <3> HIDE DEF a, T
    <3> DEFINE f == [s \in a..(L + 2) |->
                       IF s = a THEN IF a > L THEN <<>> ELSE <<piece[a]>> \o g[end[a] + 1]
                                ELSE g[s]]
    <3>5. ASSUME NEW s \in a..(L + 2), s # a
          PROVE  f[s] = g[s]
      BY <3>5
    <3>6. f[a] = IF a > L THEN <<>> ELSE <<piece[a]>> \o g[end[a] + 1]
      <4>1. a \in a..(L + 2)
        BY <3>4
      <4> QED
        BY <4>1
    <3>7. ASSUME NEW s \in a..(L + 2)
          PROVE  f[s] = IF s > L THEN <<>> ELSE <<piece[s]>> \o f[end[s] + 1]
      <4>1. s <= L => end[s] + 1 \in a..(L + 2) /\ end[s] + 1 # a
        BY <3>4
      <4>2. s <= L => f[end[s] + 1] = g[end[s] + 1]
        BY <3>5, <4>1
      <4>3. CASE s = a
        <5> HIDE DEF f
        <5>1. s > L \/ s <= L
          BY <3>4
        <5> QED
          BY <3>6, <4>2, <4>3, <5>1
      <4>4. CASE s # a
        <5>1. s \in (a + 1)..(L + 2) /\ (s > L \/ s <= L)
          BY <3>4, <4>4
        <5>2. g[s] = IF s > L THEN <<>> ELSE <<piece[s]>> \o g[end[s] + 1]
          BY <3>3, <5>1, Zenon DEF Follows
        <5> HIDE DEF f
        <5> QED
          BY <3>5, <4>2, <4>4, <5>1, <5>2
      <4> QED
        BY <4>3, <4>4
    <3>8. f = [s \in a..(L + 2) |-> IF s > L THEN <<>> ELSE <<piece[s]>> \o f[end[s] + 1]]
      BY <3>7
    <3>9. Follows(f, a, L, piece, end)
      BY <3>8, Zenon DEF Follows
    <3> HIDE DEF f
    <3> QED
      BY <2>2, <3>9 DEF a
  <2> QED
    BY <2>3, <2>4
<1>2. L + 1 \in Nat /\ L + 1 <= L + 1 /\ (L + 2) - (L + 1) = 1
  OBVIOUS
<1>3. \E f : Follows(f, (L + 2) - (L + 1), L, piece, end)
  BY <1>1, <1>2
<1> QED
  BY <1>2, <1>3

\* The first Nul from a place on.
LEMMA EndFound ==
  ASSUME NEW object, Len(object) \in Nat, NEW last \in 1..Len(object), object[last] = Nul,
         NEW s \in 1..last
  PROVE  LET e == EndOfString(object, s)
         IN  e \in s..last /\ object[e] = Nul /\ \A i \in s..(e - 1) : object[i] # Nul
<1> DEFINE e == EndOfString(object, s)
           T == {i \in Nat : i \in s..last /\ object[i] = Nul}
<1>1. last \in T /\ T \in SUBSET Nat
  OBVIOUS
<1>2. PICK n \in T : \A m \in T : n <= m
  BY <1>1, NatMin
<1>3. n \in Nat /\ n \in s..last /\ object[n] = Nul /\ n \in s..Len(object)
  OBVIOUS
<1>4. \A i \in s..(n - 1) : object[i] # Nul
  BY <1>2, <1>3
<1>5. e \in s..Len(object) /\ object[e] = Nul /\ \A i \in s..(e - 1) : object[i] # Nul
  BY <1>3, <1>4, Zenon DEF EndOfString
<1> HIDE DEF e
<1>6. e <= n
  BY <1>3, <1>5
<1>7. e \in s..last
  BY <1>3, <1>5, <1>6
<1> QED
  BY <1>5, <1>7 DEF e

\* The same from the other end.
LEMMA LastOf ==
  ASSUME NEW L \in Nat, NEW T \in SUBSET (1..L), T # {}
  PROVE  \E n \in T : \A m \in T : m <= n
<1> DEFINE U == {k \in Nat : \E m \in T : k = L - m}
<1>1. PICK m \in T : TRUE
  OBVIOUS
<1>2. \A i \in T : L - i \in Nat /\ i \in 1..L
  OBVIOUS
<1>3. U # {}
  BY <1>1, <1>2
<1>4. PICK k \in U : \A j \in U : k <= j
  BY <1>3, NatMin
<1>5. PICK n \in T : k = L - n
  OBVIOUS
<1>6. ASSUME NEW i \in T
      PROVE  i <= n
  <2>1. L - i \in U
    BY <1>2
  <2>2. L - n <= L - i
    BY <1>4, <1>5, <2>1
  <2> HIDE DEF U
  <2> QED
    BY <1>2, <2>2
<1> QED
  BY <1>6

\* from[s] are the strings of a text from s on, end[s] is the Nul behind the first.
Cut(t, from, end) ==
  /\ \A s \in 1..Len(t) :
       /\ end[s] \in s..(Len(t) + 1)
       /\ Terminated(t)[end[s]] = Nul
       /\ \A i \in s..(end[s] - 1) : Terminated(t)[i] # Nul
  /\ \A s \in 1..(Len(t) + 2) : s > Len(t) => from[s] = <<>>
  /\ \A s \in 1..Len(t) :
       from[s] = <<SubSeq(Terminated(t), s, end[s] - 1)>> \o from[end[s] + 1]

LEMMA TerminatedText ==
  ASSUME NEW t \in Seq(Chars)
  PROVE  /\ Terminated(t) \in Seq(Chars \cup {Nul, Blank})
         /\ Len(Terminated(t)) = Len(t) + 1 /\ Terminated(t)[Len(t) + 1] = Nul
         /\ \A i \in 1..Len(t) : Terminated(t)[i] = t[i]
         /\ Len(t) \in Nat
<1>1. t \in Seq(Chars \cup {Nul, Blank})
  BY SeqMonotonic
<1> QED
  BY <1>1 DEF Terminated

\* The loop of case 'a' is such a cut.
LEMMA StringsCut ==
  ASSUME NEW t \in Seq(Chars)
  PROVE  \E from, end : Cut(t, from, end) /\ Strings(t) = from[1]
<1> DEFINE L == Len(t)
           object == Terminated(t)
           end == [s \in 1..L |-> EndOfString(object, s)]
           piece == [s \in 1..L |-> SubSeq(object, s, end[s] - 1)]
<1>1. /\ L \in Nat /\ object \in Seq(Chars \cup {Nul, Blank})
      /\ Len(object) = L + 1 /\ object[L + 1] = Nul
  BY TerminatedText
<1> HIDE DEF object
<1>2. ASSUME NEW s \in 1..L
      PROVE  /\ end[s] \in s..(L + 1) /\ object[end[s]] = Nul
             /\ \A i \in s..(end[s] - 1) : object[i] # Nul
  <2>1. s \in 1..(L + 1) /\ L + 1 \in 1..Len(object)
    BY <1>1
  <2>2. Len(object) \in Nat
    BY <1>1
  <2>3. LET e == EndOfString(object, s)
        IN  e \in s..(L + 1) /\ object[e] = Nul /\ \A i \in s..(e - 1) : object[i] # Nul
    BY <1>1, <2>1, <2>2, EndFound, Zenon
  <2>4. end[s] = EndOfString(object, s)
    OBVIOUS
  <2> QED
    BY <2>3, <2>4, Zenon
<1>3. \E f : Follows(f, 1, L, piece, end)
  <2> HIDE DEF end, piece
  <2> QED
    BY <1>1, <1>2, FollowsExists
<1> DEFINE from[s \in 1..(Len(t) + 2)] ==
             IF s > Len(t) THEN <<>>
             ELSE LET e == EndOfString(object, s)
                  IN  <<SubSeq(object, s, e - 1)>> \o from[e + 1]
<1>4. ASSUME NEW f, Follows(f, 1, L, piece, end)
      PROVE  f = [s \in 1..(Len(t) + 2) |->
                    IF s > Len(t) THEN <<>>
                    ELSE LET e == EndOfString(object, s)
                         IN  <<SubSeq(object, s, e - 1)>> \o f[e + 1]]
  <2>1. ASSUME NEW s \in 1..(L + 2), ~(s > L)
        PROVE  /\ end[s] = EndOfString(object, s)
               /\ piece[s] = SubSeq(object, s, EndOfString(object, s) - 1)
    <3>1. s \in 1..L
      BY <1>1, <2>1
    <3> QED
      BY <3>1
  <2> HIDE DEF piece, end
  <2>2. f = [s \in 1..(L + 2) |-> IF s > L THEN <<>> ELSE <<piece[s]>> \o f[end[s] + 1]]
    BY <1>4 DEF Follows
  <2> QED
    BY <2>1, <2>2, Zenon
<1>5. from = CHOOSE f : f = [s \in 1..(Len(t) + 2) |->
                    IF s > Len(t) THEN <<>>
                    ELSE LET e == EndOfString(object, s)
                         IN  <<SubSeq(object, s, e - 1)>> \o f[e + 1]]
  OBVIOUS
<1>6. from = [s \in 1..(Len(t) + 2) |->
                    IF s > Len(t) THEN <<>>
                    ELSE LET e == EndOfString(object, s)
                         IN  <<SubSeq(object, s, e - 1)>> \o from[e + 1]]
  BY <1>3, <1>4, <1>5, Zenon
<1>7. Strings(t) = from[1]
  BY DEF Strings, object
<1> HIDE DEF from
<1>8. \A s \in 1..(L + 2) : s > L => from[s] = <<>>
  BY <1>6, Zenon
<1>9. ASSUME NEW s \in 1..L
      PROVE  from[s] = <<SubSeq(object, s, end[s] - 1)>> \o from[end[s] + 1]
  <2>1. s \in 1..(Len(t) + 2) /\ ~(s > Len(t))
    BY <1>1
  <2>2. end[s] = EndOfString(object, s)
    OBVIOUS
  <2> HIDE DEF end, piece
  <2> QED
    BY <1>6, <2>1, <2>2, Zenon
<1> HIDE DEF end, piece
<1>10. Cut(t, from, end)
  BY <1>2, <1>8, <1>9 DEF Cut, object
<1> QED
  BY <1>7, <1>10

-----------------------------------------------------------------------------
(* Strings put behind each other *)

\* The characters of texts and of what becomes of them.
Alphabet == Chars \cup {Nul, Blank}

\* Strings with a Nul behind each, with a blank before each, and with blanks
\* between them.
Ends(ss) == [i \in DOMAIN ss |-> Append(ss[i], Nul)]
Blanks(ss) == [i \in DOMAIN ss |-> <<Blank>> \o ss[i]]
Between(ss) == [i \in DOMAIN ss |-> IF i = 1 THEN ss[i] ELSE <<Blank>> \o ss[i]]

LEMMA FlattenNext ==
  ASSUME NEW S, NEW x \in Seq(S), NEW ss \in Seq(Seq(S))
  PROVE  /\ ss = <<>> => FlattenSeq(<<x>> \o ss) = x
         /\ ss # <<>> => FlattenSeq(<<x>> \o ss) = x \o FlattenSeq(ss)
<1>1. ASSUME ss = <<>>
      PROVE  FlattenSeq(<<x>> \o ss) = x
  <2>1. <<x>> \o ss = <<x>>
    BY <1>1
  <2> QED
    BY <2>1, FlattenOne
<1> QED
  BY <1>1, FlattenCons

LEMMA ConsParts ==
  ASSUME NEW S, NEW p \in S, NEW ss \in Seq(S), NEW c, c = <<p>> \o ss
  PROVE  /\ c \in Seq(S) /\ c # <<>> /\ Len(c) = Len(ss) + 1 /\ c[1] = p
         /\ \A i \in 1..Len(ss) : c[i + 1] = ss[i]
         /\ \A i \in 2..Len(c) : i - 1 \in 1..Len(ss) /\ c[i] = ss[i - 1]
  OBVIOUS

\* Two sequences with the same first and, behind it, the same rest.
LEMMA ConsEqual ==
  ASSUME NEW S, NEW p \in S, NEW ss \in Seq(S), NEW d \in Seq(S),
         Len(d) = Len(ss) + 1, d[1] = p, \A i \in 2..Len(d) : d[i] = ss[i - 1]
  PROVE  d = <<p>> \o ss
<1>1. PICK c : c = <<p>> \o ss
  OBVIOUS
<1>2. /\ c \in Seq(S) /\ Len(c) = Len(ss) + 1 /\ c[1] = p
      /\ \A i \in 2..Len(c) : c[i] = ss[i - 1]
  BY <1>1, ConsParts
<1>3. \A i \in 1..Len(d) : i = 1 \/ i \in 2..Len(d)
  OBVIOUS
<1>4. \A i \in 1..Len(d) : d[i] = c[i]
  BY <1>2, <1>3
<1>5. d = c
  BY <1>2, <1>4, SeqEqual
<1> QED
  BY <1>1, <1>5

\* They are sequences of strings still, and as many.
LEMMA SeqFromFunction ==
  ASSUME NEW S, NEW n \in Nat, NEW f \in [1..n -> S]
  PROVE  f \in Seq(S) /\ Len(f) = n
OBVIOUS

LEMMA EndsTyped ==
  ASSUME NEW ss \in Seq(Seq(Alphabet))
  PROVE  /\ Ends(ss) \in Seq(Seq(Alphabet)) /\ Len(Ends(ss)) = Len(ss)
         /\ Blanks(ss) \in Seq(Seq(Alphabet)) /\ Len(Blanks(ss)) = Len(ss)
         /\ Between(ss) \in Seq(Seq(Alphabet)) /\ Len(Between(ss)) = Len(ss)
<1>1. Nul \in Alphabet /\ Blank \in Alphabet /\ <<Blank>> \in Seq(Alphabet)
  BY DEF Alphabet
<1>2. Len(ss) \in Nat /\ DOMAIN ss = 1..Len(ss) /\ \A i \in 1..Len(ss) : ss[i] \in Seq(Alphabet)
  OBVIOUS
<1>3. \A i \in 1..Len(ss) : Append(ss[i], Nul) \in Seq(Alphabet)
  BY <1>1, <1>2
<1>4. \A i \in 1..Len(ss) : <<Blank>> \o ss[i] \in Seq(Alphabet)
  BY <1>1, <1>2, ConcatProperties
<1>5. Ends(ss) \in Seq(Seq(Alphabet)) /\ Len(Ends(ss)) = Len(ss)
  <2>1. Ends(ss) \in [1..Len(ss) -> Seq(Alphabet)]
    BY <1>2, <1>3 DEF Ends
  <2> QED
    BY <1>2, <2>1, SeqFromFunction, Zenon
<1>6. Blanks(ss) \in Seq(Seq(Alphabet)) /\ Len(Blanks(ss)) = Len(ss)
  <2>1. Blanks(ss) \in [1..Len(ss) -> Seq(Alphabet)]
    BY <1>2, <1>4 DEF Blanks
  <2> QED
    BY <1>2, <2>1, SeqFromFunction, Zenon
<1>7. Between(ss) \in Seq(Seq(Alphabet)) /\ Len(Between(ss)) = Len(ss)
  <2>1. Between(ss) \in [1..Len(ss) -> Seq(Alphabet)]
    BY <1>2, <1>4 DEF Between
  <2> QED
    BY <1>2, <2>1, SeqFromFunction, Zenon
<1> QED
  BY <1>5, <1>6, <1>7

\* The first string can be taken off each.
LEMMA ConsMapped ==
  ASSUME NEW p \in Seq(Alphabet), NEW ss \in Seq(Seq(Alphabet)), NEW c, c = <<p>> \o ss
  PROVE  /\ Ends(c) = <<Append(p, Nul)>> \o Ends(ss)
         /\ Blanks(c) = <<(<<Blank>> \o p)>> \o Blanks(ss)
         /\ Between(c) = <<p>> \o Blanks(ss)
<1>1. /\ c \in Seq(Seq(Alphabet)) /\ Len(c) = Len(ss) + 1 /\ c[1] = p
      /\ \A i \in 2..Len(c) : i - 1 \in 1..Len(ss) /\ c[i] = ss[i - 1]
  BY ConsParts
<1>2. DOMAIN c = 1..Len(c) /\ DOMAIN ss = 1..Len(ss) /\ Len(c) \in Nat /\ Len(ss) \in Nat
  BY <1>1
<1>3. 1 \in 1..Len(c) /\ \A i \in 2..Len(c) : i \in 1..Len(c) /\ i # 1
  BY <1>1, <1>2
<1>4. /\ Ends(c) \in Seq(Seq(Alphabet)) /\ Len(Ends(c)) = Len(c)
      /\ Blanks(c) \in Seq(Seq(Alphabet)) /\ Len(Blanks(c)) = Len(c)
      /\ Between(c) \in Seq(Seq(Alphabet)) /\ Len(Between(c)) = Len(c)
  BY <1>1, EndsTyped
<1>5. /\ Ends(ss) \in Seq(Seq(Alphabet)) /\ Len(Ends(ss)) = Len(ss)
      /\ Blanks(ss) \in Seq(Seq(Alphabet)) /\ Len(Blanks(ss)) = Len(ss)
  BY EndsTyped
<1>6. Append(p, Nul) \in Seq(Alphabet) /\ <<Blank>> \o p \in Seq(Alphabet)
  BY DEF Alphabet
<1>7. Ends(c) = <<Append(p, Nul)>> \o Ends(ss)
  <2>1. Ends(c)[1] = Append(p, Nul)
    BY <1>1, <1>2, <1>3, Zenon DEF Ends
  <2>2. \A i \in 2..Len(c) : Ends(c)[i] = Ends(ss)[i - 1]
    BY <1>1, <1>2, <1>3, Zenon DEF Ends
  <2>3. /\ Len(Ends(c)) = Len(Ends(ss)) + 1
        /\ \A i \in 2..Len(Ends(c)) : Ends(c)[i] = Ends(ss)[i - 1]
    BY <1>1, <1>4, <1>5, <2>2
  <2> QED
    BY <1>4, <1>5, <1>6, <2>1, <2>3, ConsEqual, Zenon
<1>8. Blanks(c) = <<(<<Blank>> \o p)>> \o Blanks(ss)
  <2>1. Blanks(c)[1] = <<Blank>> \o p
    BY <1>1, <1>2, <1>3, Zenon DEF Blanks
  <2>2. \A i \in 2..Len(c) : Blanks(c)[i] = Blanks(ss)[i - 1]
    BY <1>1, <1>2, <1>3, Zenon DEF Blanks
  <2>3. /\ Len(Blanks(c)) = Len(Blanks(ss)) + 1
        /\ \A i \in 2..Len(Blanks(c)) : Blanks(c)[i] = Blanks(ss)[i - 1]
    BY <1>1, <1>4, <1>5, <2>2
  <2> QED
    BY <1>4, <1>5, <1>6, <2>1, <2>3, ConsEqual, Zenon
<1>9. Between(c) = <<p>> \o Blanks(ss)
  <2>1. Between(c)[1] = p
    BY <1>1, <1>2, <1>3, Zenon DEF Between
  <2>2. \A i \in 2..Len(c) : Between(c)[i] = Blanks(ss)[i - 1]
    BY <1>1, <1>2, <1>3, Zenon DEF Between, Blanks
  <2>3. /\ Len(Between(c)) = Len(Blanks(ss)) + 1
        /\ \A i \in 2..Len(Between(c)) : Between(c)[i] = Blanks(ss)[i - 1]
    BY <1>1, <1>4, <1>5, <2>2
  <2> QED
    BY <1>4, <1>5, <1>6, <2>1, <2>3, ConsEqual, Zenon
<1> QED
  BY <1>7, <1>8, <1>9

\* A piece of a sequence and the one that is longer by one.
LEMMA Grown ==
  ASSUME NEW S, NEW o \in Seq(S), NEW s \in 1..Len(o), NEW e \in s..Len(o)
  PROVE  /\ SubSeq(o, s, e - 1) \in Seq(S) /\ SubSeq(o, s, e) \in Seq(S)
         /\ Append(SubSeq(o, s, e - 1), o[e]) = SubSeq(o, s, e)
<1>1. /\ s \in Int /\ e \in Int /\ e - 1 \in Int /\ e \in 1..Len(o) /\ o[e] \in S
      /\ \A i \in s..e : o[i] \in S
      /\ \A i \in s..(e - 1) : o[i] \in S
  OBVIOUS
<1>2. SubSeq(o, s, e - 1) \in Seq(S) /\ SubSeq(o, s, e) \in Seq(S)
  BY <1>1, SubSeqProperties
<1>3. SubSeq(o, s, e) = SubSeq(o, s, e - 1) \o <<o[e]>>
  BY SubSeqRecursiveSecond
<1>4. Append(SubSeq(o, s, e - 1), o[e]) = SubSeq(o, s, e - 1) \o <<o[e]>>
  BY <1>1, <1>2, AppendIsConcat
<1> QED
  BY <1>2, <1>3, <1>4

\* The string that begins at s.
LEMMA Piece ==
  ASSUME NEW o \in Seq(Alphabet), NEW s \in 1..Len(o), NEW e \in s..Len(o),
         \A i \in s..(e - 1) : o[i] # Nul,
         NEW p, p = SubSeq(o, s, e - 1)
  PROVE  p \in Seq(Alphabet) /\ Nul \notin Range(p)
<1>1. s \in Int /\ e - 1 \in Int /\ \A i \in s..(e - 1) : o[i] \in Alphabet
  OBVIOUS
<1>2. /\ p \in Seq(Alphabet)
      /\ Len(p) = IF s <= e - 1 THEN (e - 1) - s + 1 ELSE 0
      /\ \A i \in 1..((e - 1) - s + 1) : p[i] = o[s + i - 1]
  BY <1>1, SubSeqProperties
<1>3. Len(p) <= (e - 1) - s + 1
  <2>1. Len(p) \in Nat
    BY <1>2
  <2>2. CASE s <= e - 1
    BY <1>2, <2>2
  <2>3. CASE ~(s <= e - 1)
    <3>1. Len(p) = 0
      BY <1>2, <2>3
    <3>2. (e - 1) - s + 1 >= 0
      OBVIOUS
    <3> QED
      BY <3>1, <3>2
  <2> QED
    BY <2>2, <2>3
<1>4. \A i \in 1..Len(p) : i \in 1..((e - 1) - s + 1) /\ s + i - 1 \in s..(e - 1)
  BY <1>2, <1>3
<1>5. \A i \in 1..Len(p) : p[i] # Nul
  BY <1>2, <1>4
<1>6. DOMAIN p = 1..Len(p)
  BY <1>2
<1> QED
  BY <1>2, <1>5, <1>6 DEF Range

\* There is no Nul in any of these strings.
NulFree(ss) == ss \in Seq(Seq(Alphabet)) /\ \A i \in DOMAIN ss : Nul \notin Range(ss[i])

LEMMA NulFreeCons ==
  ASSUME NEW p \in Seq(Alphabet), Nul \notin Range(p), NEW ss, NulFree(ss)
  PROVE  NulFree(<<p>> \o ss)
<1>1. PICK c : c = <<p>> \o ss
  OBVIOUS
<1>2. ss \in Seq(Seq(Alphabet)) /\ DOMAIN ss = 1..Len(ss)
  BY DEF NulFree
<1>3. /\ c \in Seq(Seq(Alphabet)) /\ c[1] = p
      /\ \A i \in 2..Len(c) : i - 1 \in 1..Len(ss) /\ c[i] = ss[i - 1]
  BY <1>1, <1>2, ConsParts
<1>4. DOMAIN c = 1..Len(c) /\ \A i \in 1..Len(c) : i = 1 \/ i \in 2..Len(c)
  BY <1>3
<1>5. \A i \in 1..Len(c) : Nul \notin Range(c[i])
  BY <1>2, <1>3, <1>4 DEF NulFree
<1> QED
  BY <1>1, <1>3, <1>4, <1>5 DEF NulFree

\* At s begins a string p, which ends before e.
StringAt(t, from, s, e, p) ==
  /\ Terminated(t) \in Seq(Alphabet) /\ Len(Terminated(t)) = Len(t) + 1
  /\ s \in 1..Len(Terminated(t)) /\ e \in s..Len(Terminated(t)) /\ e \in s..(Len(t) + 1)
  /\ Terminated(t)[e] = Nul /\ \A i \in s..(e - 1) : Terminated(t)[i] # Nul
  /\ p = SubSeq(Terminated(t), s, e - 1) /\ p \in Seq(Alphabet) /\ Nul \notin Range(p)
  /\ from[s] = <<p>> \o from[e + 1]
  /\ e + 1 \in 1..(Len(t) + 2) /\ e + 1 > s
  /\ e + 1 > Len(t) => from[e + 1] = <<>>

LEMMA CutAt ==
  ASSUME NEW t \in Seq(Chars), NEW from, NEW end, Cut(t, from, end), NEW s \in 1..Len(t)
  PROVE  \E e, p : StringAt(t, from, s, e, p)
<1> DEFINE o == Terminated(t)
           e == end[s]
           p == SubSeq(o, s, e - 1)
<1>1. o \in Seq(Alphabet) /\ Len(o) = Len(t) + 1 /\ Len(t) \in Nat
  BY TerminatedText DEF Alphabet
<1>2. /\ e \in s..(Len(t) + 1) /\ o[e] = Nul /\ \A i \in s..(e - 1) : o[i] # Nul
      /\ from[s] = <<p>> \o from[e + 1]
  BY Zenon DEF Cut
<1> HIDE DEF o, e
<1>3. s \in 1..Len(o) /\ e \in s..Len(o)
  BY <1>1, <1>2
<1>4. p \in Seq(Alphabet) /\ Nul \notin Range(p)
  BY <1>1, <1>2, <1>3, Piece
<1> HIDE DEF p
<1>5. e + 1 \in 1..(Len(t) + 2) /\ e + 1 > s
  BY <1>1, <1>2
<1>6. e + 1 > Len(t) => from[e + 1] = <<>>
  BY <1>5, Zenon DEF Cut
<1>7. p = SubSeq(o, s, e - 1)
  BY DEF p
<1>8. StringAt(t, from, s, e, p)
  BY <1>1, <1>2, <1>3, <1>4, <1>5, <1>6, <1>7, Zenon DEF StringAt, o
<1> QED
  BY <1>8

LEMMA CutNulFree ==
  ASSUME NEW t \in Seq(Chars), NEW from, NEW end, Cut(t, from, end)
  PROVE  \A s \in 1..(Len(t) + 2) : NulFree(from[s])
<1> DEFINE T == {s \in 1..Len(t) : ~NulFree(from[s])}
<1>1. ASSUME NEW s \in 1..(Len(t) + 2), s > Len(t)
      PROVE  NulFree(from[s])
  <2>1. from[s] = <<>>
    BY <1>1 DEF Cut
  <2>2. DOMAIN <<>> = {} /\ <<>> \in Seq(Seq(Alphabet))
    OBVIOUS
  <2> QED
    BY <2>1, <2>2 DEF NulFree
<1>2. ASSUME T # {}
      PROVE  FALSE
  <2>1. T \in SUBSET (1..Len(t)) /\ Len(t) \in Nat
    OBVIOUS
  <2>2. PICK s \in T : \A m \in T : m <= s
    BY <1>2, <2>1, LastOf
  <2>3. s \in 1..Len(t) /\ ~NulFree(from[s])
    OBVIOUS
  <2>4. PICK e, p : StringAt(t, from, s, e, p)
    BY <2>3, CutAt
  <2>5. /\ p \in Seq(Alphabet) /\ Nul \notin Range(p)
        /\ from[s] = <<p>> \o from[e + 1]
        /\ e + 1 \in 1..(Len(t) + 2) /\ e + 1 > s
    BY <2>4 DEF StringAt
  <2>6. e + 1 \notin T
    BY <2>1, <2>2, <2>3, <2>5
  <2>7. NulFree(from[e + 1])
    <3>1. CASE e + 1 > Len(t)
      BY <1>1, <2>5, <3>1
    <3>2. CASE ~(e + 1 > Len(t))
      <4>1. e + 1 \in 1..Len(t)
        BY <2>1, <2>5, <3>2
      <4> QED
        BY <2>6, <4>1
    <3> QED
      BY <3>1, <3>2
  <2> QED
    BY <2>3, <2>5, <2>7, NulFreeCons
<1>3. \A s \in 1..(Len(t) + 2) : s > Len(t) \/ s \in 1..Len(t)
  OBVIOUS
<1> QED
  BY <1>1, <1>2, <1>3

LEMMA CutNotEmpty ==
  ASSUME NEW t \in Seq(Chars), NEW from, NEW end, Cut(t, from, end), NEW s \in 1..Len(t)
  PROVE  from[s] # <<>>
<1>1. PICK e, p : StringAt(t, from, s, e, p)
  BY CutAt
<1>2. p \in Seq(Alphabet) /\ from[s] = <<p>> \o from[e + 1] /\ e + 1 \in 1..(Len(t) + 2)
  BY <1>1 DEF StringAt
<1>3. from[e + 1] \in Seq(Seq(Alphabet))
  BY <1>2, CutNulFree DEF NulFree
<1> QED
  BY <1>2, <1>3, ConsParts

\* Where a text ends: at its last character when that is a Nul, and otherwise at
\* the one that read_file() puts behind it.
EndOfText(t) == IF t[Len(t)] = Nul THEN Len(t) ELSE Len(t) + 1

LEMMA LastString ==
  ASSUME NEW t \in Seq(Chars), Len(t) # 0, NEW s \in 1..Len(t), NEW e \in s..(Len(t) + 1),
         Terminated(t)[e] = Nul, \A i \in s..(e - 1) : Terminated(t)[i] # Nul,
         e + 1 > Len(t)
  PROVE  e = EndOfText(t)
<1>1. /\ \A i \in 1..Len(t) : Terminated(t)[i] = t[i]
      /\ Len(t) \in 1..Len(t)
  BY TerminatedText
<1>2. e = Len(t) \/ e = Len(t) + 1
  OBVIOUS
<1>3. CASE e = Len(t)
  BY <1>1, <1>3 DEF EndOfText
<1>4. CASE e = Len(t) + 1
  <2>1. Len(t) \in s..(e - 1)
    BY <1>4
  <2>2. t[Len(t)] # Nul
    BY <1>1, <2>1
  <2> QED
    BY <1>4, <2>2 DEF EndOfText
<1> QED
  BY <1>2, <1>3, <1>4

\* The strings from one on, each with its Nul, are the text from there on.
LEMMA CutJoined ==
  ASSUME NEW t \in Seq(Chars), NEW from, NEW end, Cut(t, from, end), Len(t) # 0
  PROVE  \A s \in 1..Len(t) :
           FlattenSeq(Ends(from[s])) = SubSeq(Terminated(t), s, EndOfText(t))
<1> DEFINE o == Terminated(t)
           M == EndOfText(t)
           T == {s \in 1..Len(t) : FlattenSeq(Ends(from[s])) # SubSeq(o, s, M)}
<1>1. /\ Len(t) \in Nat /\ Len(t) >= 1 /\ o \in Seq(Alphabet) /\ Len(o) = Len(t) + 1
  BY TerminatedText DEF Alphabet
<1>2. M \in {Len(t), Len(t) + 1}
  BY DEF EndOfText
<1> HIDE DEF M
<1>3. ASSUME T # {}
      PROVE  FALSE
  <2>1. T \in SUBSET (1..Len(t))
    OBVIOUS
  <2>2. PICK s \in T : \A m \in T : m <= s
    BY <1>1, <1>3, <2>1, LastOf
  <2>3. s \in 1..Len(t) /\ FlattenSeq(Ends(from[s])) # SubSeq(o, s, M)
    OBVIOUS
  <2> PICK e, p : StringAt(t, from, s, e, p)
    BY <2>3, CutAt
  <2> DEFINE rest == from[e + 1]
  <2>4. /\ s \in 1..Len(o) /\ e \in s..Len(o) /\ o[e] = Nul /\ \A i \in s..(e - 1) : o[i] # Nul
        /\ p = SubSeq(o, s, e - 1) /\ p \in Seq(Alphabet) /\ from[s] = <<p>> \o rest
        /\ e + 1 \in 1..(Len(t) + 2) /\ e + 1 > s
        /\ e + 1 > Len(t) => rest = <<>>
    BY DEF StringAt
  <2>5. rest \in Seq(Seq(Alphabet))
    BY <2>4, CutNulFree DEF NulFree
  <2>6. Append(p, Nul) = SubSeq(o, s, e) /\ Append(p, Nul) \in Seq(Alphabet)
    BY <1>1, <2>4, Grown
  <2>7. Ends(from[s]) = <<Append(p, Nul)>> \o Ends(rest)
    BY <2>4, <2>5, ConsMapped
  <2>8. Ends(rest) \in Seq(Seq(Alphabet)) /\ Len(Ends(rest)) = Len(rest)
    BY <2>5, EndsTyped
  <2>9. CASE e + 1 > Len(t)
    <3>1. rest = <<>>
      BY <2>4, <2>9
    <3>2. Ends(rest) = <<>>
      <4>1. Len(rest) = 0
        BY <3>1
      <4> HIDE DEF rest
      <4> QED
        BY <2>8, <4>1
    <3>3. FlattenSeq(Ends(from[s])) = Append(p, Nul)
      BY <2>6, <2>7, <2>8, <3>2, FlattenNext
    <3>4. e = M
      <4>1. e \in s..(Len(t) + 1)
        BY <1>1, <2>4
      <4> QED
        BY <2>3, <2>4, <2>9, <4>1, LastString DEF M
    <3> QED
      BY <2>3, <2>6, <3>3, <3>4
  <2>10. CASE ~(e + 1 > Len(t))
    <3>1. e + 1 \in 1..Len(t) /\ e + 1 \notin T
      <4>1. e + 1 \in 1..Len(t) /\ ~(e + 1 <= s)
        BY <1>1, <2>1, <2>4, <2>10
      <4> QED
        BY <2>2, <4>1
    <3>2. FlattenSeq(Ends(rest)) = SubSeq(o, e + 1, M)
      BY <3>1
    <3>3. Ends(rest) # <<>>
      <4>1. rest # <<>>
        BY <3>1, CutNotEmpty
      <4>2. Len(rest) # 0
        BY <2>5, <4>1
      <4> HIDE DEF rest
      <4> QED
        BY <2>8, <4>2
    <3>4. FlattenSeq(Ends(from[s])) = SubSeq(o, s, e) \o SubSeq(o, e + 1, M)
      <4>1. FlattenSeq(<<Append(p, Nul)>> \o Ends(rest)) = Append(p, Nul) \o FlattenSeq(Ends(rest))
        BY <2>6, <2>8, <3>3, FlattenNext, Zenon
      <4> QED
        BY <2>6, <2>7, <3>2, <4>1, Zenon
    <3>5. SubSeq(o, s, e) \o SubSeq(o, e + 1, M) = SubSeq(o, s, M)
      <4>1. s \in 1..(Len(o) + 1) /\ e \in (s - 1)..Len(o) /\ M \in e..Len(o)
        <5>1. /\ Len(t) \in Nat /\ Len(o) = Len(t) + 1
              /\ M = Len(t) \/ M = Len(t) + 1
          BY <1>1, <1>2
        <5>2. s \in 1..Len(o) /\ e \in s..Len(o) /\ e + 1 \in 1..Len(t)
          BY <2>4, <3>1
        <5> HIDE DEF o, T
        <5> QED
          BY <5>1, <5>2
      <4> QED
        BY <1>1, <4>1, ConcatAdjacentSubSeq
    <3> QED
      BY <2>3, <3>4, <3>5
  <2> QED
    BY <2>9, <2>10
<1> QED
  BY <1>3 DEF M

-----------------------------------------------------------------------------
(* The blanks of cmndline *)

\* What get_proc_cmndline() leaves of a text.
Blanked(t) ==
  [i \in 1..(Len(t) + 1) |-> IF i < Len(t) /\ t[i] = Nul THEN Blank ELSE Terminated(t)[i]]

LEMMA BlankedText ==
  ASSUME NEW t \in Seq(Chars), Len(t) # 0, NEW b, b = Blanked(t)
  PROVE  /\ b \in Seq(Alphabet) /\ Len(b) = Len(t) + 1
         /\ \A i \in 1..(Len(t) + 1) : Terminated(t)[i] # Nul => b[i] = Terminated(t)[i]
         /\ \A i \in 1..(Len(t) - 1) : Terminated(t)[i] = Nul => b[i] = Blank
         /\ EndOfText(t) \in Len(t)..(Len(t) + 1) /\ b[EndOfText(t)] = Nul
         /\ \A i \in 1..(EndOfText(t) - 1) : b[i] # Nul
<1> DEFINE o == Terminated(t)
           L == Len(t)
<1>1. /\ L \in Nat /\ L >= 1 /\ o \in Seq(Alphabet) /\ Len(o) = L + 1 /\ o[L + 1] = Nul
      /\ \A i \in 1..L : o[i] = t[i]
  BY TerminatedText DEF Alphabet
<1>2. \A i \in 1..(L + 1) : o[i] \in Alphabet
  BY <1>1
<1>3. \A i \in 1..(L + 1) : b[i] = IF i < L /\ t[i] = Nul THEN Blank ELSE o[i]
  BY DEF Blanked
<1>4. b \in Seq(Alphabet) /\ Len(b) = L + 1
  <2>1. b \in [1..(L + 1) -> Alphabet]
    BY <1>2 DEF Blanked, Alphabet
  <2> QED
    BY <1>1, <2>1
<1> HIDE DEF o
<1>5. \A i \in 1..(L + 1) : o[i] # Nul => b[i] = o[i]
  <2> SUFFICES ASSUME NEW i \in 1..(L + 1), o[i] # Nul
               PROVE  ~(i < L /\ t[i] = Nul)
    BY <1>3
  <2> QED
    BY <1>1
<1>6. \A i \in 1..(L - 1) : o[i] = Nul => b[i] = Blank
  <2> SUFFICES ASSUME NEW i \in 1..(L - 1), o[i] = Nul
               PROVE  i \in 1..(L + 1) /\ i < L /\ t[i] = Nul
    BY <1>3
  <2> QED
    BY <1>1
<1>7. \A i \in 1..(L - 1) : b[i] # Nul
  <2> SUFFICES ASSUME NEW i \in 1..(L - 1)
               PROVE  b[i] # Nul
    OBVIOUS
  <2>1. i \in 1..(L + 1)
    BY <1>1
  <2>2. Blank # Nul
    BY DEF Blank, Nul
  <2> QED
    BY <1>5, <1>6, <2>1, <2>2
<1>8. b[L] = o[L] /\ b[L + 1] = Nul /\ o[L] = t[L]
  <2>1. L \in 1..(L + 1) /\ L + 1 \in 1..(L + 1) /\ ~(L < L) /\ ~(L + 1 < L) /\ L \in 1..L
    BY <1>1
  <2> QED
    BY <1>1, <1>3, <2>1
<1>9. CASE t[L] = Nul
  <2>1. EndOfText(t) = L
    BY <1>9 DEF EndOfText
  <2> QED
    BY <1>1, <1>4, <1>5, <1>6, <1>7, <1>8, <1>9, <2>1 DEF o
<1>10. CASE t[L] # Nul
  <2>1. EndOfText(t) = L + 1
    BY <1>10 DEF EndOfText
  <2>2. \A i \in 1..((L + 1) - 1) : b[i] # Nul
    <3>1. \A i \in 1..((L + 1) - 1) : i \in 1..(L - 1) \/ i = L
      BY <1>1
    <3> QED
      BY <1>7, <1>8, <1>10, <3>1
  <2>3. L + 1 \in L..(L + 1)
    BY <1>1
  <2> QED
    BY <1>4, <1>5, <1>6, <1>8, <2>1, <2>2, <2>3 DEF o
<1> QED
  BY <1>9, <1>10

\* A piece that has no Nul is left as it is.
LEMMA SamePiece ==
  ASSUME NEW S, NEW o \in Seq(S), NEW b \in Seq(S), Len(b) = Len(o),
         NEW s \in 1..Len(o), NEW e \in s..Len(o), \A i \in s..(e - 1) : b[i] = o[i]
  PROVE  SubSeq(o, s, e - 1) = SubSeq(b, s, e - 1)
<1> DEFINE p == SubSeq(o, s, e - 1)
           q == SubSeq(b, s, e - 1)
<1>1. /\ s \in Int /\ e - 1 \in Int
      /\ \A i \in s..(e - 1) : o[i] \in S /\ b[i] \in S
  OBVIOUS
<1>2. /\ p \in Seq(S) /\ Len(p) = IF s <= e - 1 THEN (e - 1) - s + 1 ELSE 0
      /\ \A i \in 1..((e - 1) - s + 1) : p[i] = o[s + i - 1]
  BY <1>1, SubSeqProperties
<1>3. /\ q \in Seq(S) /\ Len(q) = IF s <= e - 1 THEN (e - 1) - s + 1 ELSE 0
      /\ \A i \in 1..((e - 1) - s + 1) : q[i] = b[s + i - 1]
  BY <1>1, SubSeqProperties
<1> HIDE DEF p, q
<1>4. Len(p) = Len(q)
  BY <1>2, <1>3, Zenon
<1>5. Len(p) = (e - 1) - s + 1
  <2>1. CASE s <= e - 1
    BY <1>2, <2>1
  <2>2. CASE ~(s <= e - 1)
    <3>1. Len(p) = 0
      BY <1>2, <2>2
    <3>2. (e - 1) - s + 1 = 0
      BY <2>2
    <3> QED
      BY <3>1, <3>2
  <2> QED
    BY <2>1, <2>2
<1>6. \A i \in 1..Len(p) : i \in 1..((e - 1) - s + 1) /\ s + i - 1 \in s..(e - 1)
  BY <1>5
<1>7. \A i \in 1..Len(p) : p[i] = q[i]
  BY <1>2, <1>3, <1>6
<1>8. p = q
  BY <1>2, <1>3, <1>4, <1>7, SeqEqual
<1> QED
  BY <1>8 DEF p, q

LEMMA JoinedThree ==
  ASSUME NEW S, NEW p \in Seq(S), NEW r \in Seq(S), NEW c \in S
  PROVE  Append(p, c) \o r = p \o (<<c>> \o r)
<1>1. <<c>> \in Seq(S)
  OBVIOUS
<1>2. PICK w \in Seq(S) : w = <<c>>
  BY <1>1, Zenon
<1>3. (p \o w) \o r = p \o (w \o r)
  BY ConcatAssociative
<1>4. Append(p, c) = p \o w
  BY <1>2, AppendIsConcat
<1> QED
  BY <1>2, <1>3, <1>4, Zenon

LEMMA JoinedTexts ==
  /\ \A x, y \in Seq(Alphabet) : Append(x, Blank) \o y = x \o (<<Blank>> \o y)
  /\ \A w, x, y \in Seq(Alphabet) : (w \o x) \o y = w \o (x \o y)
<1>1. ASSUME NEW x \in Seq(Alphabet), NEW y \in Seq(Alphabet)
      PROVE  Append(x, Blank) \o y = x \o (<<Blank>> \o y)
  <2>1. Blank \in Alphabet
    BY DEF Alphabet
  <2> QED
    BY <2>1, JoinedThree
<1>2. ASSUME NEW w \in Seq(Alphabet), NEW x \in Seq(Alphabet), NEW y \in Seq(Alphabet)
      PROVE  (w \o x) \o y = w \o (x \o y)
  BY ConcatAssociative
<1> QED
  BY <1>1, <1>2, Zenon

\* What a string, a blank and the rest make together.
LEMMA BlankBetween ==
  ASSUME NEW b \in Seq(Alphabet), NEW s \in 1..Len(b), NEW e \in s..Len(b), b[e] = Blank,
         NEW m \in e..Len(b)
  PROVE  /\ SubSeq(b, e + 1, m) \in Seq(Alphabet)
         /\ SubSeq(b, s, e - 1) \o (<<Blank>> \o SubSeq(b, e + 1, m)) = SubSeq(b, s, m)
<1> DEFINE p == SubSeq(b, s, e - 1)
           r == SubSeq(b, e + 1, m)
<1>1. p \in Seq(Alphabet) /\ Append(p, Blank) = SubSeq(b, s, e)
  BY Grown
<1>2. r \in Seq(Alphabet)
  <2>1. e + 1 \in Int /\ m \in Int /\ \A i \in (e + 1)..m : b[i] \in Alphabet
    OBVIOUS
  <2> QED
    BY <2>1, SubSeqProperties
<1>3. SubSeq(b, s, e) \o r = SubSeq(b, s, m)
  <2>1. s \in 1..(Len(b) + 1) /\ e \in (s - 1)..Len(b)
    OBVIOUS
  <2> QED
    BY <2>1, ConcatAdjacentSubSeq
<1>4. Append(p, Blank) \o r = p \o (<<Blank>> \o r)
  BY <1>1, <1>2, JoinedTexts, Zenon
<1> QED
  BY <1>1, <1>2, <1>3, <1>4

\* The strings from one on, with blanks, are what is left of the text from there on.
LEMMA CutBlanked ==
  ASSUME NEW t \in Seq(Chars), NEW from, NEW end, Cut(t, from, end), Len(t) # 0
  PROVE  \A s \in 1..Len(t) :
           /\ FlattenSeq(Blanks(from[s])) = <<Blank>> \o SubSeq(Blanked(t), s, EndOfText(t) - 1)
           /\ FlattenSeq(Between(from[s])) = SubSeq(Blanked(t), s, EndOfText(t) - 1)
<1> DEFINE o == Terminated(t)
           M == EndOfText(t)
           b == Blanked(t)
           All(s) == SubSeq(b, s, M - 1)
           T == {s \in 1..Len(t) :
                   ~ /\ FlattenSeq(Blanks(from[s])) = <<Blank>> \o All(s)
                     /\ FlattenSeq(Between(from[s])) = All(s)}
<1>1. /\ Len(t) \in Nat /\ Len(t) >= 1 /\ o \in Seq(Alphabet) /\ Len(o) = Len(t) + 1
  BY TerminatedText DEF Alphabet
<1>2. /\ b \in Seq(Alphabet) /\ Len(b) = Len(t) + 1
      /\ \A i \in 1..(Len(t) + 1) : o[i] # Nul => b[i] = o[i]
      /\ \A i \in 1..(Len(t) - 1) : o[i] = Nul => b[i] = Blank
      /\ M \in Len(t)..(Len(t) + 1)
  BY BlankedText
<1> HIDE DEF o, M, b
<1>3. ASSUME T # {}
      PROVE  FALSE
  <2>1. T \in SUBSET (1..Len(t))
    OBVIOUS
  <2>2. PICK s \in T : \A m \in T : m <= s
    BY <1>1, <1>3, <2>1, LastOf
  <2>3. s \in 1..Len(t)
    OBVIOUS
  <2>4. ~ /\ FlattenSeq(Blanks(from[s])) = <<Blank>> \o All(s)
          /\ FlattenSeq(Between(from[s])) = All(s)
    OBVIOUS
  <2> HIDE DEF All
  <2>5. PICK e, p : StringAt(t, from, s, e, p)
    BY <2>3, CutAt
  <2> DEFINE rest == from[e + 1]
  <2>6. /\ s \in 1..Len(o) /\ e \in s..Len(o) /\ o[e] = Nul /\ \A i \in s..(e - 1) : o[i] # Nul
        /\ p = SubSeq(o, s, e - 1) /\ p \in Seq(Alphabet) /\ from[s] = <<p>> \o rest
        /\ e + 1 \in 1..(Len(t) + 2) /\ e + 1 > s
        /\ e + 1 > Len(t) => rest = <<>>
    BY <2>5 DEF StringAt, o
  <2>7. rest \in Seq(Seq(Alphabet))
    BY <2>6, CutNulFree DEF NulFree
  <2>8. p = SubSeq(b, s, e - 1)
    <3>1. \A i \in s..(e - 1) : b[i] = o[i]
      <4>1. \A i \in s..(e - 1) : i \in 1..(Len(t) + 1)
        <5>1. /\ Len(t) \in Nat /\ Len(o) = Len(t) + 1
              /\ s \in 1..Len(o) /\ e \in s..Len(o)
          BY <1>1, <2>6
        <5> HIDE DEF T, rest
        <5> QED
          BY <5>1
      <4> QED
        BY <1>2, <2>6, <4>1
    <3>2. Len(b) = Len(o)
      BY <1>1, <1>2
    <3> QED
      BY <1>1, <1>2, <2>6, <3>1, <3>2, SamePiece
  <2>9. /\ Blanks(from[s]) = <<(<<Blank>> \o p)>> \o Blanks(rest)
        /\ Between(from[s]) = <<p>> \o Blanks(rest)
    BY <2>6, <2>7, ConsMapped, ZenonT(30)
  <2>10. Blanks(rest) \in Seq(Seq(Alphabet)) /\ Len(Blanks(rest)) = Len(rest)
    BY <2>7, EndsTyped
  <2>11. <<Blank>> \o p \in Seq(Alphabet) /\ <<Blank>> \in Seq(Alphabet)
    BY <2>6 DEF Alphabet
  <2>12. CASE e + 1 > Len(t)
    <3>1. Blanks(rest) = <<>>
      <4>1. rest = <<>>
        BY <2>6, <2>12
      <4>2. Len(rest) = 0
        BY <4>1
      <4> HIDE DEF rest
      <4> QED
        BY <2>10, <4>2
    <3>2. e = M
      <4>1. e \in s..(Len(t) + 1)
        BY <1>1, <2>6
      <4> QED
        BY <2>3, <2>6, <2>12, <4>1, LastString DEF M, o
    <3>3. p = All(s)
      BY <2>8, <3>2 DEF All
    <3>4. FlattenSeq(<<p>> \o Blanks(rest)) = p
      BY <2>6, <2>10, <3>1, FlattenNext, Zenon
    <3>5. FlattenSeq(<<(<<Blank>> \o p)>> \o Blanks(rest)) = <<Blank>> \o p
      BY <2>10, <2>11, <3>1, FlattenNext, Zenon
    <3> HIDE DEF rest
    <3> QED
      BY <2>4, <2>9, <3>3, <3>4, <3>5, Zenon
  <2>13. CASE ~(e + 1 > Len(t))
    <3>1. e + 1 \in 1..Len(t) /\ e + 1 \notin T
      <4>1. e + 1 \in 1..Len(t) /\ ~(e + 1 <= s)
        <5>1. /\ Len(t) \in Nat /\ s \in Nat /\ e \in s..Len(o)
          BY <1>1, <2>6
        <5> HIDE DEF T, rest
        <5> QED
          BY <1>1, <2>13, <5>1
      <4> QED
        BY <2>2, <4>1
    <3>2. FlattenSeq(Blanks(rest)) = <<Blank>> \o All(e + 1)
      BY <3>1
    <3>3. Blanks(rest) # <<>>
      <4>1. rest # <<>>
        BY <3>1, CutNotEmpty
      <4>2. Len(rest) # 0
        BY <2>7, <4>1
      <4> HIDE DEF rest
      <4> QED
        BY <2>10, <4>2
    <3>4. /\ All(e + 1) \in Seq(Alphabet)
          /\ p \o (<<Blank>> \o All(e + 1)) = All(s)
      <4>1. s \in 1..Len(b) /\ e \in s..Len(b) /\ b[e] = Blank /\ M - 1 \in e..Len(b)
        BY <1>1, <1>2, <2>6, <3>1
      <4>2. /\ SubSeq(b, e + 1, M - 1) \in Seq(Alphabet)
            /\ SubSeq(b, s, e - 1) \o (<<Blank>> \o SubSeq(b, e + 1, M - 1)) = SubSeq(b, s, M - 1)
        BY <1>2, <4>1, BlankBetween, Zenon
      <4> QED
        BY <2>8, <4>2, Zenon DEF All
    <3>5. FlattenSeq(<<p>> \o Blanks(rest)) = p \o FlattenSeq(Blanks(rest))
      BY <2>6, <2>10, <3>3, FlattenNext, Zenon
    <3>6. FlattenSeq(<<(<<Blank>> \o p)>> \o Blanks(rest))
            = (<<Blank>> \o p) \o FlattenSeq(Blanks(rest))
      BY <2>10, <2>11, <3>3, FlattenNext, Zenon
    <3>7. (<<Blank>> \o p) \o (<<Blank>> \o All(e + 1))
            = <<Blank>> \o (p \o (<<Blank>> \o All(e + 1)))
      <4>1. <<Blank>> \o All(e + 1) \in Seq(Alphabet)
        BY <2>11, <3>4, ConcatProperties, Zenon
      <4> QED
        BY <2>6, <2>11, <4>1, JoinedTexts, ZenonT(30)
    <3> HIDE DEF rest
    <3> QED
      BY <2>4, <2>9, <3>2, <3>4, <3>5, <3>6, <3>7, Zenon
  <2> QED
    BY <2>12, <2>13
<1> QED
  BY <1>3 DEF M, b

-----------------------------------------------------------------------------
(* Both properties, of every text *)

LEMMA NoText ==
  ASSUME NEW t \in Seq(Chars), Len(t) = 0
  PROVE  CutsAtNuls(t) /\ JoinsStrings(t)
<1>1. t = <<>>
  OBVIOUS
<1>2. PICK from, end : Cut(t, from, end) /\ Strings(t) = from[1]
  BY StringsCut
<1>3. Strings(t) = <<>>
  <2>1. 1 \in 1..(Len(t) + 2) /\ 1 > Len(t)
    OBVIOUS
  <2> QED
    BY <1>2, <2>1, Zenon DEF Cut
<1>4. <<>> \in Seq(Seq(Alphabet)) /\ Len(<<>>) = 0 /\ DOMAIN <<>> = {}
  OBVIOUS
<1>5. FlattenSeq(<<>>) = <<>>
  BY <1>4 DEF FlattenSeq
<1>6. Ends(<<>>) = <<>> /\ Between(<<>>) = <<>>
  <2>1. \A ss \in Seq(Seq(Alphabet)) : Len(ss) = 0 => Ends(ss) = <<>> /\ Between(ss) = <<>>
    <3> SUFFICES ASSUME NEW ss \in Seq(Seq(Alphabet)), Len(ss) = 0
                 PROVE  Ends(ss) = <<>> /\ Between(ss) = <<>>
      OBVIOUS
    <3>1. /\ Ends(ss) \in Seq(Seq(Alphabet)) /\ Len(Ends(ss)) = 0
          /\ Between(ss) \in Seq(Seq(Alphabet)) /\ Len(Between(ss)) = 0
      BY EndsTyped
    <3> QED
      BY <3>1
  <2> QED
    BY <1>4, <2>1, Zenon
<1>7. CutsAtNuls(t)
  BY <1>1, <1>3, <1>4, <1>5, <1>6, Zenon DEF CutsAtNuls, Ends
<1>8. Cmndline(t) = <<>>
  <2> DEFINE b == Blanked(t)
  <2>1. 1 \in 1..(Len(t) + 1) /\ ~(1 < Len(t)) /\ 1 = Len(t) + 1
    OBVIOUS
  <2>2. Terminated(t)[1] = Nul
    BY <2>1, TerminatedText
  <2>3. b[1] = Nul /\ DOMAIN b = 1..1
    BY <2>1, <2>2 DEF Blanked
  <2>4. Len(b) = 1
    BY <2>3
  <2> HIDE DEF b
  <2>5. EndOfString(b, 1) \in 1..1
    <3>1. Len(b) \in Nat /\ 1 \in 1..Len(b) /\ 1 \in 1..1
      BY <2>4
    <3> QED
      BY <2>3, <3>1, EndFound, Zenon
  <2>6. EndOfString(b, 1) - 1 = 0
    BY <2>5
  <2>7. SubSeq(b, 1, 0) = <<>>
    BY SubSeqEmpty
  <2> QED
    BY <2>6, <2>7 DEF Cmndline, CString, b, Blanked
<1>9. JoinsStrings(t)
  BY <1>3, <1>5, <1>6, <1>8, Zenon DEF JoinsStrings, Between
<1> QED
  BY <1>7, <1>9

LEMMA SomeText ==
  ASSUME NEW t \in Seq(Chars), Len(t) # 0
  PROVE  CutsAtNuls(t) /\ JoinsStrings(t)
<1> DEFINE o == Terminated(t)
           b == Blanked(t)
           M == EndOfText(t)
<1>1. PICK from, end : Cut(t, from, end) /\ Strings(t) = from[1]
  BY StringsCut
<1>2. /\ Len(t) \in Nat /\ Len(t) >= 1 /\ o \in Seq(Alphabet) /\ Len(o) = Len(t) + 1
      /\ 1 \in 1..Len(t) /\ 1 \in 1..(Len(t) + 2) /\ t # <<>>
  BY TerminatedText DEF Alphabet
<1>3. \A i \in DOMAIN Strings(t) : Nul \notin Range(Strings(t)[i])
  BY <1>1, <1>2, CutNulFree DEF NulFree
<1>4. FlattenSeq(Ends(Strings(t))) = SubSeq(o, 1, M)
  BY <1>1, <1>2, CutJoined
<1>5. FlattenSeq(Between(Strings(t))) = SubSeq(b, 1, M - 1)
  BY <1>1, <1>2, CutBlanked
<1>6. SubSeq(o, 1, M) = IF Last(t) = Nul THEN t ELSE Append(t, Nul)
  <2>1. Last(t) = t[Len(t)]
    BY DEF Last
  <2>2. SubSeq(o, 1, Len(t)) = t
    <3>1. 1 \in Int /\ Len(t) \in Int /\ \A i \in 1..Len(t) : o[i] = t[i] /\ o[i] \in Chars
      BY <1>2, TerminatedText
    <3> DEFINE u == SubSeq(o, 1, Len(t))
    <3>2. /\ u \in Seq(Chars) /\ Len(u) = IF 1 <= Len(t) THEN Len(t) - 1 + 1 ELSE 0
          /\ \A i \in 1..(Len(t) - 1 + 1) : u[i] = o[1 + i - 1]
      BY <3>1, SubSeqProperties
    <3> HIDE DEF u
    <3>3. Len(u) = Len(t)
      BY <1>2, <3>2
    <3>4. \A i \in 1..Len(u) : u[i] = t[i]
      <4>1. \A i \in 1..Len(u) : i \in 1..Len(t) /\ i \in 1..(Len(t) - 1 + 1) /\ 1 + i - 1 = i
        BY <1>2, <3>3
      <4> QED
        BY <3>1, <3>2, <4>1
    <3>5. u = t
      BY <3>2, <3>3, <3>4, SeqEqual
    <3> QED
      BY <3>5 DEF u
  <2>3. SubSeq(o, 1, Len(t) + 1) = Append(t, Nul)
    <3>1. SubSeq(o, 1, Len(o)) = o
      BY <1>2, SubSeqFull
    <3> QED
      BY <1>2, <3>1 DEF Terminated
  <2> QED
    BY <2>1, <2>2, <2>3, Zenon DEF EndOfText
<1>7. CutsAtNuls(t)
  BY <1>2, <1>3, <1>4, <1>6, Zenon DEF CutsAtNuls, Ends
<1>8. Cmndline(t) = SubSeq(b, 1, M - 1)
  <2>1. /\ Len(b) = Len(t) + 1 /\ M \in Len(t)..(Len(t) + 1) /\ b[M] = Nul
        /\ \A i \in 1..(M - 1) : b[i] # Nul
    BY BlankedText
  <2> DEFINE e == EndOfString(b, 1)
  <2> HIDE DEF b, M
  <2>2. Len(b) \in Nat /\ M \in 1..Len(b) /\ 1 \in 1..M
    BY <1>2, <2>1
  <2>3. e \in 1..M /\ b[e] = Nul
    BY <2>1, <2>2, EndFound, Zenon
  <2> HIDE DEF e
  <2>4. e = M
    <3>1. e = M \/ e \in 1..(M - 1)
      BY <2>2, <2>3
    <3> QED
      BY <2>1, <2>3, <3>1
  <2> QED
    BY <2>4 DEF Cmndline, CString, b, Blanked, e
<1>9. JoinsStrings(t)
  BY <1>5, <1>8, Zenon DEF JoinsStrings, Between
<1> QED
  BY <1>7, <1>9

\* For every text: case 'a' of bless_into_proc() cuts it at its Nuls, and
\* get_proc_cmndline() makes of it the same strings with blanks between them.
THEOREM TextsExact == TextSpec => []TextsSurvive
<1> DEFINE TextInv == text \in Seq(Chars)
<1>1. TextInit => TextInv
  BY DEF TextInit
<1>2. TextInv /\ [Write]_text => TextInv'
  BY DEF Write
<1>3. TextInv => TextsSurvive
  BY NoText, SomeText DEF TextsSurvive
<1> QED
  BY <1>1, <1>2, <1>3, PTL DEF TextSpec

-----------------------------------------------------------------------------
(* III. The families that killfam() signals *)

\* The children of ancestors and descendants are descendants, and no set that
\* says as much is smaller.
LEMMA ChildOfFamily ==
  ASSUME NEW table, NEW A, NEW i \in DOMAIN table,
         table[i].ppid \in A \cup Descendants(table, A)
  PROVE  table[i].pid \in Descendants(table, A)
  BY DEF Descendants, HasChildren, PidsOf

LEMMA FamilyLeast ==
  ASSUME NEW table, NEW A, NEW F, HasChildren(table, A, F)
  PROVE  Descendants(table, A) \subseteq F
<1> DEFINE G == F \cap PidsOf(table)
<1>1. HasChildren(table, A, G)
  BY DEF HasChildren, PidsOf
<1>2. G \in SUBSET PidsOf(table)
  OBVIOUS
<1> QED
  BY <1>1, <1>2 DEF Descendants

LEMMA FamilyOfFamily ==
  ASSUME NEW table, NEW A, NEW B, B \subseteq A \cup Descendants(table, A)
  PROVE  Descendants(table, B) \subseteq Descendants(table, A)
<1>1. HasChildren(table, B, Descendants(table, A))
  BY ChildOfFamily DEF HasChildren
<1> QED
  BY <1>1, FamilyLeast

\* A descendant's entry on the table, whose parent is an ancestor or another one.
LEMMA ParentInFamily ==
  ASSUME NEW table, NEW A, NEW p \in Descendants(table, A)
  PROVE  \E i \in DOMAIN table :
           table[i].pid = p /\ table[i].ppid \in A \cup Descendants(table, A)
<1> DEFINE F == {q \in Descendants(table, A) :
                   \E i \in DOMAIN table :
                     table[i].pid = q /\ table[i].ppid \in A \cup Descendants(table, A)}
<1>1. HasChildren(table, A, F)
  BY ChildOfFamily DEF HasChildren
<1> QED
  BY <1>1, FamilyLeast

\* A descendant of one process is a child of it, or descends from one.
LEMMA ThroughChild ==
  ASSUME NEW table, NEW y, NEW p \in Descendants(table, {y})
  PROVE  \E i \in DOMAIN table :
           /\ table[i].ppid = y
           /\ p = table[i].pid \/ p \in Descendants(table, {table[i].pid})
<1> DEFINE F == {q \in {p} \cup Descendants(table, {y}) :
                   \E i \in DOMAIN table :
                     /\ table[i].ppid = y
                     /\ q = table[i].pid \/ q \in Descendants(table, {table[i].pid})}
<1>1. ASSUME NEW j \in DOMAIN table, table[j].ppid \in {y} \cup F
      PROVE  table[j].pid \in F
  <2>1. table[j].pid \in Descendants(table, {y})
    BY <1>1, ChildOfFamily
  <2>2. CASE table[j].ppid = y
    BY <2>1, <2>2
  <2>3. CASE table[j].ppid \in F
    <3>1. PICK i \in DOMAIN table :
            /\ table[i].ppid = y
            /\ table[j].ppid \in {table[i].pid} \cup Descendants(table, {table[i].pid})
      BY <2>3
    <3>2. table[j].pid \in Descendants(table, {table[i].pid})
      BY <3>1, ChildOfFamily
    <3> QED
      BY <2>1, <3>1, <3>2
  <2> QED
    BY <1>1, <2>2, <2>3
<1>2. HasChildren(table, {y}, F)
  BY <1>1 DEF HasChildren
<1> QED
  BY <1>2, FamilyLeast

\* Whoever is its own ancestor is on an endless line.
LEMMA OwnAncestor ==
  ASSUME NEW table, NEW A, NEW p \in A \cup Descendants(table, A),
         p \in Descendants(table, {p})
  PROVE  Endless(table, A)
<1> DEFINE line == {y \in Descendants(table, {p}) : p \in Descendants(table, {y})}
<1>1. line \in (SUBSET Descendants(table, A)) \ {{}}
  <2>1. Descendants(table, {p}) \subseteq Descendants(table, A)
    BY FamilyOfFamily
  <2>2. p \in line
    OBVIOUS
  <2> QED
    BY <2>1, <2>2
<1>2. ASSUME NEW y \in line
      PROVE  \E i \in DOMAIN table : table[i].ppid = y /\ table[i].pid \in line
  <2>1. PICK i \in DOMAIN table :
          /\ table[i].ppid = y
          /\ p = table[i].pid \/ p \in Descendants(table, {table[i].pid})
    BY ThroughChild
  <2>2. table[i].pid \in Descendants(table, {p})
    BY <2>1, ChildOfFamily
  <2> QED
    BY <2>1, <2>2
<1> QED
  BY <1>1, <1>2 DEF Endless

\* The families of two children of one process have nobody in common.
LEMMA NotBelowSibling ==
  ASSUME NEW table, NEW A, Distinct(table), ~Endless(table, A),
         NEW i \in DOMAIN table, NEW j \in DOMAIN table, i # j,
         table[i].ppid = table[j].ppid,
         table[i].ppid \in A \cup Descendants(table, A)
  PROVE  table[i].pid \notin Descendants(table, {table[j].pid})
<1> DEFINE c == table[i].ppid
           q == table[j].pid
<1> SUFFICES ASSUME table[i].pid \in Descendants(table, {q})
             PROVE  FALSE
  OBVIOUS
<1>1. PICK k \in DOMAIN table :
        table[k].pid = table[i].pid /\ table[k].ppid \in {q} \cup Descendants(table, {q})
  BY ParentInFamily
<1>2. c \in {q} \cup Descendants(table, {q})
  BY <1>1 DEF Distinct
<1>3. q \in Descendants(table, {c})
  BY ChildOfFamily
<1>4. Descendants(table, {q}) \subseteq Descendants(table, {c})
  BY <1>3, FamilyOfFamily
<1> QED
  BY <1>2, <1>3, <1>4, OwnAncestor

LEMMA SiblingsApart ==
  ASSUME NEW table, NEW A, Distinct(table), ~Endless(table, A),
         NEW i \in DOMAIN table, NEW j \in DOMAIN table, i # j,
         table[i].ppid = table[j].ppid,
         table[i].ppid \in A \cup Descendants(table, A)
  PROVE  ({table[i].pid} \cup Descendants(table, {table[i].pid}))
           \cap ({table[j].pid} \cup Descendants(table, {table[j].pid})) = {}
<1> DEFINE p == table[i].pid
           q == table[j].pid
           F == Descendants(table, {q}) \ Descendants(table, {p})
<1>1. p \notin Descendants(table, {q}) /\ q \notin Descendants(table, {p}) /\ p # q
  BY NotBelowSibling DEF Distinct
<1>2. ASSUME NEW k \in DOMAIN table, table[k].ppid \in {q} \cup F
      PROVE  table[k].pid \in F
  <2>1. table[k].pid \in Descendants(table, {q})
    BY <1>2, ChildOfFamily
  <2>2. ASSUME table[k].pid \in Descendants(table, {p})
        PROVE  FALSE
    <3>1. table[k].ppid \in {p} \cup Descendants(table, {p})
      BY <2>2, ParentInFamily DEF Distinct
    <3> QED
      BY <1>1, <1>2, <3>1
  <2> QED
    BY <2>1, <2>2
<1>3. Descendants(table, {q}) \subseteq F
  <2>1. HasChildren(table, {q}, F)
    BY <1>2 DEF HasChildren
  <2> QED
    BY <2>1, FamilyLeast
<1> QED
  BY <1>1, <1>3
-----------------------------------------------------------------------------
(* The invariant *)

\* The variables' types.
Calls == [kids : Seq(Nat), kid : Nat, proc : Nat, pids : Seq(Nat)]

KillTypes ==
  /\ ppt_OK \in BOOLEAN
  /\ given \in Seq(Nat) /\ pids \in Seq(Nat) /\ signalled \in Seq(Nat)
  /\ procs \in Seq(Processes)
  /\ calls \in Seq(Calls)
  /\ step \in {"load", "loaded", "table", "looking", "kill", "killed"}

\* Where a call is in its two loops, and what it has behind it there.
InLoops(table, kids, kid, proc) == kid \in 1..(Len(kids) + 1) /\ proc \in 1..(Len(table) + 1)
Behind(kid, proc, k, i) == k < kid \/ (k = kid /\ i < proc)

LEMMA Indices ==
  ASSUME NEW S, NEW s \in Seq(S), NEW i \in DOMAIN s
  PROVE  i \in Nat
OBVIOUS

LEMMA BehindNext ==
  ASSUME NEW kid \in Nat, NEW proc \in Nat, NEW k \in Nat, NEW i \in Nat,
         Behind(kid, proc + 1, k, i)
  PROVE  Behind(kid, proc, k, i) \/ (k = kid /\ i = proc)
  BY DEF Behind

\* What holds at each step of killfam().
KillControl ==
  /\ step = "looking" <=> Len(calls) > 0
  /\ step \in {"table", "looking"} => ppt_OK /\ pids = given
  /\ step \in {"kill", "killed"} /\ ~ppt_OK => pids = given
  /\ step = "killed" => signalled = pids
  /\ Len(calls) > 0 => calls[1].kids = given

\* Every call but the last is at a child, and waits for the call about it.
Chained ==
  \A d \in 1..(Len(calls) - 1) :
    /\ calls[d].kid <= Len(calls[d].kids)
    /\ calls[d].proc <= Len(procs)
    /\ procs[calls[d].proc].ppid = calls[d].kids[calls[d].kid]
    /\ calls[d + 1].kids = <<procs[calls[d].proc].pid>>

\* What a call has found, each for one of its kids: descendants of that kid, the
\* children of it that the loops have passed, and behind each its own children.
Accounted(table, kids, kid, proc, found, for) ==
  /\ \A m \in DOMAIN found : found[m] \in Descendants(table, {kids[for[m]]})
  /\ \A k \in DOMAIN kids, i \in DOMAIN table :
       Behind(kid, proc, k, i) /\ table[i].ppid = kids[k] =>
         \E m \in DOMAIN found : found[m] = table[i].pid /\ for[m] = k
  /\ \A m \in DOMAIN found, i \in DOMAIN table :
       table[i].ppid = found[m] =>
         \E n \in DOMAIN found :
           n > m /\ found[n] = table[i].pid /\ for[n] = for[m]

\* Nobody is found twice for the same kid.
OnceEach(table, kids, kid, proc, found, for) ==
  /\ \A m \in DOMAIN found : for[m] <= kid
  /\ \A m \in DOMAIN found :
       for[m] = kid =>
         \E i \in 1..(proc - 1) :
           /\ table[i].ppid = kids[kid]
           /\ found[m] \in {table[i].pid} \cup Descendants(table, {table[i].pid})
  /\ \A m, n \in DOMAIN found : found[m] = found[n] /\ for[m] = for[n] => m = n

\* Nobody is on the table twice, and no line is endless: then nobody is found
\* twice for one kid.
Forest(table, A) == Distinct(table) /\ ~Endless(table, A)

\* What holds of every call of get_pids(), whatever it was called for.
CallInv(table, A, kids, kid, proc, found) ==
  /\ InLoops(table, kids, kid, proc)
  /\ Range(kids) \subseteq A \cup Descendants(table, A)
  /\ \E for \in [DOMAIN found -> DOMAIN kids] :
       /\ Accounted(table, kids, kid, proc, found, for)
       /\ Forest(table, A) => OnceEach(table, kids, kid, proc, found, for)

CallKept(c) == CallInv(procs, Range(given), c.kids, c.kid, c.proc, c.pids)

\* The first call as it returned.
Answered ==
  \E found \in Seq(Nat), proc \in Nat :
    /\ pids = given \o found
    /\ CallInv(procs, Range(given), given, Len(given) + 1, proc, found)

KillInv ==
  /\ KillTypes
  /\ KillControl
  /\ Chained
  /\ \A d \in DOMAIN calls : CallKept(calls[d])
  /\ step \in {"kill", "killed"} /\ ppt_OK => Answered

-----------------------------------------------------------------------------
(* What the steps do to a call *)

LEMMA CallParts ==
  ASSUME NEW c \in Calls
  PROVE  /\ c.kids \in Seq(Nat) /\ c.kid \in Nat /\ c.proc \in Nat /\ c.pids \in Seq(Nat)
         /\ c = [kids |-> c.kids, kid |-> c.kid, proc |-> c.proc, pids |-> c.pids]
  BY DEF Calls

\* A call begins with nothing found, and Skip, NextKid and Return keep what holds
\* of one.
LEMMA NewCall ==
  ASSUME NEW table, NEW A, NEW kids \in Seq(Nat), Len(table) \in Nat,
         Range(kids) \subseteq A \cup Descendants(table, A)
  PROVE  CallInv(table, A, kids, 1, 1, <<>>)
<1> DEFINE for == [m \in {} |-> 1]
<1>1. DOMAIN <<>> = {}
  OBVIOUS
<1>2. for \in [DOMAIN <<>> -> DOMAIN kids]
  BY <1>1
<1>3. InLoops(table, kids, 1, 1)
  BY DEF InLoops
<1>4. /\ Accounted(table, kids, 1, 1, <<>>, for)
      /\ OnceEach(table, kids, 1, 1, <<>>, for)
  BY <1>1 DEF Accounted, OnceEach, Behind
<1> QED
  BY <1>2, <1>3, <1>4 DEF CallInv

LEMMA SkipKeeps ==
  ASSUME NEW table \in Seq(Processes), NEW A,
         NEW kids \in Seq(Nat), NEW kid \in Nat, NEW proc \in Nat, NEW found \in Seq(Nat),
         CallInv(table, A, kids, kid, proc, found),
         kid <= Len(kids), proc <= Len(table),
         table[proc].ppid # kids[kid]
  PROVE  CallInv(table, A, kids, kid, proc + 1, found)
<1>1. PICK for \in [DOMAIN found -> DOMAIN kids] :
        /\ Accounted(table, kids, kid, proc, found, for)
        /\ Forest(table, A) => OnceEach(table, kids, kid, proc, found, for)
  BY DEF CallInv
<1>2. InLoops(table, kids, kid, proc + 1)
  BY DEF CallInv, InLoops
<1>3. \A k \in DOMAIN kids, i \in DOMAIN table :
        Behind(kid, proc + 1, k, i) /\ table[i].ppid = kids[k] => Behind(kid, proc, k, i)
  BY DEF Behind
<1>4. Accounted(table, kids, kid, proc + 1, found, for)
  BY <1>1, <1>3 DEF Accounted
<1>5. ASSUME OnceEach(table, kids, kid, proc, found, for)
      PROVE  OnceEach(table, kids, kid, proc + 1, found, for)
  <2>1. 1..(proc - 1) \subseteq 1..((proc + 1) - 1)
    OBVIOUS
  <2> QED
    BY <1>5, <2>1 DEF OnceEach
<1> QED
  BY <1>1, <1>2, <1>4, <1>5 DEF CallInv

LEMMA NextKidKeeps ==
  ASSUME NEW table \in Seq(Processes), NEW A,
         NEW kids \in Seq(Nat), NEW kid \in Nat, NEW proc \in Nat, NEW found \in Seq(Nat),
         CallInv(table, A, kids, kid, proc, found),
         kid <= Len(kids), proc > Len(table)
  PROVE  CallInv(table, A, kids, kid + 1, 1, found)
<1>1. PICK for \in [DOMAIN found -> DOMAIN kids] :
        /\ Accounted(table, kids, kid, proc, found, for)
        /\ Forest(table, A) => OnceEach(table, kids, kid, proc, found, for)
  BY DEF CallInv
<1>2. InLoops(table, kids, kid + 1, 1)
  BY DEF CallInv, InLoops
<1>3. \A k \in DOMAIN kids, i \in DOMAIN table :
        Behind(kid + 1, 1, k, i) => Behind(kid, proc, k, i)
  BY DEF Behind
<1>4. Accounted(table, kids, kid + 1, 1, found, for)
  BY <1>1, <1>3 DEF Accounted
<1>5. ASSUME OnceEach(table, kids, kid, proc, found, for)
      PROVE  OnceEach(table, kids, kid + 1, 1, found, for)
  <2>1. \A m \in DOMAIN found : for[m] <= kid /\ for[m] \in Nat
    BY <1>1, <1>5 DEF OnceEach
  <2>2. \A m \in DOMAIN found : for[m] <= kid + 1 /\ for[m] # kid + 1
    BY <2>1
  <2> QED
    BY <1>5, <2>2 DEF OnceEach
<1> QED
  BY <1>1, <1>2, <1>4, <1>5 DEF CallInv

\* What a call finds for a child goes behind that child.
Pushes(r, s, x, t) ==
  /\ DOMAIN r = 1..(Len(s) + 1 + Len(t))
  /\ \A m \in DOMAIN s : m \in DOMAIN r /\ r[m] = s[m] /\ m <= Len(s)
  /\ Len(s) + 1 \in DOMAIN r /\ r[Len(s) + 1] = x
  /\ \A m \in DOMAIN t : Len(s) + 1 + m \in DOMAIN r /\ r[Len(s) + 1 + m] = t[m]
  /\ \A m \in DOMAIN r :
       \/ m \in DOMAIN s
       \/ m = Len(s) + 1
       \/ m > Len(s) + 1 /\ m - (Len(s) + 1) \in DOMAIN t /\ r[m] = t[m - (Len(s) + 1)]
  /\ \A m \in DOMAIN r :
       m > Len(s) + 1 => m - (Len(s) + 1) \in DOMAIN t /\ r[m] = t[m - (Len(s) + 1)]

LEMMA PushShape ==
  ASSUME NEW s \in Seq(Nat), NEW x \in Nat, NEW t \in Seq(Nat)
  PROVE  LET r == Append(s, x) \o t IN r \in Seq(Nat) /\ Pushes(r, s, x, t)
<1> DEFINE r == Append(s, x) \o t
<1>1. Append(s, x) \in Seq(Nat) /\ Len(Append(s, x)) = Len(s) + 1
  OBVIOUS
<1>2. r \in Seq(Nat) /\ Len(r) = Len(s) + 1 + Len(t) /\ DOMAIN r = 1..(Len(s) + 1 + Len(t))
  BY <1>1
<1>3. \A m \in DOMAIN s : m \in DOMAIN r /\ r[m] = s[m] /\ m <= Len(s)
  BY <1>1, <1>2
<1>4. Len(s) + 1 \in DOMAIN r /\ r[Len(s) + 1] = x
  BY <1>1, <1>2
<1>5. \A m \in DOMAIN t : Len(s) + 1 + m \in DOMAIN r /\ r[Len(s) + 1 + m] = t[m]
  BY <1>1, <1>2
<1>6. ASSUME NEW m \in DOMAIN r, m \notin DOMAIN s, m # Len(s) + 1
      PROVE  m > Len(s) + 1 /\ m - (Len(s) + 1) \in DOMAIN t /\ r[m] = t[m - (Len(s) + 1)]
  BY <1>1, <1>2, <1>6
<1>7. ASSUME NEW m \in DOMAIN r, m > Len(s) + 1
      PROVE  m - (Len(s) + 1) \in DOMAIN t /\ r[m] = t[m - (Len(s) + 1)]
  BY <1>1, <1>2, <1>7
<1> HIDE DEF r
<1>8. Pushes(r, s, x, t)
  BY <1>2, <1>3, <1>4, <1>5, <1>6, <1>7 DEF Pushes
<1> QED
  BY <1>2, <1>8 DEF r

LEMMA ReturnKeeps ==
  ASSUME NEW table \in Seq(Processes), NEW A,
         NEW kids \in Seq(Nat), NEW kid \in Nat, NEW proc \in Nat, NEW found \in Seq(Nat),
         CallInv(table, A, kids, kid, proc, found),
         kid <= Len(kids), proc <= Len(table), table[proc].ppid = kids[kid],
         NEW x \in Nat, x = table[proc].pid,
         NEW at \in Nat, NEW below \in Seq(Nat), CallInv(table, A, <<x>>, 2, at, below),
         NEW all \in Seq(Nat), Pushes(all, found, x, below)
  PROVE  CallInv(table, A, kids, kid, proc + 1, all)
<1> DEFINE L == Len(found)
           y == kids[kid]
<1>1. PICK g \in [DOMAIN found -> DOMAIN kids] :
        /\ Accounted(table, kids, kid, proc, found, g)
        /\ Forest(table, A) => OnceEach(table, kids, kid, proc, found, g)
  BY DEF CallInv
<1>2. PICK h \in [DOMAIN below -> DOMAIN <<x>>] :
        /\ Accounted(table, <<x>>, 2, at, below, h)
        /\ Forest(table, A) => OnceEach(table, <<x>>, 2, at, below, h)
  BY DEF CallInv
<1>3. kid \in DOMAIN kids /\ proc \in DOMAIN table
  BY DEF CallInv, InLoops
<1>4. DOMAIN all = 1..(L + 1 + Len(below))
  BY DEF Pushes
<1>5. \A m \in DOMAIN found : m \in DOMAIN all /\ all[m] = found[m] /\ m <= L
  BY DEF Pushes
<1>6. L + 1 \in DOMAIN all /\ all[L + 1] = x
  BY DEF Pushes
<1>7. \A m \in DOMAIN below : L + 1 + m \in DOMAIN all /\ all[L + 1 + m] = below[m]
  BY DEF Pushes
<1>8. \A m \in DOMAIN all :
         \/ m \in DOMAIN found
         \/ m = L + 1
         \/ m > L + 1 /\ m - (L + 1) \in DOMAIN below /\ all[m] = below[m - (L + 1)]
  BY DEF Pushes
<1>9. /\ DOMAIN <<x>> = {1} /\ \A m \in DOMAIN below : h[m] = 1
  BY <1>2
<1>10. /\ L \in Nat /\ DOMAIN found = 1..L
      /\ Len(below) \in Nat /\ DOMAIN below = 1..Len(below)
  OBVIOUS
<1> DEFINE for == [m \in DOMAIN all |-> IF m <= L THEN g[m] ELSE kid]
<1>11. \A m \in DOMAIN all :
         m > L + 1 => m - (L + 1) \in DOMAIN below /\ all[m] = below[m - (L + 1)]
  BY DEF Pushes
<1>12. for \in [DOMAIN all -> DOMAIN kids]
  BY <1>3, <1>4, <1>10
<1>13. /\ \A m \in DOMAIN found : for[m] = g[m]
      /\ for[L + 1] = kid
      /\ \A m \in DOMAIN below : for[L + 1 + m] = kid
  <2>1. ~(L + 1 <= L) /\ \A m \in DOMAIN below : ~(L + 1 + m <= L)
    BY <1>10
  <2> HIDE DEF L
  <2> QED
    BY <1>5, <1>6, <1>7, <2>1
<1> HIDE DEF for, L
<1>14. /\ x \in Descendants(table, {y})
       /\ Descendants(table, {x}) \subseteq Descendants(table, {y})
  <2>1. x \in Descendants(table, {y})
    BY <1>3, ChildOfFamily
  <2> QED
    BY <2>1, FamilyOfFamily
<1>15. \A m \in DOMAIN below : below[m] \in Descendants(table, {x})
  <2>1. \A m \in DOMAIN below : below[m] \in Descendants(table, {<<x>>[h[m]]})
    BY <1>2 DEF Accounted
  <2>2. <<x>>[1] = x
    OBVIOUS
  <2> QED
    BY <1>9, <2>1, <2>2
<1>16. ASSUME NEW m \in DOMAIN all
       PROVE  all[m] \in Descendants(table, {kids[for[m]]})
  <2>1. CASE m \in DOMAIN found
    BY <1>1, <1>4, <1>5, <1>6, <1>7, <1>8, <1>13, <2>1 DEF Accounted
  <2>2. CASE m = L + 1
    BY <1>4, <1>5, <1>6, <1>7, <1>8, <1>13, <1>14, <2>2
  <2>3. CASE m > L + 1 /\ m - (L + 1) \in DOMAIN below /\ all[m] = below[m - (L + 1)]
    <3>1. m = L + 1 + (m - (L + 1))
      BY <1>4, <1>5, <1>6, <1>7, <1>8, <1>10
    <3>2. for[m] = kid
      BY <1>13, <2>3, <3>1
    <3> QED
      BY <1>14, <1>15, <2>3, <3>2
  <2> QED
    BY <1>4, <1>5, <1>6, <1>7, <1>8, <2>1, <2>2, <2>3
<1>17. ASSUME NEW k \in DOMAIN kids, NEW i \in DOMAIN table,
              Behind(kid, proc + 1, k, i), table[i].ppid = kids[k]
       PROVE  \E m \in DOMAIN all : all[m] = table[i].pid /\ for[m] = k
  <2>1. CASE Behind(kid, proc, k, i)
    <3>1. PICK m \in DOMAIN found : found[m] = table[i].pid /\ g[m] = k
      BY <1>1, <1>17, <2>1 DEF Accounted
    <3> QED
      BY <1>4, <1>5, <1>6, <1>7, <1>8, <1>13, <3>1
  <2>2. CASE k = kid /\ i = proc
    BY <1>4, <1>5, <1>6, <1>7, <1>8, <1>13, <2>2
  <2>3. Behind(kid, proc, k, i) \/ (k = kid /\ i = proc)
    <3>1. k \in Nat /\ i \in Nat
      BY Indices, Zenon
    <3> QED
      BY <1>17, <3>1, BehindNext, Zenon
  <2> QED
    BY <2>1, <2>2, <2>3
<1>18. ASSUME NEW m \in DOMAIN all, NEW i \in DOMAIN table, table[i].ppid = all[m]
       PROVE  \E n \in DOMAIN all :
                n > m /\ all[n] = table[i].pid /\ for[n] = for[m]
  <2>1. CASE m \in DOMAIN found
    <3>1. PICK n \in DOMAIN found : n > m /\ found[n] = table[i].pid /\ g[n] = g[m]
      <4>1. table[i].ppid = found[m]
        BY <1>5, <1>18, <2>1
      <4> QED
        BY <1>1, <2>1, <4>1 DEF Accounted
    <3> QED
      BY <1>4, <1>5, <1>6, <1>7, <1>8, <1>13, <2>1, <3>1
  <2>2. CASE m = L + 1
    <3>1. Behind(2, at, 1, i)
      BY <1>9 DEF Behind
    <3>2. PICK n \in DOMAIN below : below[n] = table[i].pid
      BY <1>2, <1>4, <1>5, <1>6, <1>7, <1>8, <1>9, <1>18, <2>2, <3>1, SMTT(30) DEF Accounted
    <3>3. L + 1 + n > L + 1
      BY <1>10
    <3> QED
      BY <1>7, <1>13, <2>2, <3>2, <3>3
  <2>3. CASE m > L + 1 /\ m - (L + 1) \in DOMAIN below /\ all[m] = below[m - (L + 1)]
    <3>1. m = L + 1 + (m - (L + 1))
      BY <1>4, <1>5, <1>6, <1>7, <1>8, <1>10
    <3>2. for[m] = kid
      BY <1>13, <2>3, <3>1
    <3>3. PICK n \in DOMAIN below : n > m - (L + 1) /\ below[n] = table[i].pid
      BY <1>2, <1>18, <2>3 DEF Accounted
    <3>4. L + 1 + n > m
      BY <1>4, <1>5, <1>6, <1>7, <1>8, <1>10, <3>3
    <3> QED
      BY <1>7, <1>13, <3>2, <3>3, <3>4, SMTT(30)
  <2> QED
    BY <1>4, <1>5, <1>6, <1>7, <1>8, <2>1, <2>2, <2>3
<1>19. Accounted(table, kids, kid, proc + 1, all, for)
  <2>1. \A m \in DOMAIN all : all[m] \in Descendants(table, {kids[for[m]]})
    BY <1>16
  <2>2. \A k \in DOMAIN kids, i \in DOMAIN table :
          Behind(kid, proc + 1, k, i) /\ table[i].ppid = kids[k] =>
            \E m \in DOMAIN all : all[m] = table[i].pid /\ for[m] = k
    BY <1>17
  <2>3. \A m \in DOMAIN all, i \in DOMAIN table :
          table[i].ppid = all[m] =>
            \E n \in DOMAIN all :
              n > m /\ all[n] = table[i].pid /\ for[n] = for[m]
    BY <1>18
  <2> QED
    BY <2>1, <2>2, <2>3, Zenon DEF Accounted
<1>20. ASSUME Forest(table, A)
       PROVE  OnceEach(table, kids, kid, proc + 1, all, for)
  <2>1. OnceEach(table, kids, kid, proc, found, g) /\ OnceEach(table, <<x>>, 2, at, below, h)
    BY <1>1, <1>2, <1>20
  <2>2. \A m \in DOMAIN all : m > L => for[m] = kid
    BY <1>10 DEF for
  <2>3. ASSUME NEW m \in DOMAIN all, m > L
        PROVE  all[m] \in {x} \cup Descendants(table, {x})
    <3>1. m \notin DOMAIN found
      BY <1>10, <2>3
    <3> QED
      BY <1>6, <1>8, <1>15, <3>1
  <2>4. \A m \in DOMAIN all : for[m] <= kid
    <3>1. \A m \in DOMAIN found : for[m] <= kid
      BY <1>13, <2>1 DEF OnceEach
    <3>2. \A m \in DOMAIN all : m \in DOMAIN found \/ m > L
      BY <1>4, <1>10
    <3> QED
      BY <2>2, <3>1, <3>2, SMTT(30)
  <2>5. ASSUME NEW m \in DOMAIN found, g[m] = kid
        PROVE  \E i \in 1..(proc - 1) :
                 /\ table[i].ppid = y
                 /\ found[m] \in {table[i].pid} \cup Descendants(table, {table[i].pid})
    BY <2>1, <2>5 DEF OnceEach
  <2>6. ASSUME NEW m \in DOMAIN all, for[m] = kid
        PROVE  \E i \in 1..((proc + 1) - 1) :
                 /\ table[i].ppid = kids[kid]
                 /\ all[m] \in {table[i].pid} \cup Descendants(table, {table[i].pid})
    <3>1. CASE m \in DOMAIN found
      <4>1. PICK i \in 1..(proc - 1) :
              /\ table[i].ppid = y
              /\ found[m] \in {table[i].pid} \cup Descendants(table, {table[i].pid})
        BY <1>13, <2>5, <2>6, <3>1
      <4>2. i \in 1..((proc + 1) - 1)
        BY <1>3
      <4> QED
        BY <1>4, <1>5, <1>6, <1>7, <1>8, <3>1, <4>1, <4>2
    <3>2. CASE m \notin DOMAIN found
      <4>1. m > L
        BY <1>4, <1>5, <1>6, <1>7, <1>8, <1>10, <3>2
      <4>2. proc \in 1..((proc + 1) - 1)
        BY <1>3
      <4> QED
        BY <2>3, <4>1, <4>2
    <3> QED
      BY <3>1, <3>2
  <2>7. ASSUME NEW m \in DOMAIN found, NEW n \in DOMAIN all, n > L,
               all[m] = all[n], for[m] = for[n]
        PROVE  FALSE
    <3>1. g[m] = kid
      BY <1>13, <2>2, <2>7
    <3>2. PICK i \in 1..(proc - 1) :
            /\ table[i].ppid = y
            /\ found[m] \in {table[i].pid} \cup Descendants(table, {table[i].pid})
      BY <2>5, <3>1
    <3>3. all[n] \in {x} \cup Descendants(table, {x})
      BY <2>3, <2>7
    <3>4. i \in DOMAIN table /\ i # proc
      BY <3>2
    <3>5. y \in A \cup Descendants(table, A)
      BY <1>3 DEF CallInv, Range
    <3>6. ({table[i].pid} \cup Descendants(table, {table[i].pid}))
             \cap ({x} \cup Descendants(table, {x})) = {}
      BY <1>3, <1>20, <3>2, <3>4, <3>5, SiblingsApart DEF Forest
    <3> QED
      BY <1>4, <1>5, <1>6, <1>7, <1>8, <2>7, <3>2, <3>3, <3>6
  <2>8. ASSUME NEW n \in DOMAIN below, below[n] = x
        PROVE  FALSE
    <3>1. x \in A \cup Descendants(table, A)
      BY <1>9 DEF CallInv, Range
    <3>2. x \in Descendants(table, {x})
      BY <1>15, <2>8
    <3> QED
      BY <1>20, <3>1, <3>2, OwnAncestor DEF Forest
  <2>9. \A m, n \in DOMAIN below : below[m] = below[n] => m = n
    BY <1>9, <2>1 DEF OnceEach
  <2>10. ASSUME NEW m \in DOMAIN all, NEW n \in DOMAIN all, m < n,
                all[m] = all[n], for[m] = for[n]
         PROVE  FALSE
    <3>1. m \in Int /\ n \in Int /\ m < n /\ L \in Int
      BY <1>4, <1>10, <2>10
    <3>2. CASE m \in DOMAIN found /\ n \in DOMAIN found
      <4>1. found[m] = found[n] /\ g[m] = g[n]
        BY <1>5, <1>13, <2>10, <3>2
      <4>2. m = n
        BY <2>1, <3>2, <4>1 DEF OnceEach
      <4> QED
        BY <1>10, <2>10, <3>2, <4>2
    <3>3. CASE m \in DOMAIN found /\ n > L
      BY <2>7, <2>10, <3>3
    <3>4. CASE m = L + 1
      <4>1. n > L + 1
        BY <3>1, <3>4
      <4> QED
        BY <1>6, <1>11, <2>8, <2>10, <3>4, <4>1
    <3>5. CASE m > L + 1
      <4>1. /\ m - (L + 1) \in DOMAIN below /\ all[m] = below[m - (L + 1)]
            /\ n - (L + 1) \in DOMAIN below /\ all[n] = below[n - (L + 1)]
        <5>1. n > L + 1
          BY <3>1, <3>5
        <5> QED
          BY <1>11, <3>5, <5>1
      <4>2. m - (L + 1) = n - (L + 1)
        BY <2>9, <2>10, <4>1
      <4> QED
        BY <1>4, <1>5, <1>6, <1>7, <1>8, <1>10, <2>10, <4>2
    <3> QED
      BY <1>4, <1>5, <1>6, <1>7, <1>8, <1>10, <2>10, <3>2, <3>3, <3>4, <3>5
  <2>11. \A m, n \in DOMAIN all : all[m] = all[n] /\ for[m] = for[n] => m = n
    <3>1. \A m, n \in DOMAIN all : m < n \/ n < m \/ m = n
      BY <1>4, <1>10
    <3> QED
      BY <2>10, <3>1
  <2> QED
    BY <2>4, <2>6, <2>11 DEF OnceEach
<1>21. InLoops(table, kids, kid, proc + 1)
  BY <1>3 DEF CallInv, InLoops
<1> QED
  BY <1>12, <1>19, <1>20, <1>21 DEF CallInv

-----------------------------------------------------------------------------
(* What a call returns *)

LEMMA Nearer ==
  ASSUME NEW length \in Nat, NEW m \in 1..length, NEW j \in 1..length, j > m
  PROVE  length - j \in Nat /\ length - j < length - m
OBVIOUS

\* A call that is through with its kids has found their descendants,
LEMMA ReturnsFamily ==
  ASSUME NEW table \in Seq(Processes), NEW kids \in Seq(Nat), NEW proc \in Nat,
         NEW found \in Seq(Nat),
         CallInv(table, Range(kids), kids, Len(kids) + 1, proc, found)
  PROVE  Range(found) = Descendants(table, Range(kids))
<1>1. PICK for \in [DOMAIN found -> DOMAIN kids] :
        Accounted(table, kids, Len(kids) + 1, proc, found, for)
  BY DEF CallInv
<1>2. ASSUME NEW m \in DOMAIN found
      PROVE  found[m] \in Descendants(table, Range(kids))
  <2>1. found[m] \in Descendants(table, {kids[for[m]]})
    BY <1>1 DEF Accounted
  <2>2. {kids[for[m]]} \subseteq Range(kids)
    BY DEF Range
  <2> QED
    BY <2>1, <2>2, FamilyOfFamily
<1>3. ASSUME NEW i \in DOMAIN table, table[i].ppid \in Range(kids) \cup Range(found)
      PROVE  table[i].pid \in Range(found)
  <2>1. CASE table[i].ppid \in Range(kids)
    <3>1. PICK k \in DOMAIN kids : table[i].ppid = kids[k]
      BY <2>1 DEF Range
    <3>2. Behind(Len(kids) + 1, proc, k, i)
      BY DEF Behind
    <3> QED
      BY <1>1, <3>1, <3>2 DEF Accounted, Range
  <2>2. CASE table[i].ppid \in Range(found)
    <3>1. PICK m \in DOMAIN found : table[i].ppid = found[m]
      BY <2>2 DEF Range
    <3> QED
      BY <1>1, <3>1 DEF Accounted, Range
  <2> QED
    BY <1>3, <2>1, <2>2
<1>4. HasChildren(table, Range(kids), Range(found))
  BY <1>3 DEF HasChildren
<1>5. Range(found) \subseteq Descendants(table, Range(kids))
  BY <1>2 DEF Range
<1> QED
  BY <1>4, <1>5, FamilyLeast

\* and none of these lines is endless: behind its last there would be a child,
LEMMA ReturnsOnlyForests ==
  ASSUME NEW table \in Seq(Processes), NEW kids \in Seq(Nat), NEW proc \in Nat,
         NEW found \in Seq(Nat),
         CallInv(table, Range(kids), kids, Len(kids) + 1, proc, found)
  PROVE  ~Endless(table, Range(kids))
<1> SUFFICES ASSUME Endless(table, Range(kids))
             PROVE  FALSE
  OBVIOUS
<1>1. PICK line \in (SUBSET Descendants(table, Range(kids))) \ {{}} :
        \A p \in line : \E i \in DOMAIN table : table[i].ppid = p /\ table[i].pid \in line
  BY DEF Endless
<1>2. PICK for \in [DOMAIN found -> DOMAIN kids] :
        Accounted(table, kids, Len(kids) + 1, proc, found, for)
  BY DEF CallInv
<1> DEFINE Places == {m \in DOMAIN found : found[m] \in line}
           T == {n \in Nat : \E m \in Places : n = Len(found) - m}
<1>3. Places # {}
  <2>1. PICK p \in line : p \in Range(found)
    BY <1>1, ReturnsFamily
  <2> QED
    BY <2>1 DEF Range
<1>4. DOMAIN found = 1..Len(found) /\ Len(found) \in Nat
  OBVIOUS
<1>5. T # {} /\ T \in SUBSET Nat
  <2>1. PICK m \in Places : TRUE
    BY <1>3
  <2>2. Len(found) - m \in Nat
    BY <1>4
  <2> QED
    BY <2>1, <2>2
<1>6. PICK n \in T : \A k \in T : n <= k
  BY <1>5, NatMin
<1>7. PICK m \in Places : n = Len(found) - m
  OBVIOUS
<1>8. PICK i \in DOMAIN table : table[i].ppid = found[m] /\ table[i].pid \in line
  BY <1>1
<1>9. PICK j \in DOMAIN found : j > m /\ found[j] = table[i].pid
  BY <1>2, <1>8 DEF Accounted
<1>10. j \in Places
  BY <1>8, <1>9
<1>11. Len(found) - j \in Nat /\ Len(found) - j < n
  <2>1. j \in 1..Len(found) /\ m \in 1..Len(found) /\ j > m
    BY <1>4, <1>9
  <2> HIDE DEF T, Places
  <2> QED
    BY <1>4, <1>7, <2>1, Nearer
<1>12. Len(found) - j \in T
  BY <1>10, <1>11
<1> QED
  BY <1>6, <1>11, <1>12, SMTT(30)

Times(found, p) == {m \in DOMAIN found : found[m] = p}
KidsAbove(table, kids, p) == {k \in DOMAIN kids : p \in Descendants(table, {kids[k]})}

\* and each of them once for every kid it descends from.
LEMMA ReturnsOnceEach ==
  ASSUME NEW table \in Seq(Processes), NEW kids \in Seq(Nat), NEW proc \in Nat,
         NEW found \in Seq(Nat),
         CallInv(table, Range(kids), kids, Len(kids) + 1, proc, found),
         Distinct(table), NEW p
  PROVE  Cardinality(Times(found, p)) = Cardinality(KidsAbove(table, kids, p))
<1> DEFINE P == {m \in DOMAIN found : found[m] = p}
           Q == {k \in DOMAIN kids : p \in Descendants(table, {kids[k]})}
<1>1. PICK for \in [DOMAIN found -> DOMAIN kids] :
        /\ Accounted(table, kids, Len(kids) + 1, proc, found, for)
        /\ OnceEach(table, kids, Len(kids) + 1, proc, found, for)
  BY ReturnsOnlyForests DEF CallInv, Forest
<1> DEFINE f == [m \in P |-> for[m]]
<1>2. \A m \in P : for[m] \in Q
  BY <1>1 DEF Accounted
<1>3. \A m, n \in P : for[m] = for[n] => m = n
  BY <1>1 DEF OnceEach
<1>4. ASSUME NEW k \in Q
      PROVE  \E m \in P : for[m] = k
  <2> DEFINE F == {q \in Range(found) : \E m \in DOMAIN found : found[m] = q /\ for[m] = k}
  <2>1. ASSUME NEW i \in DOMAIN table, table[i].ppid \in {kids[k]} \cup F
        PROVE  table[i].pid \in F
    <3>1. CASE table[i].ppid = kids[k]
      <4>1. Behind(Len(kids) + 1, proc, k, i)
        BY DEF Behind
      <4>2. \E m \in DOMAIN found : found[m] = table[i].pid /\ for[m] = k
        BY <1>1, <3>1, <4>1 DEF Accounted
      <4> QED
        BY <4>2 DEF Range
    <3>2. CASE table[i].ppid \in F
      <4>1. PICK m \in DOMAIN found : found[m] = table[i].ppid /\ for[m] = k
        BY <3>2
      <4>2. \E n \in DOMAIN found : found[n] = table[i].pid /\ for[n] = for[m]
        BY <1>1, <4>1 DEF Accounted
      <4> QED
        BY <4>1, <4>2 DEF Range
    <3> QED
      BY <2>1, <3>1, <3>2
  <2>2. HasChildren(table, {kids[k]}, F)
    BY <2>1 DEF HasChildren
  <2> QED
    BY <2>2, FamilyLeast
<1>5. f \in Bijection(P, Q)
  <2>1. f \in [P -> Q]
    BY <1>2
  <2>2. \A m, n \in P : f[m] = f[n] => m = n
    BY <1>3
  <2>3. \A k \in Q : \E m \in P : f[m] = k
    BY <1>4
  <2> HIDE DEF f, P, Q
  <2> QED
    BY <2>1, <2>2, <2>3 DEF Bijection, Injection, Surjection, IsInjective
<1>6. IsFiniteSet(P)
  <2>1. IsFiniteSet(1..Len(found))
    BY FS_Interval
  <2>2. P \in SUBSET (1..Len(found))
    OBVIOUS
  <2> QED
    BY <2>1, <2>2, FS_Subset
<1>7. ExistsBijection(P, Q)
  BY <1>5 DEF ExistsBijection
<1> QED
  BY <1>6, <1>7, FS_Bijection DEF Times, KidsAbove

\* More places than values: two have the same.
LEMMA Pigeons ==
  ASSUME NEW n \in Nat, NEW k \in Nat, k < n, NEW to \in [1..n -> 1..k]
  PROVE  \E a, b \in 1..n : a < b /\ to[a] = to[b]
<1>1. IsFiniteSet(1..n) /\ Cardinality(1..n) = n
  BY FS_Interval
<1>2. IsFiniteSet(1..k) /\ Cardinality(1..k) = k
  BY FS_Interval
<1>3. PICK x \in 1..n, y \in 1..n : x # y /\ to[x] = to[y]
  BY <1>1, <1>2, FS_PigeonHole
<1> QED
  BY <1>3

\* Calls inside each other that outnumber the table go round in a circle.
LEMMA DeepIsEndless ==
  ASSUME NEW table \in Seq(Processes), NEW A, NEW n \in Nat, n > Len(table),
         NEW to \in [1..n -> DOMAIN table],
         \A d \in 1..n : table[to[d]].pid \in Descendants(table, A),
         \A d \in 1..(n - 1) : table[to[d + 1]].ppid = table[to[d]].pid
  PROVE  Endless(table, A)
<1>1. DOMAIN table = 1..Len(table) /\ Len(table) \in Nat
  OBVIOUS
<1>2. PICK a \in 1..n, b \in 1..n : a < b /\ to[a] = to[b]
  BY <1>1, Pigeons
<1> DEFINE line == {table[to[d]].pid : d \in a..(b - 1)}
<1>3. a \in a..(b - 1) /\ a..(b - 1) \subseteq 1..n
  BY <1>2
<1>4. line \in (SUBSET Descendants(table, A)) \ {{}}
  <2>1. table[to[a]].pid \in line
    BY <1>3
  <2>2. line \subseteq Descendants(table, A)
    BY <1>3
  <2> QED
    BY <2>1, <2>2
<1>5. ASSUME NEW p \in line
      PROVE  \E i \in DOMAIN table : table[i].ppid = p /\ table[i].pid \in line
  <2>1. PICK d \in a..(b - 1) : p = table[to[d]].pid
    BY <1>5
  <2>2. d \in 1..(n - 1) /\ d + 1 \in 1..n
    BY <1>2
  <2>3. table[to[d + 1]].ppid = p /\ to[d + 1] \in DOMAIN table
    BY <2>1, <2>2
  <2>4. CASE d + 1 \in a..(b - 1)
    BY <2>3, <2>4
  <2>5. CASE d + 1 = b
    BY <1>2, <1>3, <2>3, <2>5
  <2> QED
    BY <1>2, <2>4, <2>5
<1> QED
  BY <1>4, <1>5 DEF Endless

-----------------------------------------------------------------------------
(* The invariant is kept *)

LEMMA KillInvInit == KillInit => KillInv
<1> SUFFICES ASSUME KillInit
             PROVE  KillInv
  OBVIOUS
<1>1. KillTypes
  <2>1. \A S : <<>> \in Seq(S)
    OBVIOUS
  <2> QED
    BY <2>1, Zenon DEF KillInit, KillTypes
<1>2. Len(calls) = 0 /\ DOMAIN calls = {}
  BY DEF KillInit
<1> QED
  BY <1>1, <1>2 DEF KillInit, KillInv, KillControl, Chained

\* A step that leaves the calls up to one of them, and changes where that one is
\* and what it has found.
LEMMA TopKeeps ==
  ASSUME KillInv, step = "looking",
         UNCHANGED <<ppt_OK, given, pids, procs, signalled, step>>,
         NEW m \in 1..Len(calls), calls' \in Seq(Calls), Len(calls') = m,
         \A d \in 1..(m - 1) : calls'[d] = calls[d],
         calls'[m].kids = calls[m].kids,
         CallKept(calls'[m])
  PROVE  KillInv'
<1>1. KillTypes'
  BY DEF KillInv, KillTypes
<1>2. calls'[1].kids = calls[1].kids
  <2>1. m = 1 \/ 1 \in 1..(m - 1)
    BY DEF KillInv, KillTypes
  <2> QED
    BY <2>1
<1>3. KillControl'
  BY <1>2 DEF KillInv, KillTypes, KillControl
<1>4. Chained'
  <2> SUFFICES ASSUME NEW d \in 1..(m - 1)
               PROVE  /\ calls'[d].kid <= Len(calls'[d].kids)
                      /\ calls'[d].proc <= Len(procs)
                      /\ procs[calls'[d].proc].ppid = calls'[d].kids[calls'[d].kid]
                      /\ calls'[d + 1].kids = <<procs[calls'[d].proc].pid>>
    BY DEF Chained
  <2>1. d \in 1..(Len(calls) - 1) /\ calls'[d] = calls[d]
    BY DEF KillInv, KillTypes
  <2>2. calls'[d + 1].kids = calls[d + 1].kids
    <3>1. CASE d + 1 = m
      BY <3>1
    <3>2. CASE d + 1 # m
      <4>1. d + 1 \in 1..(m - 1)
        BY <3>2 DEF KillInv, KillTypes
      <4> QED
        BY <4>1
    <3> QED
      BY <3>1, <3>2
  <2> QED
    BY <2>1, <2>2 DEF KillInv, Chained
<1>5. ASSUME NEW d \in DOMAIN calls'
      PROVE  CallKept(calls'[d])
  <2>1. d = m \/ (d \in 1..(m - 1) /\ d \in DOMAIN calls)
    BY DEF KillInv, KillTypes
  <2> QED
    BY <2>1 DEF KillInv
<1>6. \A d \in DOMAIN calls' : CallKept(calls[d])'
  BY <1>5 DEF CallKept
<1> QED
  BY <1>1, <1>3, <1>4, <1>6 DEF KillInv

LEMMA LoadKeeps == KillInv /\ Load => KillInv'
<1> SUFFICES ASSUME KillInv, Load
             PROVE  KillInv'
  OBVIOUS
<1>1. KillTypes' /\ KillControl'
  BY DEF KillInv, KillTypes, KillControl, Load
<1>2. Len(calls) = 0
  BY DEF KillInv, KillTypes, KillControl, Load
<1> QED
  BY <1>1, <1>2 DEF KillInv, KillTypes, Load, Chained

LEMMA EnterKeeps == KillInv /\ Enter => KillInv'
<1> SUFFICES ASSUME KillInv, Enter
             PROVE  KillInv'
  OBVIOUS
<1>1. Len(calls) = 0 /\ DOMAIN calls = {}
  BY DEF KillInv, KillTypes, KillControl, Enter
<1>2. KillTypes' /\ KillControl'
  BY <1>1, GivenAssumption DEF KillInv, KillTypes, KillControl, Enter
<1>3. Chained' /\ \A d \in DOMAIN calls' : CallKept(calls[d])'
  BY <1>1 DEF Enter, Chained
<1>4. ~(step' \in {"kill", "killed"} /\ ppt_OK')
  BY DEF Enter
<1> QED
  BY <1>2, <1>3, <1>4 DEF KillInv

LEMMA FetchTableKeeps == KillInv /\ FetchTable => KillInv'
<1> SUFFICES ASSUME KillInv, FetchTable
             PROVE  KillInv'
  OBVIOUS
<1>1. procs' \in Seq(Processes) /\ Len(procs') \in Nat
  BY TablesAssumption DEF FetchTable
<1>2. given \in Seq(Nat) /\ pids = given /\ ppt_OK
  BY DEF KillInv, KillTypes, KillControl, FetchTable
<1>3. GetPids(given) \in Calls /\ GetPids(given).kids = given
  BY <1>2 DEF GetPids, Calls
<1>4. calls' \in Seq(Calls) /\ Len(calls') = 1 /\ calls'[1] = GetPids(given)
  BY <1>2, <1>3 DEF FetchTable
<1>5. CallInv(procs', Range(given), given, 1, 1, <<>>)
  BY <1>1, <1>2, NewCall
<1>6. CallKept(calls[1])'
  BY <1>4, <1>5 DEF CallKept, GetPids, FetchTable
<1>7. KillTypes' /\ KillControl'
  BY <1>1, <1>2, <1>3, <1>4 DEF KillInv, KillTypes, KillControl, FetchTable
<1>8. Chained'
  BY <1>4 DEF Chained
<1>9. \A d \in DOMAIN calls' : CallKept(calls[d])'
  <2>1. DOMAIN calls' = {1}
    BY <1>4
  <2> QED
    BY <1>6, <2>1
<1> QED
  BY <1>7, <1>8, <1>9 DEF KillInv, FetchTable

\* The call at work.
LEMMA CallAtWork ==
  ASSUME KillInv, step = "looking"
  PROVE  /\ Len(calls) \in Nat \ {0} /\ calls \in Seq(Calls) /\ procs \in Seq(Processes)
         /\ call = calls[Len(calls)] /\ call \in Calls /\ CallKept(call)
         /\ call.kids \in Seq(Nat) /\ call.kid \in Nat /\ call.proc \in Nat
         /\ call.pids \in Seq(Nat)
         /\ call.kid \in 1..(Len(call.kids) + 1) /\ call.proc \in 1..(Len(procs) + 1)
<1>1. Len(calls) \in Nat \ {0} /\ calls \in Seq(Calls) /\ procs \in Seq(Processes)
  BY DEF KillInv, KillTypes, KillControl
<1>2. call \in Calls
  BY <1>1 DEF call
<1>3. Len(calls) \in DOMAIN calls
  BY <1>1
<1>4. CallKept(call)
  BY <1>3 DEF KillInv, call
<1>5. InLoops(procs, call.kids, call.kid, call.proc)
  BY <1>4 DEF CallKept, CallInv
<1>6. /\ call.kids \in Seq(Nat) /\ call.kid \in Nat /\ call.proc \in Nat
      /\ call.pids \in Seq(Nat)
  BY <1>2 DEF Calls
<1>7. call = calls[Len(calls)]
  BY DEF call
<1>8. call.kid \in 1..(Len(call.kids) + 1) /\ call.proc \in 1..(Len(procs) + 1)
  BY <1>5 DEF InLoops
<1> QED
  BY <1>1, <1>2, <1>4, <1>6, <1>7, <1>8

LEMMA LastEdited ==
  ASSUME NEW s \in Seq(Calls), Len(s) > 0, NEW c \in Calls,
         NEW t, t = [s EXCEPT ![Len(s)] = c]
  PROVE  /\ t \in Seq(Calls) /\ Len(t) = Len(s) /\ t[Len(s)] = c
         /\ \A d \in 1..(Len(s) - 1) : t[d] = s[d]
  OBVIOUS

LEMMA SkipStepKeeps == KillInv /\ Skip => KillInv'
<1> SUFFICES ASSUME KillInv, Skip
             PROVE  KillInv'
  OBVIOUS
<1> DEFINE n == Len(calls)
           c == [call EXCEPT !.proc = @ + 1]
<1>1. step = "looking" /\ UNCHANGED <<ppt_OK, given, pids, procs, signalled, step>>
  BY DEF Skip, Looking
<1>2. n \in Nat \ {0} /\ calls \in Seq(Calls) /\ call \in Calls
  BY <1>1, CallAtWork
<1>3. /\ c \in Calls /\ c.kids = call.kids /\ c.kid = call.kid
      /\ c.proc = call.proc + 1 /\ c.pids = call.pids
  <2>1. call = [kids |-> call.kids, kid |-> call.kid, proc |-> call.proc, pids |-> call.pids]
    BY <1>2, CallParts
  <2>2. c = [kids |-> call.kids, kid |-> call.kid, proc |-> call.proc + 1, pids |-> call.pids]
    BY <2>1
  <2> HIDE DEF c
  <2> QED
    BY <1>2, <2>2, CallParts DEF Calls
<1>4. calls' = [calls EXCEPT ![n] = c]
  BY DEF Skip, call
<1> HIDE DEF c
<1>5. /\ calls' \in Seq(Calls) /\ Len(calls') = n /\ calls'[n] = c
      /\ \A d \in 1..(n - 1) : calls'[d] = calls[d]
  BY <1>2, <1>3, <1>4, LastEdited
<1>6. CallInv(procs, Range(given), call.kids, call.kid, call.proc + 1, call.pids)
  BY <1>1, CallAtWork, SkipKeeps DEF Skip, Looking, CallKept
<1>7. CallKept(c)
  BY <1>3, <1>6 DEF CallKept
<1> QED
  BY <1>1, <1>2, <1>3, <1>5, <1>7, TopKeeps DEF call

LEMMA NextKidStepKeeps == KillInv /\ NextKid => KillInv'
<1> SUFFICES ASSUME KillInv, NextKid
             PROVE  KillInv'
  OBVIOUS
<1> DEFINE n == Len(calls)
<1> PICK c : c = [call EXCEPT !.kid = @ + 1, !.proc = 1]
  OBVIOUS
<1>1. step = "looking" /\ UNCHANGED <<ppt_OK, given, pids, procs, signalled, step>>
  BY DEF NextKid, Looking
<1>2. n \in Nat \ {0} /\ calls \in Seq(Calls) /\ call \in Calls
  BY <1>1, CallAtWork
<1>3. /\ c \in Calls /\ c.kids = call.kids /\ c.kid = call.kid + 1
      /\ c.proc = 1 /\ c.pids = call.pids
  <2>1. call = [kids |-> call.kids, kid |-> call.kid, proc |-> call.proc, pids |-> call.pids]
    BY <1>2, CallParts
  <2>2. c = [kids |-> call.kids, kid |-> call.kid + 1, proc |-> 1, pids |-> call.pids]
    BY <2>1
  <2> QED
    BY <1>2, <2>2, CallParts DEF Calls
<1>4. calls' = [calls EXCEPT ![n] = c]
  BY <1>2 DEF NextKid, call
<1>5. /\ calls' \in Seq(Calls) /\ Len(calls') = n /\ calls'[n] = c
      /\ \A d \in 1..(n - 1) : calls'[d] = calls[d]
  BY <1>2, <1>3, <1>4, LastEdited
<1>6. CallInv(procs, Range(given), call.kids, call.kid + 1, 1, call.pids)
  BY <1>1, CallAtWork, NextKidKeeps DEF NextKid, Looking, CallKept
<1>7. CallKept(c)
  BY <1>3, <1>6 DEF CallKept
<1>8. n \in 1..Len(calls) /\ calls'[n].kids = calls[n].kids /\ CallKept(calls'[n])
  BY <1>2, <1>3, <1>5, <1>7 DEF call
<1> QED
  BY <1>1, <1>5, <1>8, TopKeeps

LEMMA NestKeeps == KillInv /\ Nest => KillInv'
<1> SUFFICES ASSUME KillInv, Nest
             PROVE  KillInv'
  OBVIOUS
<1> DEFINE n == Len(calls)
           x == procs[call.proc].pid
           c == GetPids(<<x>>)
<1>1. step = "looking" /\ UNCHANGED <<ppt_OK, given, pids, procs, signalled, step>>
  BY DEF Nest, Looking
<1>2. n \in Nat \ {0} /\ calls \in Seq(Calls) /\ call \in Calls
  BY <1>1, CallAtWork
<1>3. /\ call.kid \in DOMAIN call.kids /\ call.proc \in DOMAIN procs
      /\ call.kid <= Len(call.kids) /\ call.proc <= Len(procs)
      /\ procs[call.proc].ppid = call.kids[call.kid]
  BY <1>1, CallAtWork, SMTT(30) DEF Nest, Looking
<1>4. x \in Nat
  <2>1. procs \in Seq(Processes)
    BY <1>1, CallAtWork
  <2>2. procs[call.proc] \in Processes
    BY <1>3, <2>1
  <2> QED
    BY <2>2 DEF Processes
<1>5. x \in Descendants(procs, Range(given))
  <2>1. call.kids[call.kid] \in Range(given) \cup Descendants(procs, Range(given))
    BY <1>1, <1>3, CallAtWork DEF CallKept, CallInv, Range
  <2> QED
    BY <1>3, <2>1, ChildOfFamily
<1>6. /\ c \in Calls /\ c.kids = <<x>> /\ c.kid = 1 /\ c.proc = 1 /\ c.pids = <<>>
  BY <1>4 DEF GetPids, Calls
<1>7. CallInv(procs, Range(given), <<x>>, 1, 1, <<>>)
  <2>1. <<x>> \in Seq(Nat) /\ Range(<<x>>) = {x}
    BY <1>4 DEF Range
  <2>2. Len(procs) \in Nat
    BY <1>1, CallAtWork
  <2>3. Range(<<x>>) \subseteq Range(given) \cup Descendants(procs, Range(given))
    BY <1>5, <2>1
  <2> QED
    BY <2>1, <2>2, <2>3, NewCall
<1>8. CallKept(c)
  BY <1>6, <1>7 DEF CallKept
<1>9. calls' = Append(calls, c)
  BY DEF Nest
<1> HIDE DEF c
<1>10. /\ calls' \in Seq(Calls) /\ Len(calls') = n + 1 /\ calls'[n + 1] = c
       /\ \A d \in 1..n : calls'[d] = calls[d]
  BY <1>2, <1>6, <1>9
<1>11. KillTypes'
  BY <1>1, <1>10 DEF KillInv, KillTypes
<1>12. KillControl'
  BY <1>1, <1>2, <1>10 DEF KillInv, KillControl
<1>13. Chained'
  <2> SUFFICES ASSUME NEW d \in 1..n
               PROVE  /\ calls'[d].kid <= Len(calls'[d].kids)
                      /\ calls'[d].proc <= Len(procs)
                      /\ procs[calls'[d].proc].ppid = calls'[d].kids[calls'[d].kid]
                      /\ calls'[d + 1].kids = <<procs[calls'[d].proc].pid>>
    BY <1>1, <1>2, <1>10 DEF Chained
  <2>1. CASE d = n
    BY <1>3, <1>6, <1>10, <2>1 DEF call
  <2>2. CASE d # n
    <3>1. d \in 1..(n - 1) /\ d + 1 \in 1..n
      BY <1>2, <2>2
    <3> QED
      BY <1>10, <3>1 DEF KillInv, Chained
  <2> QED
    BY <2>1, <2>2
<1>14. \A d \in DOMAIN calls' : CallKept(calls'[d])
  <2>1. \A d \in DOMAIN calls' : d = n + 1 \/ (d \in 1..n /\ d \in DOMAIN calls)
    BY <1>2, <1>10
  <2> QED
    BY <1>8, <1>10, <2>1 DEF KillInv
<1>15. \A d \in DOMAIN calls' : CallKept(calls[d])'
  BY <1>1, <1>14 DEF CallKept
<1> QED
  BY <1>1, <1>11, <1>12, <1>13, <1>15 DEF KillInv

\* The caller of the call at work, and where it waits.
LEMMA Caller ==
  ASSUME KillInv, step = "looking", Len(calls) > 1, NEW c, c = calls[Len(calls) - 1]
  PROVE  /\ c \in Calls /\ CallKept(c)
         /\ c.kids \in Seq(Nat) /\ c.kid \in Nat /\ c.proc \in Nat /\ c.pids \in Seq(Nat)
         /\ c.kid <= Len(c.kids) /\ c.proc <= Len(procs) /\ c.proc \in DOMAIN procs
         /\ procs[c.proc].ppid = c.kids[c.kid]
         /\ call.kids = <<procs[c.proc].pid>>
<1>1. Len(calls) - 1 \in 1..(Len(calls) - 1) /\ Len(calls) - 1 \in DOMAIN calls
      /\ (Len(calls) - 1) + 1 = Len(calls)
  BY CallAtWork
<1>2. c \in Calls /\ CallKept(c)
  <2>1. calls \in Seq(Calls)
    BY CallAtWork
  <2> QED
    BY <1>1, <2>1 DEF KillInv
<1>3. /\ c.kids \in Seq(Nat) /\ c.kid \in Nat /\ c.proc \in Nat /\ c.pids \in Seq(Nat)
  BY <1>2, CallParts
<1>4. /\ c.kid <= Len(c.kids) /\ c.proc <= Len(procs)
      /\ procs[c.proc].ppid = c.kids[c.kid]
      /\ call.kids = <<procs[c.proc].pid>>
  BY <1>1 DEF KillInv, Chained, call
<1>5. c.proc \in 1..(Len(procs) + 1)
  BY <1>2 DEF CallKept, CallInv, InLoops
<1> QED
  BY <1>2, <1>3, <1>4, <1>5, CallAtWork

LEMMA Shorter ==
  ASSUME NEW n \in Nat, n > 1, NEW k \in Nat,
         k = IF 1 <= n - 2 THEN (n - 2) - 1 + 1 ELSE 0
  PROVE  k = n - 2
  OBVIOUS

LEMMA AllButTwo ==
  ASSUME NEW s \in Seq(Calls), Len(s) > 1, NEW u, u = SubSeq(s, 1, Len(s) - 2)
  PROVE  u \in Seq(Calls) /\ Len(u) = Len(s) - 2 /\ \A d \in 1..(Len(s) - 2) : u[d] = s[d]
<1>1. Len(s) - 2 \in Nat /\ \A d \in 1..(Len(s) - 2) : s[d] \in Calls
  OBVIOUS
<1>2. /\ u \in Seq(Calls)
      /\ Len(u) = IF 1 <= Len(s) - 2 THEN (Len(s) - 2) - 1 + 1 ELSE 0
      /\ \A d \in 1..((Len(s) - 2) - 1 + 1) : u[d] = s[1 + d - 1]
  BY <1>1, SubSeqProperties
<1>3. Len(u) = Len(s) - 2
  <2>1. Len(s) \in Nat /\ Len(u) \in Nat
    BY <1>2
  <2> QED
    BY <1>2, <2>1, Shorter
<1>4. \A d \in 1..(Len(s) - 2) : d \in 1..((Len(s) - 2) - 1 + 1) /\ 1 + d - 1 = d
  BY <1>1
<1> QED
  BY <1>2, <1>3, <1>4

LEMMA ReturnStepKeeps == KillInv /\ Return => KillInv'
<1> SUFFICES ASSUME KillInv, Return
             PROVE  KillInv'
  OBVIOUS
<1> DEFINE m == Len(calls) - 1
           caller == calls[Len(calls) - 1]
           x == procs[caller.proc].pid
           all == Append(caller.pids, x) \o call.pids
<1> PICK c : c = [caller EXCEPT !.pids = all, !.proc = @ + 1]
  OBVIOUS
<1>1. /\ step = "looking" /\ UNCHANGED <<ppt_OK, given, pids, procs, signalled, step>>
      /\ Len(calls) > 1 /\ call.kid > Len(call.kids)
  BY DEF Return
<1>2. /\ caller \in Calls /\ CallKept(caller)
      /\ caller.kids \in Seq(Nat) /\ caller.kid \in Nat /\ caller.proc \in Nat
      /\ caller.pids \in Seq(Nat)
      /\ caller.kid <= Len(caller.kids) /\ caller.proc <= Len(procs)
      /\ caller.proc \in DOMAIN procs
      /\ procs[caller.proc].ppid = caller.kids[caller.kid]
      /\ call.kids = <<x>>
  BY <1>1, Caller
<1>3. calls' = Append(SubSeq(calls, 1, Len(calls) - 2), c)
  BY DEF Return, Push
<1> HIDE DEF caller
<1>4. x \in Nat
  BY <1>1, <1>2, CallAtWork DEF Processes
<1>5. all \in Seq(Nat) /\ Pushes(all, caller.pids, x, call.pids)
  BY <1>1, <1>2, <1>4, CallAtWork, PushShape
<1>6. CallInv(procs, Range(given), <<x>>, 2, call.proc, call.pids)
  <2>1. call.kid = 2
    BY <1>1, <1>2, CallAtWork
  <2> QED
    BY <1>1, <1>2, <2>1, CallAtWork DEF CallKept
<1> HIDE DEF all, x
<1>7. CallInv(procs, Range(given), caller.kids, caller.kid, caller.proc, caller.pids)
  BY <1>2 DEF CallKept
<1>8. CallInv(procs, Range(given), caller.kids, caller.kid, caller.proc + 1, all)
  <2>1. x = procs[caller.proc].pid
    BY DEF x
  <2>2. procs \in Seq(Processes) /\ call.proc \in Nat /\ call.pids \in Seq(Nat)
    BY <1>1, CallAtWork
  <2> QED
    BY <1>2, <1>4, <1>5, <1>6, <1>7, <2>1, <2>2, ReturnKeeps
<1>9. /\ c \in Calls /\ c.kids = caller.kids /\ c.kid = caller.kid
      /\ c.proc = caller.proc + 1 /\ c.pids = all
  <2>1. caller = [kids |-> caller.kids, kid |-> caller.kid, proc |-> caller.proc,
                  pids |-> caller.pids]
    BY <1>2, CallParts
  <2>2. c = [kids |-> caller.kids, kid |-> caller.kid, proc |-> caller.proc + 1, pids |-> all]
    BY <2>1
  <2> QED
    BY <1>2, <1>5, <2>2 DEF Calls
<1>10. CallKept(c)
  BY <1>8, <1>9 DEF CallKept
<1>11. calls \in Seq(Calls) /\ m \in 1..Len(calls)
  BY <1>1, CallAtWork
<1>12. /\ calls' \in Seq(Calls) /\ Len(calls') = m /\ calls'[m] = c
       /\ \A d \in 1..(m - 1) : calls'[d] = calls[d]
  <2> DEFINE u == SubSeq(calls, 1, Len(calls) - 2)
  <2>1. /\ u \in Seq(Calls) /\ Len(u) = Len(calls) - 2
        /\ \A d \in 1..(Len(calls) - 2) : u[d] = calls[d]
    BY <1>1, <1>11, AllButTwo
  <2>2. calls' = Append(u, c)
    BY <1>3
  <2> HIDE DEF u
  <2> QED
    BY <1>1, <1>9, <1>11, <2>1, <2>2
<1>13. calls'[m].kids = calls[m].kids
  BY <1>9, <1>12 DEF caller
<1> HIDE DEF m
<1> QED
  BY <1>1, <1>10, <1>11, <1>12, <1>13, TopKeeps

LEMMA FoundKeeps == KillInv /\ Found => KillInv'
<1> SUFFICES ASSUME KillInv, Found
             PROVE  KillInv'
  OBVIOUS
<1>1. /\ step = "looking" /\ Len(calls) = 1 /\ call.kid > Len(call.kids)
      /\ UNCHANGED <<ppt_OK, given, procs, signalled>>
      /\ pids' = pids \o call.pids /\ calls' = <<>> /\ step' = "kill"
  BY DEF Found
<1>2. ppt_OK /\ pids = given /\ given \in Seq(Nat) /\ call.kids = given
  BY <1>1 DEF KillInv, KillTypes, KillControl, call
<1>3. call.kid = Len(given) + 1 /\ call.pids \in Seq(Nat) /\ call.proc \in Nat
  BY <1>1, <1>2, CallAtWork
<1>4. CallInv(procs, Range(given), given, Len(given) + 1, call.proc, call.pids)
  BY <1>1, <1>2, <1>3, CallAtWork DEF CallKept
<1>5. Answered'
  BY <1>1, <1>2, <1>3, <1>4 DEF Answered
<1>6. pids' \in Seq(Nat)
  BY <1>1, <1>2, <1>3
<1>7. calls' \in Seq(Calls) /\ Len(calls') = 0 /\ DOMAIN calls' = {}
  BY <1>1
<1>8. KillTypes'
  BY <1>1, <1>6, <1>7 DEF KillInv, KillTypes
<1>9. KillControl'
  BY <1>1, <1>2, <1>7 DEF KillControl
<1>10. Chained'
  BY <1>7 DEF Chained
<1> QED
  BY <1>5, <1>7, <1>8, <1>9, <1>10 DEF KillInv

LEMMA KillKeeps == KillInv /\ Kill => KillInv'
<1> SUFFICES ASSUME KillInv, Kill
             PROVE  KillInv'
  OBVIOUS
<1>1. KillTypes' /\ KillControl'
  BY DEF KillInv, KillTypes, KillControl, Kill
<1>2. Chained' /\ \A d \in DOMAIN calls' : CallKept(calls[d])'
  BY DEF KillInv, Chained, CallKept, Kill
<1>3. step' \in {"kill", "killed"} /\ ppt_OK' => Answered'
  BY DEF KillInv, Answered, Kill
<1> QED
  BY <1>1, <1>2, <1>3 DEF KillInv

LEMMA KillInvStep == KillInv /\ [KillNext]_killVars => KillInv'
<1> SUFFICES ASSUME KillInv, [KillNext]_killVars
             PROVE  KillInv'
  OBVIOUS
<1>1. CASE UNCHANGED killVars
  <2>1. KillTypes' /\ KillControl' /\ Chained'
    BY <1>1 DEF killVars, KillInv, KillTypes, KillControl, Chained
  <2>2. \A d \in DOMAIN calls' : CallKept(calls[d])'
    BY <1>1 DEF killVars, KillInv, CallKept
  <2>3. step' \in {"kill", "killed"} /\ ppt_OK' => Answered'
    BY <1>1 DEF killVars, KillInv, Answered
  <2> QED
    BY <2>1, <2>2, <2>3 DEF KillInv
<1> QED
  BY <1>1, LoadKeeps, EnterKeeps, FetchTableKeeps, SkipStepKeeps, NestKeeps,
     NextKidStepKeeps, ReturnStepKeeps, FoundKeeps, KillKeeps DEF KillNext

-----------------------------------------------------------------------------
(* What the invariant says of killfam() *)

\* The calls that wait are at children of one another.
LEMMA CallsGoDown ==
  ASSUME KillInv, Len(calls) > Len(procs) + 1
  PROVE  Endless(procs, Range(given))
<1> DEFINE n == Len(calls) - 1
           to == [d \in 1..n |-> calls[d].proc]
           A == Range(given)
<1>1. /\ Len(calls) \in Nat /\ Len(procs) \in Nat
      /\ procs \in Seq(Processes) /\ calls \in Seq(Calls)
  BY DEF KillInv, KillTypes
<1>2. n \in Nat /\ n > Len(procs)
  BY <1>1
<1>3. ASSUME NEW d \in 1..n
      PROVE  /\ d \in DOMAIN calls /\ calls[d] \in Calls /\ CallKept(calls[d])
             /\ calls[d].proc \in DOMAIN procs
             /\ calls[d].kid \in DOMAIN calls[d].kids
             /\ procs[calls[d].proc].ppid = calls[d].kids[calls[d].kid]
             /\ calls[d + 1].kids = <<procs[calls[d].proc].pid>>
  <2>1. d \in DOMAIN calls /\ calls[d] \in Calls /\ CallKept(calls[d])
    BY <1>1 DEF KillInv
  <2>2. /\ calls[d].kids \in Seq(Nat)
        /\ calls[d].proc \in 1..(Len(procs) + 1)
        /\ calls[d].kid \in 1..(Len(calls[d].kids) + 1)
    BY <2>1 DEF CallKept, CallInv, InLoops, Calls
  <2>3. /\ calls[d].kid <= Len(calls[d].kids) /\ calls[d].proc <= Len(procs)
        /\ procs[calls[d].proc].ppid = calls[d].kids[calls[d].kid]
        /\ calls[d + 1].kids = <<procs[calls[d].proc].pid>>
    BY DEF KillInv, Chained
  <2> QED
    BY <1>1, <2>1, <2>2, <2>3
<1>4. to \in [1..n -> DOMAIN procs]
  BY <1>3
<1>5. ASSUME NEW d \in 1..n
      PROVE  procs[to[d]].pid \in Descendants(procs, A)
  <2>1. calls[d].kids[calls[d].kid] \in A \cup Descendants(procs, A)
    BY <1>3 DEF CallKept, CallInv, Range
  <2>2. to[d] = calls[d].proc
    OBVIOUS
  <2> QED
    BY <1>3, <2>1, <2>2, ChildOfFamily
<1>6. ASSUME NEW d \in 1..(n - 1)
      PROVE  procs[to[d + 1]].ppid = procs[to[d]].pid
  <2>1. d \in 1..n /\ d + 1 \in 1..n
    BY <1>1
  <2>2. calls[d + 1].kids = <<procs[calls[d].proc].pid>>
    BY <1>3, <2>1
  <2>3. calls[d + 1].kid = 1
    BY <1>3, <2>1, <2>2
  <2>4. procs[calls[d + 1].proc].ppid = procs[calls[d].proc].pid
    BY <1>3, <2>1, <2>2, <2>3
  <2> QED
    BY <2>1, <2>4
<1> HIDE DEF n, to, A
<1>7. Endless(procs, A)
  BY <1>1, <1>2, <1>4, <1>5, <1>6, DeepIsEndless
<1> QED
  BY <1>7 DEF A

\* The places of what get_pids() found, counted from the first of them.
TimesFrom(s, first, p) == {m \in first..Len(s) : s[m] = p}

LEMMA PlacesShift ==
  ASSUME NEW s \in Seq(Nat), NEW t \in Seq(Nat), NEW p
  PROVE  Cardinality(TimesFrom(s \o t, Len(s) + 1, p))
           = Cardinality(Times(t, p))
<1> DEFINE r == s \o t
           P == {m \in (Len(s) + 1)..Len(r) : r[m] = p}
           Q == {m \in DOMAIN t : t[m] = p}
           f == [m \in Q |-> Len(s) + m]
<1>1. Len(s) \in Nat /\ Len(t) \in Nat /\ Len(r) = Len(s) + Len(t) /\ DOMAIN t = 1..Len(t)
  OBVIOUS
<1>2. \A m \in 1..Len(t) : r[Len(s) + m] = t[m]
  OBVIOUS
<1> HIDE DEF r
<1>3. f \in [Q -> P]
  BY <1>1, <1>2
<1>4. \A m, n \in Q : f[m] = f[n] => m = n
  BY <1>1
<1>5. ASSUME NEW k \in P
      PROVE  \E m \in Q : f[m] = k
  <2>1. k - Len(s) \in 1..Len(t) /\ Len(s) + (k - Len(s)) = k
    BY <1>1
  <2>2. k - Len(s) \in Q
    BY <1>1, <1>2, <2>1
  <2> QED
    BY <2>1, <2>2
<1>6. IsFiniteSet(Q)
  <2>1. IsFiniteSet(1..Len(t))
    BY FS_Interval
  <2>2. Q \in SUBSET (1..Len(t))
    BY <1>1
  <2> QED
    BY <2>1, <2>2, FS_Subset
<1>7. f \in Bijection(Q, P)
  <2> HIDE DEF f, P, Q
  <2> QED
    BY <1>3, <1>4, <1>5 DEF Bijection, Injection, Surjection, IsInjective
<1>8. ExistsBijection(Q, P)
  BY <1>7 DEF ExistsBijection
<1>9. Cardinality(P) = Cardinality(Q)
  <2> HIDE DEF P, Q
  <2> QED
    BY <1>6, <1>8, FS_Bijection
<1> QED
  BY <1>9 DEF r, Times, TimesFrom

LEMMA RangeOfBoth ==
  ASSUME NEW s \in Seq(Nat), NEW t \in Seq(Nat)
  PROVE  Range(s \o t) = Range(s) \cup Range(t)
<1> DEFINE r == s \o t
<1>1. /\ DOMAIN r = 1..(Len(s) + Len(t)) /\ DOMAIN s = 1..Len(s) /\ DOMAIN t = 1..Len(t)
      /\ Len(s) \in Nat /\ Len(t) \in Nat
  OBVIOUS
<1>2. \A m \in 1..Len(s) : r[m] = s[m]
  OBVIOUS
<1>3. \A m \in 1..Len(t) : r[Len(s) + m] = t[m]
  OBVIOUS
<1>4. \A m \in DOMAIN r :
        m \in 1..Len(s) \/ (m - Len(s) \in 1..Len(t) /\ Len(s) + (m - Len(s)) = m)
  BY <1>1
<1>5. \A m \in 1..Len(s) : m \in DOMAIN r
  BY <1>1
<1>6. \A m \in 1..Len(t) : Len(s) + m \in DOMAIN r
  BY <1>1
<1> HIDE DEF r
<1>7. Range(r) \subseteq Range(s) \cup Range(t)
  <2> SUFFICES ASSUME NEW m \in DOMAIN r
               PROVE  r[m] \in Range(s) \cup Range(t)
    BY DEF Range
  <2>1. CASE m \in 1..Len(s)
    BY <1>1, <1>2, <2>1 DEF Range
  <2>2. CASE m - Len(s) \in 1..Len(t) /\ Len(s) + (m - Len(s)) = m
    <3>1. r[m] = t[m - Len(s)]
      BY <1>3, <2>2
    <3> QED
      BY <1>1, <2>2, <3>1 DEF Range
  <2> QED
    BY <1>4, <2>1, <2>2
<1>8. Range(s) \subseteq Range(r)
  BY <1>1, <1>2, <1>5 DEF Range
<1>9. Range(t) \subseteq Range(r)
  BY <1>1, <1>3, <1>6 DEF Range
<1> QED
  BY <1>7, <1>8, <1>9 DEF r

LEMMA SignalsFamily == KillInv => FamiliesSignalled
<1> SUFFICES ASSUME KillInv
             PROVE  FamiliesSignalled
  OBVIOUS
<1>1. Len(calls) > Len(procs) + 1 => Endless(procs, Range(given))
  BY CallsGoDown
<1>2. ASSUME step = "killed", ~ppt_OK
      PROVE  signalled = given
  BY <1>2 DEF KillInv, KillControl
<1>3. ASSUME step = "killed", ppt_OK
      PROVE  /\ ~Endless(procs, Range(given))
             /\ Range(signalled) = Range(given) \cup Descendants(procs, Range(given))
             /\ Distinct(procs) =>
                  \A p \in PidsOf(procs) :
                    Cardinality(PlacesOf(p)) = Cardinality(AncestorsOf(p))
  <2>1. PICK found \in Seq(Nat), proc \in Nat :
          /\ pids = given \o found
          /\ CallInv(procs, Range(given), given, Len(given) + 1, proc, found)
    BY <1>3 DEF KillInv, Answered
  <2>2. procs \in Seq(Processes) /\ given \in Seq(Nat) /\ signalled = given \o found
    BY <1>3, <2>1 DEF KillInv, KillTypes, KillControl
  <2>3. ~Endless(procs, Range(given))
    BY <2>1, <2>2, ReturnsOnlyForests
  <2>4. Range(signalled) = Range(given) \cup Descendants(procs, Range(given))
    BY <2>1, <2>2, ReturnsFamily, RangeOfBoth
  <2>5. ASSUME Distinct(procs), NEW p \in PidsOf(procs)
        PROVE  Cardinality(PlacesOf(p)) = Cardinality(AncestorsOf(p))
    <3>1. Cardinality(Times(found, p)) = Cardinality(KidsAbove(procs, given, p))
      BY <2>1, <2>2, <2>5, ReturnsOnceEach
    <3>2. Cardinality(TimesFrom(signalled, Len(given) + 1, p)) = Cardinality(Times(found, p))
      BY <2>2, PlacesShift
    <3>3. TimesFrom(signalled, Len(given) + 1, p) = PlacesOf(p)
      BY DEF TimesFrom, PlacesOf
    <3>4. KidsAbove(procs, given, p) = AncestorsOf(p)
      BY DEF KidsAbove, AncestorsOf
    <3> QED
      BY <3>1, <3>2, <3>3, <3>4
  <2> QED
    BY <2>3, <2>4, <2>5
<1> QED
  BY <1>1, <1>2, <1>3 DEF FamiliesSignalled

\* For every table and every list of pids: killfam() signals the pids given and
\* their descendants, each as often as get_pids() has to find it, and comes to
\* an end of no table on which get_pids() has none.
THEOREM FamilyExact == KillSpec => []FamiliesSignalled
<1>1. KillSpec => []KillInv
  BY KillInvInit, KillInvStep, PTL DEF KillSpec
<1> QED
  BY <1>1, SignalsFamily, PTL
=============================================================================
