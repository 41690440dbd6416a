------------------------- MODULE BackendScanProofs -------------------------
(***************************************************************************)
(* What the scans of all backends promise, for any number of slots, forks  *)
(* and entries in a block: each is proved once for every program that      *)
(* keeps to its outline.                                                   *)
(***************************************************************************)
EXTENDS BackendOutlines, FiniteSetTheorems, SequenceTheorems

-----------------------------------------------------------------------------
(* The invariant *)

\* The program that runs is as its outline says.
Static == Whole(ScanOf, backend) /\ Sound(ScanOf, backend)

OutlineOf == Outlines[backend]
Steps == Len(ScanOf.accesses)

\* The variables' types.
Types ==
  /\ uses \in [Table -> [times : Nat, now : BOOLEAN]]
  /\ \A s \in Table : uses[s].times <= forks + 1
  /\ forks \in 0..MaxForks
  /\ steady \subseteq InUse /\ listed \subseteq Table /\ seen \subseteq Table
  /\ backend \in Backends
  /\ pc \in {"start", "fetch", "next", "scrape", "bless"} \cup Ended
  /\ open \in BOOLEAN /\ more \in BOOLEAN /\ brief \in BOOLEAN /\ unread \in BOOLEAN
  /\ room \in 0..Slots
  /\ tries \in 0..MaxTries
  /\ index \in 1..(Slots + Block)
  /\ block \in Seq((Table \X Nat) \cup {Nobody, Garbage})
  /\ look \in 1..(Len(block) + 2)
  /\ entry \in Whom /\ hand \in Whom
  /\ step \in 1..(Steps + 1)
  /\ held \subseteq Things
  /\ val \in [Groups -> Whom]
  /\ lower \subseteq Groups /\ "base" \in lower \cup ScanOf.capitals
  /\ table \in Seq(0..Slots)
  /\ lost \in Nat
  /\ dropped \subseteq Table

\* Where the scan stands: at its start, between two entries, or at one.
Control ==
  /\ pc = "start" =>
       /\ index = 1 /\ seen = {} /\ more /\ ~open /\ ~unread
       /\ table = <<>> /\ dropped = {} /\ lost = 0
  /\ pc \in {"start", "fetch", "next"} =>
       /\ step = 1 /\ hand = Nobody /\ held = {} /\ ~brief
       /\ lower \cap ScanOf.capitals = {}
  /\ pc = "fetch" => more
  /\ pc \in {"scrape", "bless"} => entry \in Table \X Nat
  /\ pc = "scrape" => step <= Steps /\ ~brief
  /\ pc = "bless" => IF brief THEN step <= Steps /\ Now.refused = "brief"
                              ELSE step = Steps + 1
  /\ pc \in Ended /\ open =>
       \/ pc = "croaked" /\ backend = "FreeBSDKvm"
       \/ unread /\ seen = {} /\ backend = "Cygwin"
  /\ unread /\ backend \in Croaking => pc = "croaked"

\* The slots DEC OSF asks for are those of its table.
SlotsInv ==
  ScanOf.source = "slots" /\ more => index <= Slots /\ Len(block) = Block

\* The process at hand is the entry's, or nobody; and it is there where the
\* program relies on it.
HandInv ==
  pc \in {"scrape", "bless"} =>
    /\ hand = Nobody \/ (hand \in Table \X Nat /\ hand[1] = entry[1])
    /\ HandSure(OutlineOf, step) => hand # Nobody

Own(who) == who = Nobody \/ who[1] = entry[1]

\* A group that was filled, or whose letter was lowered, has a value of the
\* entry's pid.
OwnInv ==
  pc \in {"scrape", "bless"} =>
    \A g \in Groups \ Leftover(backend) :
      Provided(OutlineOf, step, g) \/ g \in lower \cap ScanOf.capitals => Own(val[g])

\* The pid's group has the entry's pid, and is shown, or unread tells.
BaseInv ==
  pc \in {"scrape", "bless"} /\ ~unread /\ HasBase(OutlineOf, step) =>
    val["base"][1] = entry[1] /\ "base" \in lower

\* What is held was taken on the way, and what a close() gives back is held
\* only while there is something to close.
HeldInv ==
  pc \in {"scrape", "bless"} /\ backend # "Darwin" =>
    \A x \in held : Pending(OutlineOf, step, x) /\ (x \in Later \/ hand # Nobody)

\* DEC OSF reads all groups through one descriptor.
SingleInv ==
  pc \in {"scrape", "bless"} /\ backend = "DecOSF" =>
    \A g \in Groups \ Leftover(backend) :
      Provided(OutlineOf, step, g) =>
        val[g] = IF hand = Nobody THEN val["base"] ELSE hand

\* The slots fetched and not looked at, the one in hand, and those done with.
Ahead ==
  IF pc \in {"next", "scrape", "bless"}
  THEN {block[i][1] : i \in look..Len(block)} \ {0} ELSE {}
InHand == IF pc \in {"scrape", "bless"} THEN {entry[1]} ELSE {}
Given == IF ScanOf.until = "one" THEN {} ELSE dropped
Behind == (Range(table) \ {0}) \cup Given

\* Not so when what was in a buffer is taken for something new.
Exact == ~(unread /\ backend \in Stale)

\* The walk does not meet a slot again.
OnceInv ==
  Exact =>
    /\ \A s \in Ahead \cup InHand \cup Behind :
         IF ScanOf.source = "names" THEN s \in seen ELSE s < index
    /\ InHand \cap (Ahead \cup Behind) = {}
    /\ Ahead \cap Behind = {}
    /\ pc \in {"next", "scrape", "bless"} =>
         \A i, j \in look..Len(block) :
           block[i] # Garbage /\ (block[i][1] = block[j][1] /\ block[i][1] # 0 => i = j)
    /\ \A i, j \in DOMAIN table : table[i] = table[j] /\ table[i] # 0 => i = j

\* The slots that are yet to be fetched.
Left ==
  IF pc = "done" \/ ~more THEN {}
  ELSE IF ScanOf.source = "names" THEN Table \ seen ELSE {s \in Table : index <= s}

\* A process that stays alive is on the table, or the walk will meet it.
ReachInv ==
  pc \notin {"start", "croaked"} /\ ~unread =>
    steady \ dropped \subseteq Range(table) \cup InHand \cup Ahead \cup Left

\* What is lost was held for an entry that was given up.
LostInv ==
  /\ lost > 0 => backend \in Losing \cup {"Darwin"}
  /\ backend \in Losing /\ Exact => lost <= Cardinality(dropped)

IInv ==
  /\ Types /\ Control /\ SlotsInv /\ HandInv /\ OwnInv /\ BaseInv /\ HeldInv
  /\ SingleInv /\ OnceInv /\ ReachInv /\ LostInv

-----------------------------------------------------------------------------
(* What the outline says of the access at hand, and of the program *)

LEMMA StaticHolds ==
  ASSUME Types
  PROVE  Static
BY ProgramKeeps DEF Types, Static, ScanOf

LEMMA NowKeeps ==
  ASSUME Static, step \in 1..Steps
  PROVE  /\ SoundAccess(Now, OutlineOf, backend, step)
         /\ Now.gets \subseteq Groups
<1>1. Keeps(ScanOf, backend, step)
  BY DEF Static, Sound, Steps
<1>2. step \in DOMAIN ScanOf.accesses
  BY DEF Static, Whole, Steps
<1> QED
  BY <1>1, <1>2 DEF Keeps, Now, OutlineOf, Groups

LEMMA ProgramFacts ==
  ASSUME Static
  PROVE  /\ Steps \in Nat \ {0}
         /\ SoundEnd(OutlineOf, backend, Steps)
         /\ "base" \in Groups
         /\ DOMAIN OutlineOf.filled \subseteq Groups
         /\ Groups \ Leftover(backend) \subseteq ScanOf.capitals \cup DOMAIN OutlineOf.filled
<1>1. Steps \in Nat \ {0} /\ SoundEnd(OutlineOf, backend, Steps)
      /\ DOMAIN ScanOf.accesses = 1..Steps
  BY DEF Static, Whole, Steps, OutlineOf
<1>2. \A i \in 1..Steps : Keeps(ScanOf, backend, i)
  BY DEF Static, Sound, Steps
<1>3. "base" \in Groups
  <2>1. OutlineOf.base \in 1..Steps
    BY <1>1 DEF SoundEnd
  <2>2. "base" \in ScanOf.accesses[OutlineOf.base].gets
    BY <2>1, <1>2 DEF Keeps, SoundAccess, SoundBase, OutlineOf
  <2> QED
    BY <1>1, <2>1, <2>2 DEF Groups
<1>4. ASSUME NEW g \in DOMAIN OutlineOf.filled
      PROVE  g \in Groups
  <2>1. OutlineOf.filled[g] \in 1..Steps
    BY <1>1 DEF SoundEnd
  <2>2. g \in ScanOf.accesses[OutlineOf.filled[g]].gets
    BY <2>1, <1>2 DEF Keeps, SoundAccess, SoundValues, OutlineOf
  <2> QED
    BY <1>1, <2>1, <2>2 DEF Groups
<1>5. ASSUME NEW g \in Groups \ Leftover(backend)
      PROVE  g \in ScanOf.capitals \cup DOMAIN OutlineOf.filled
  <2>1. PICK i \in 1..Steps : g \in ScanOf.accesses[i].gets
    BY <1>1 DEF Groups
  <2> QED
    BY <2>1, <1>2 DEF Keeps, SoundGroups, OutlineOf
<1> QED
  BY <1>1, <1>3, <1>4, <1>5

LEMMA SameProgram ==
  ASSUME UNCHANGED backend
  PROVE  ScanOf' = ScanOf /\ Groups' = Groups /\ OutlineOf' = OutlineOf /\ Steps' = Steps
BY DEF ScanOf, Groups, OutlineOf, Steps

LEMMA WhomFacts ==
  /\ Nobody \in Whom /\ Garbage \in Whom /\ Self \in Whom
  /\ Nobody[1] = 0 /\ Garbage[1] = 0 /\ Self[1] = 0
  /\ Nobody # Garbage /\ Nobody # Self /\ Garbage # Self
  /\ \A w \in Table \X Nat : w \in Whom /\ w # Nobody /\ w # Garbage /\ w[1] \in Table /\ w[1] # 0
  /\ \A w \in Whom : w[1] \in 0..Slots
  /\ 0 \notin Table
BY ProgramsAssumption DEF Whom, Nobody, Garbage, Self, Table

LEMMA ProcessFacts ==
  ASSUME Types, NEW s \in Table
  PROVE  Process(s) \in Table \X Nat /\ Process(s)[1] = s
BY DEF Types, Process

-----------------------------------------------------------------------------
(* The steps that go on with the next access are one, as far as the         *)
(* invariant can tell: what they do to the process at hand, the groups, the *)
(* pid and what is held.                                                    *)

HandStep ==
  \/ hand' = Process(entry[1]) /\ Now.way \in {"open", "attempt"}
  \/ hand' = hand /\ ~(Now.way = "open" /\ Now.refused = "skip")
  \/ /\ hand' = Nobody
     /\ Now.way = "close" \/ Now.refused \in {"leave", "lose"}
     /\ ~(Now.way = "open" /\ Now.refused = "skip")

\* An access that does not go on without a value.
Fills ==
  \/ Now.way = "set"
  \/ /\ Now.refused \in {"skip", "brief"}
     /\ Now.way = "pid" \/ (Now.way = "read" /\ hand # Nobody)

ValStep ==
  \/ val' = val /\ lower' \subseteq lower /\ ~Fills
  \/ SetSome /\ lower' = lower /\ ~Fills
  \/ \E who \in Whom :
       /\ Set(who)
       /\ lower' \subseteq lower \cup (Now.gets \cap ScanOf.capitals)
       /\ Own(who) \/ Now.gets \subseteq Leftover(backend)
       /\ Now.way = "read" /\ Now.refused = "skip" => who = hand
       /\ Now.way = "set" /\ Now.from \notin {"entry", "nothing"} => who = val[Now.from]

\* An access that has the entry's pid.
Grabs ==
  /\ "base" \in Now.gets
  /\ \/ Now.way \in {"set", "pid"} /\ Now.from = "entry"
     \/ Now.way = "read" /\ hand # Nobody

BaseStep ==
  /\ "base" \in lower => "base" \in lower'
  /\ ~unread' /\ Grabs => val'["base"][1] = entry[1] /\ "base" \in lower'

HeldStep ==
  /\ \A x \in held' :
       x \in held \/ (x \in Now.takes /\ (Now.way \in {"open", "attempt"} => hand' # Nobody))
  /\ Now.way = "set" \/ (Now.way = "close" /\ hand # Nobody) => held' \cap Now.frees = {}

GoesOn ==
  /\ pc = "scrape"
  /\ GoOn
  /\ HandStep /\ ValStep /\ BaseStep /\ HeldStep
  /\ unread' \in BOOLEAN
  /\ unread => unread'
  /\ unread' => unread \/ backend \notin Croaking
  /\ UNCHANGED <<kernel, backend, fetching, entry, brief, table, lost, dropped>>

AtEntry == Types /\ Control /\ HandInv /\ OwnInv

\* What an access that takes the value of a group, or the entry, finds.
LEMMA HoldsOwn ==
  ASSUME AtEntry, Static, pc = "scrape", Now.way \in {"set", "case"}
  PROVE  /\ Holds(Now.from) \in Whom
         /\ Own(Holds(Now.from)) \/ Now.gets \subseteq Leftover(backend)
<1>1. step \in 1..Steps
  BY DEF AtEntry, Types, Control
<1>2. SoundValues(Now, OutlineOf, backend, step)
  BY <1>1, NowKeeps DEF SoundAccess
<1>3. DOMAIN OutlineOf.filled \subseteq Groups /\ "base" \in Groups
  BY ProgramFacts
<1>4. CASE Now.from = "entry"
  BY <1>4 DEF Holds, Own, AtEntry, Types
<1>5. CASE Now.from = "nothing"
  BY <1>5, WhomFacts DEF Holds, Own
<1>6. CASE Now.from \notin {"entry", "nothing"}
  <2>1. Holds(Now.from) = val[Now.from] /\ Now.from \in Groups
    BY <1>2, <1>3, <1>6 DEF Holds, SoundValues
  <2>2. val[Now.from] \in Whom
    BY <2>1 DEF AtEntry, Types
  <2>3. CASE Now.from \notin Leftover(backend) /\ Provided(OutlineOf, step, Now.from)
    BY <2>1, <2>2, <2>3 DEF AtEntry, OwnInv
  <2> QED
    BY <1>2, <1>6, <2>1, <2>2, <2>3 DEF SoundValues
<1> QED
  BY <1>4, <1>5, <1>6

LEMMA EntryFacts ==
  ASSUME AtEntry, pc = "scrape"
  PROVE  /\ entry[1] \in Table /\ entry[1] # 0 /\ step \in 1..Steps
         /\ Process(entry[1]) \in Whom /\ Process(entry[1]) # Nobody
         /\ Own(Process(entry[1])) /\ Own(Nobody) /\ Own(hand)
         /\ Process(entry[1])[1] = entry[1]
         /\ hand # Nobody => hand[1] = entry[1]
         /\ hand \in Whom
<1>1. entry \in Table \X Nat /\ Types /\ step \in 1..Steps
  BY DEF AtEntry, Control, Types
<1>2. entry[1] \in Table /\ entry[1] # 0
  BY <1>1, WhomFacts
<1>3. Process(entry[1]) \in Table \X Nat /\ Process(entry[1])[1] = entry[1]
  BY <1>1, <1>2, ProcessFacts
<1> QED
  BY <1>1, <1>2, <1>3, WhomFacts DEF AtEntry, HandInv, Own, Types

\* An access that succeeds: it is enough to know whom it has found.
Found(who) ==
  /\ who \in Whom
  /\ Own(who) \/ Now.gets \subseteq Leftover(backend)
  /\ Now.way = "read" => who = hand
  /\ Now.way = "set" /\ Now.from \notin {"entry", "nothing"} => who = val[Now.from]
  /\ Grabs => who[1] = entry[1]

LEMMA ObtainGoesOn ==
  ASSUME AtEntry, Static, pc = "scrape", NEW who, Found(who),
         Set(who),
         lower' = lower \cup (Now.gets \cap ScanOf.capitals) \/ (lower' = lower /\ ~Grabs),
         held' \subseteq (held \cup Now.takes) \ Now.frees,
         GoOn, HandStep, Now.way \in {"open", "attempt"} => hand' # Nobody,
         Unmoved
  PROVE  GoesOn
<1>1. ValStep
  BY DEF ValStep, Found
<1>2. BaseStep
  <2>1. Grabs => val'["base"] = who /\ "base" \in Now.gets
    BY ProgramFacts DEF Set, Grabs
  <2>2. "base" \in lower \cup ScanOf.capitals
    BY DEF AtEntry, Types
  <2> QED
    BY <2>1, <2>2 DEF BaseStep, Found
<1>3. HeldStep
  BY DEF HeldStep
<1> QED
  BY <1>1, <1>2, <1>3 DEF GoesOn, Unmoved, history, AtEntry, Types

LEMMA EmptyGoesOn ==
  ASSUME AtEntry, Static, Empty
  PROVE  GoesOn
<1>1. pc = "scrape" /\ Now.way = "set" /\ Now.from = "nothing" /\ hand' = hand
  BY DEF Empty, At
<1>2. Found(Nobody)
  BY <1>1, EntryFacts, WhomFacts DEF Found, Grabs
<1> QED
  BY <1>1, <1>2, ObtainGoesOn DEF Empty, HandStep, Grabs

LEMMA TakeGoesOn ==
  ASSUME AtEntry, Static, Assign \/ Match
  PROVE  GoesOn
<1>1. pc = "scrape" /\ Now.way \in {"set", "case"} /\ hand' = hand /\ Obtain(Holds(Now.from))
      /\ (Now.way = "set" => Now.from # "nothing")
  BY DEF Assign, Match, At
<1>2. Found(Holds(Now.from))
  BY <1>1, HoldsOwn, EntryFacts DEF Found, Grabs, Holds
<1> QED
  BY <1>1, <1>2, ObtainGoesOn DEF Assign, Match, Obtain, HandStep

LEMMA AskGoesOn ==
  ASSUME AtEntry, Static, AskByNumber
  PROVE  GoesOn
<1>1. pc = "scrape" /\ Now.way = "pid" /\ hand' = hand
  BY DEF AskByNumber, At
<1>2. SoundValues(Now, OutlineOf, backend, step)
  BY <1>1, EntryFacts, NowKeeps DEF SoundAccess
<1>3. Holds(Now.from) \in Whom
  <2>1. Now.from \in {"entry", "nothing"} \cup Groups
    BY <1>1, <1>2, ProgramFacts DEF SoundValues
  <2> QED
    BY <2>1, WhomFacts DEF Holds, AtEntry, Types
<1>4. PICK who : Obtain(who)
                 /\ \/ who = Self /\ Holds(Now.from)[1] = 0
                    \/ who = Process(Holds(Now.from)[1]) /\ Holds(Now.from)[1] # 0
  BY DEF AskByNumber
<1>5. who \in Whom
  <2>1. Holds(Now.from)[1] \in 0..Slots
    BY <1>3, WhomFacts
  <2> QED
    BY <1>4, <2>1, WhomFacts, ProcessFacts DEF AtEntry, Table
<1>6. Now.from = "entry" => who = Process(entry[1])
  BY <1>1, <1>4, EntryFacts DEF Holds
<1>7. Found(who)
  BY <1>1, <1>2, <1>5, <1>6, EntryFacts DEF Found, Grabs, SoundValues
<1> QED
  BY <1>1, <1>4, <1>7, ObtainGoesOn DEF AskByNumber, Obtain, HandStep

LEMMA OpenGoesOn ==
  ASSUME AtEntry, Static, OpenProcess
  PROVE  GoesOn
<1>1. pc = "scrape" /\ Now.way \in {"open", "attempt"}
  BY DEF OpenProcess, At
<1>2. Found(Process(entry[1]))
  BY <1>1, EntryFacts DEF Found, Grabs
<1> QED
  BY <1>1, <1>2, EntryFacts, ObtainGoesOn DEF OpenProcess, Obtain, HandStep

LEMMA ReadGoesOn ==
  ASSUME AtEntry, Static, ReadOpen
  PROVE  GoesOn
<1>1. pc = "scrape" /\ Now.way = "read" /\ hand' = hand /\ hand # Nobody
  BY DEF ReadOpen, At
<1>2. Found(hand)
  BY <1>1, EntryFacts DEF Found, Grabs
<1> QED
  BY <1>1, <1>2, ObtainGoesOn DEF ReadOpen, Obtain, HandStep

LEMMA NothingGoesOn ==
  ASSUME AtEntry, Static, Recheck \/ Allocate \/ CloseProcess
  PROVE  GoesOn
<1>1. /\ pc = "scrape" /\ Now.way \in {"gone", "system", "memory", "close"}
      /\ Obtain(Nobody) /\ Unmoved
      /\ hand' = hand \/ (hand' = Nobody /\ Now.way = "close")
  BY DEF Recheck, Allocate, CloseProcess, At
<1>2. Found(Nobody)
  BY <1>1, EntryFacts, WhomFacts DEF Found, Grabs
<1> QED
  BY <1>1, <1>2, ObtainGoesOn DEF Obtain, HandStep

LEMMA PassOverGoesOn ==
  ASSUME AtEntry, Static, PassOver
  PROVE  GoesOn
<1>1. /\ pc = "scrape" /\ GoOn /\ Unmoved /\ UNCHANGED <<hand, held, val, lower>>
      /\ \/ Now.way \in {"read", "memory", "close"} /\ hand = Nobody
         \/ Now.way \in {"gone", "attempt"}
  BY DEF PassOver, At
<1>2. HandStep /\ HeldStep
  BY <1>1 DEF HandStep, HeldStep
<1>3. ValStep
  BY <1>1 DEF ValStep, Fills
<1>4. BaseStep
  BY <1>1 DEF BaseStep, Grabs
<1> QED
  BY <1>1, <1>2, <1>3, <1>4 DEF GoesOn, Unmoved, history, AtEntry, Types

LEMMA RefusedGoesOnGoesOn ==
  ASSUME AtEntry, Static, RefusedGoesOn
  PROVE  GoesOn
<1>1. /\ pc = "scrape" /\ Now.way \notin {"set", "close"}
      /\ (Now.way = "read" => hand # Nobody)
      /\ Now.refused \in {"keep", "clear", "part", "spoil", "lose", "hide", "leave"}
      /\ held' \subseteq held
      /\ unread' = (unread \/ "base" \in Now.gets)
  BY DEF RefusedGoesOn, MayBeRefused
<1>2. SoundAccess(Now, OutlineOf, backend, step)
  BY <1>1, EntryFacts, NowKeeps
<1>3. HandStep
  BY <1>1 DEF RefusedGoesOn, HandStep
<1>4. ValStep
  <2>1. CASE val' = val /\ lower' \subseteq lower
    BY <1>1, <2>1 DEF ValStep, Fills
  <2>2. CASE Set(Nobody) /\ lower' = lower
    BY <1>1, <2>2, WhomFacts, EntryFacts DEF ValStep
  <2>3. CASE Now.refused \in {"spoil", "lose"} /\ Set(Garbage) /\ lower' = lower
    BY <1>1, <1>2, <2>3, WhomFacts DEF ValStep, SoundAccess, SoundValues
  <2>4. CASE Now.refused = "part" /\ SetSome /\ lower' = lower
    BY <1>1, <2>4 DEF ValStep, Fills
  <2> QED
    BY <2>1, <2>2, <2>3, <2>4 DEF RefusedGoesOn
<1>5. BaseStep
  <2>1. "base" \in lower => "base" \in lower'
    BY <1>2 DEF RefusedGoesOn, SoundAccess, SoundBase
  <2> QED
    BY <1>1, <2>1 DEF BaseStep, Grabs
<1>6. HeldStep
  BY <1>1 DEF HeldStep
<1>7. unread' => unread \/ backend \notin Croaking
  BY <1>1, <1>2 DEF SoundAccess, SoundBase
<1> QED
  BY <1>1, <1>3, <1>4, <1>5, <1>6, <1>7 DEF GoesOn, RefusedGoesOn, AtEntry, Types

LEMMA AccessGoesOn ==
  ASSUME AtEntry, Static,
         \/ Empty \/ Assign \/ Match \/ AskByNumber \/ Recheck \/ OpenProcess
         \/ ReadOpen \/ Allocate \/ CloseProcess \/ PassOver \/ RefusedGoesOn
  PROVE  GoesOn
BY EmptyGoesOn, TakeGoesOn, AskGoesOn, OpenGoesOn, ReadGoesOn, NothingGoesOn,
   PassOverGoesOn, RefusedGoesOnGoesOn

-----------------------------------------------------------------------------
(* Going on with the next access keeps the invariant *)

LEMMA GoesOnTypes ==
  ASSUME IInv, Static, GoesOn
  PROVE  Types'
<1>1. /\ step \in 1..Steps /\ Steps \in Nat
      /\ Now.gets \subseteq Groups
      /\ SoundAccess(Now, OutlineOf, backend, step)
  BY NowKeeps, ProgramFacts DEF IInv, Types, Control, GoesOn
<1>2. hand' \in Whom
  BY EntryFacts, WhomFacts DEF IInv, AtEntry, GoesOn, HandStep
<1>3. val' \in [Groups -> Whom] /\ lower' \subseteq Groups
  <2>1. Process(entry[1]) \in Whom
    BY EntryFacts DEF IInv, AtEntry, GoesOn
  <2> QED
    BY <1>1, <2>1 DEF IInv, Types, GoesOn, ValStep, Set, SetSome
<1>7. "base" \in lower' \cup ScanOf.capitals
  BY DEF IInv, Types, GoesOn, BaseStep
<1>4. held' \subseteq Things
  BY <1>1 DEF IInv, Types, GoesOn, HeldStep, SoundAccess, SoundHeld
<1>5. step' \in 1..(Steps + 1) /\ pc' \in {"scrape", "bless"}
  BY <1>1 DEF GoesOn, GoOn, Steps
<1>6. InUse' = InUse
  BY DEF GoesOn, kernel, InUse, Alive
<1> QED
  BY <1>2, <1>3, <1>4, <1>5, <1>6, <1>7, SameProgram
  DEF IInv, Types, GoesOn, kernel, fetching

LEMMA GoesOnControl ==
  ASSUME IInv, Static, GoesOn
  PROVE  Control'
<1>1. step \in 1..Steps /\ Steps \in Nat /\ ~brief /\ entry \in Table \X Nat
  BY ProgramFacts DEF IInv, Types, Control, GoesOn
<1>2. \/ pc' = "scrape" /\ step' \in 1..Steps
      \/ pc' = "bless" /\ step' = Steps + 1
  BY <1>1 DEF GoesOn, GoOn, Steps
<1>3. ~(unread' /\ backend \in Croaking)
  BY DEF IInv, Control, GoesOn
<1> QED
  BY <1>1, <1>2, <1>3, SameProgram DEF Control, GoesOn, Ended

LEMMA GoesOnHand ==
  ASSUME IInv, Static, GoesOn
  PROVE  HandInv'
<1>1. /\ step \in 1..Steps
      /\ SoundHand(Now, OutlineOf, backend, step)
      /\ SoundEnd(OutlineOf, backend, Steps)
  BY NowKeeps, ProgramFacts DEF IInv, Types, Control, GoesOn, SoundAccess
<1>2. step' = step + 1 /\ pc = "scrape" /\ HandStep /\ entry' = entry
  BY DEF GoesOn, GoOn
<1>3. hand' = Nobody \/ (hand' \in Table \X Nat /\ hand'[1] = entry[1])
  <2>1. entry[1] \in Table
    BY <1>2, EntryFacts DEF IInv, AtEntry
  <2> QED
    BY <1>2, <2>1, ProcessFacts DEF IInv, HandStep, HandInv
<1>4. ASSUME HandSure(OutlineOf, step + 1)
      PROVE  hand' # Nobody
  <2>1. OutlineOf.opened <= step /\ step + 1 <= OutlineOf.closed
    BY <1>1, <1>4 DEF HandSure, SoundEnd
  <2>2. CASE OutlineOf.opened = step
    BY <1>1, <1>2, <2>2, EntryFacts DEF SoundHand, HandStep, IInv, AtEntry
  <2>3. CASE OutlineOf.opened < step
    <3>1. hand # Nobody
      BY <1>1, <1>2, <2>1, <2>3 DEF IInv, HandInv, HandSure, SoundEnd
    <3>2. Now.way # "close" /\ Now.refused \notin {"leave", "lose"}
      BY <1>1, <2>1, <2>3 DEF SoundHand, SoundEnd
    <3> QED
      BY <1>2, <3>1, <3>2, EntryFacts DEF HandStep, IInv, AtEntry
  <2> QED
    BY <1>1, <2>1, <2>2, <2>3 DEF SoundEnd
<1> QED
  BY <1>2, <1>3, <1>4, SameProgram DEF HandInv, GoesOn

\* A group that is filled by this access, or before it.
LEMMA Filled ==
  ASSUME IInv, Static, pc = "scrape", NEW g,
         Provided(OutlineOf, step + 1, g), ~Provided(OutlineOf, step, g)
  PROVE  Fills /\ g \in Now.gets
<1>1. /\ step \in 1..Steps
      /\ SoundValues(Now, OutlineOf, backend, step)
      /\ SoundEnd(OutlineOf, backend, Steps)
  BY NowKeeps, ProgramFacts DEF IInv, Types, Control, SoundAccess
<1>2. g \in DOMAIN OutlineOf.filled /\ OutlineOf.filled[g] = step
  BY <1>1 DEF Provided, SoundEnd
<1>3. HandSure(OutlineOf, step) => hand # Nobody
  BY DEF IInv, HandInv
<1> QED
  BY <1>1, <1>2, <1>3 DEF SoundValues, Fills

LEMMA GoesOnOwn ==
  ASSUME IInv, Static, GoesOn
  PROVE  OwnInv'
<1>1. pc = "scrape" /\ step' = step + 1 /\ entry' = entry /\ backend' = backend /\ ValStep
  BY DEF GoesOn, GoOn
<1>2. ASSUME NEW g \in Groups \ Leftover(backend),
             Provided(OutlineOf, step + 1, g) \/ g \in lower' \cap ScanOf.capitals
      PROVE  Own(val'[g])
  <2>1. \/ Provided(OutlineOf, step, g)
        \/ Fills /\ g \in Now.gets
        \/ g \in lower' \cap ScanOf.capitals
    BY <1>1, <1>2, Filled
  <2>2. Provided(OutlineOf, step, g) \/ g \in lower \cap ScanOf.capitals => Own(val[g])
    BY <1>1 DEF IInv, OwnInv
  <2>3. CASE val' = val /\ lower' \subseteq lower /\ ~Fills
    BY <2>1, <2>2, <2>3
  <2>4. ASSUME NEW who \in Whom, Set(who),
               lower' \subseteq lower \cup (Now.gets \cap ScanOf.capitals),
               Own(who) \/ Now.gets \subseteq Leftover(backend)
        PROVE  Own(val'[g])
    BY <2>1, <2>2, <2>4 DEF Set
  <2>5. CASE SetSome /\ lower' = lower /\ ~Fills
    BY <1>1, <2>1, <2>2, <2>5, EntryFacts DEF SetSome, IInv, AtEntry
  <2> QED
    BY <1>1, <2>3, <2>4, <2>5 DEF ValStep
<1> QED
  BY <1>1, <1>2, SameProgram DEF OwnInv, Own

LEMMA GoesOnBase ==
  ASSUME IInv, Static, GoesOn
  PROVE  BaseInv'
<1>1. pc = "scrape" /\ step' = step + 1 /\ entry' = entry /\ backend' = backend
      /\ ValStep /\ BaseStep /\ (unread => unread')
  BY DEF GoesOn, GoOn
<1>2. /\ step \in 1..Steps
      /\ SoundBase(Now, OutlineOf, backend, step)
      /\ SoundEnd(OutlineOf, backend, Steps)
      /\ "base" \in Groups
  BY NowKeeps, ProgramFacts DEF IInv, Types, Control, GoesOn, SoundAccess
<1>3. ASSUME ~unread', HasBase(OutlineOf, step + 1)
      PROVE  val'["base"][1] = entry[1] /\ "base" \in lower'
  <2>1. OutlineOf.base <= step
    BY <1>2, <1>3 DEF HasBase, SoundEnd
  <2>2. CASE OutlineOf.base = step
    <3>1. Grabs
      BY <1>1, <1>2, <2>2 DEF SoundBase, Grabs, IInv, HandInv
    <3> QED
      BY <1>1, <1>3, <3>1 DEF BaseStep
  <2>3. CASE OutlineOf.base < step
    <3>1. "base" \notin Now.gets
      BY <1>2, <2>3 DEF SoundBase
    <3>2. val'["base"] = val["base"]
      BY <1>1, <1>2, <3>1 DEF ValStep, Set, SetSome
    <3> QED
      BY <1>1, <1>3, <2>3, <3>2 DEF IInv, BaseInv, HasBase, BaseStep
  <2> QED
    BY <1>2, <2>1, <2>2, <2>3 DEF SoundEnd
<1> QED
  BY <1>1, <1>3, SameProgram DEF BaseInv

LEMMA GoesOnHeld ==
  ASSUME IInv, Static, GoesOn
  PROVE  HeldInv'
<1>1. pc = "scrape" /\ step' = step + 1 /\ backend' = backend /\ HeldStep /\ HandStep
  BY DEF GoesOn, GoOn
<1>2. /\ step \in 1..Steps
      /\ SoundHeld(Now, OutlineOf, backend, step)
      /\ SoundEnd(OutlineOf, backend, Steps)
  BY NowKeeps, ProgramFacts DEF IInv, Types, Control, GoesOn, SoundAccess
<1>3. ASSUME backend # "Darwin", NEW x \in held'
      PROVE  Pending(OutlineOf, step + 1, x) /\ (x \in Later \/ hand' # Nobody)
  <2>1. CASE x \in Now.takes /\ (Now.way \in {"open", "attempt"} => hand' # Nobody)
    BY <1>2, <1>3, <2>1 DEF SoundHeld, SoundEnd, Pending
  <2>2. CASE x \in held
    <3>1. Pending(OutlineOf, step, x) /\ (x \in Later \/ hand # Nobody)
      BY <1>1, <1>3, <2>2 DEF IInv, HeldInv
    <3>2. x \in DOMAIN OutlineOf.kept
          /\ OutlineOf.kept[x][1] \in Nat /\ OutlineOf.kept[x][2] \in Nat
      BY <1>2, <3>1 DEF Pending, SoundEnd
    <3>3. OutlineOf.kept[x][2] # step
      BY <1>1, <1>2, <1>3, <3>1, <3>2 DEF SoundHeld, HeldStep
    <3>4. Pending(OutlineOf, step + 1, x)
      BY <1>2, <3>1, <3>2, <3>3 DEF Pending
    <3>5. x \in Later \/ hand' # Nobody
      BY <1>1, <1>2, <1>3, <3>1, <3>2, <3>3, EntryFacts
      DEF SoundHeld, HandStep, IInv, AtEntry
    <3> QED
      BY <3>4, <3>5
  <2> QED
    BY <1>1, <2>1, <2>2 DEF HeldStep
<1> QED
  BY <1>1, <1>3, SameProgram DEF HeldInv

LEMMA GoesOnSingle ==
  ASSUME IInv, Static, GoesOn
  PROVE  SingleInv'
<1>1. pc = "scrape" /\ step' = step + 1 /\ backend' = backend /\ ValStep /\ HandStep
  BY DEF GoesOn, GoOn
<1>2. /\ step \in 1..Steps
      /\ SoundAccess(Now, OutlineOf, backend, step)
      /\ SoundEnd(OutlineOf, backend, Steps)
      /\ "base" \in Groups
  BY NowKeeps, ProgramFacts DEF IInv, Types, Control, GoesOn
<1>3. ASSUME backend = "DecOSF", NEW g \in Groups \ Leftover(backend),
             Provided(OutlineOf, step + 1, g)
      PROVE  val'[g] = IF hand' = Nobody THEN val'["base"] ELSE hand'
  <2>1. "base" \notin Leftover(backend)
    BY <1>3 DEF Leftover
  <2>2. Now.refused \notin {"leave", "lose"}
    BY <1>2, <1>3 DEF SoundAccess, SoundHeld
  <2>3. Provided(OutlineOf, step, g) \/ (Fills /\ g \in Now.gets)
    BY <1>1, <1>3, Filled
  <2>4. ASSUME NEW h \in Groups \ Leftover(backend), Provided(OutlineOf, step, h)
        PROVE  val[h] = IF hand = Nobody THEN val["base"] ELSE hand
    BY <1>1, <1>3, <2>4 DEF IInv, SingleInv
  <2>5. CASE Now.way = "read" /\ Now.refused = "skip" /\ HandSure(OutlineOf, step)
    <3>1. hand # Nobody /\ hand' = hand
      BY <1>1, <2>2, <2>5 DEF IInv, HandInv, HandStep
    <3>2. val'[g] = hand
      BY <1>1, <1>3, <2>3, <2>4, <2>5, <3>1 DEF ValStep, Set, Fills
    <3> QED
      BY <3>1, <3>2
  <2>6. CASE /\ Now.way = "set" /\ Now.from \notin {"entry", "nothing"}
             /\ Now.gets = {Now.from}
    <3>1. hand' = hand
      BY <1>1, <2>2, <2>6 DEF HandStep
    <3>2. \A h \in Groups : val'[h] = val[h]
      BY <1>1, <2>6 DEF ValStep, Set, Fills
    <3>3. Provided(OutlineOf, step, g)
      BY <1>2, <1>3, <2>3, <2>6 DEF SoundAccess, SoundValues
    <3> QED
      BY <1>2, <1>3, <2>4, <3>1, <3>2, <3>3
  <2>7. CASE Now.gets \subseteq Leftover(backend)
    <3>1. val'[g] = val[g] /\ val'["base"] = val["base"]
      BY <1>1, <1>2, <1>3, <2>1, <2>7 DEF ValStep, Set, SetSome
    <3>2. Provided(OutlineOf, step, g)
      BY <1>3, <2>3, <2>7
    <3>3. Now.way \notin {"open", "attempt"}
      <4>1. OutlineOf.filled[g] \in 1..Steps /\ OutlineOf.filled[g] < step
        BY <1>2, <3>2 DEF Provided, SoundEnd
      <4> QED
        BY <1>2, <1>3, <4>1 DEF SoundAccess, SoundSingle
    <3>4. CASE hand' = hand
      BY <1>3, <2>4, <3>1, <3>2, <3>4
    <3>5. CASE hand' = Nobody /\ Now.way = "close"
      <4>1. Provided(OutlineOf, step, "base")
        BY <1>2, <1>3, <3>5 DEF SoundAccess, SoundSingle
      <4> QED
        BY <1>2, <1>3, <2>1, <2>4, <3>1, <3>2, <3>5, <4>1
    <3> QED
      BY <1>1, <2>2, <3>3, <3>4, <3>5 DEF HandStep
  <2> QED
    BY <1>2, <1>3, <2>5, <2>6, <2>7 DEF SoundAccess, SoundSingle
<1> QED
  BY <1>1, <1>3, SameProgram DEF SingleInv

\* As long as the entry is in hand, the walk stands still.
LEMMA WalkStands ==
  ASSUME IInv, pc \in {"scrape", "bless"}, pc' \in {"scrape", "bless"},
         unread => unread',
         UNCHANGED <<kernel, backend, fetching, entry, table, lost, dropped>>
  PROVE  SlotsInv' /\ OnceInv' /\ ReachInv' /\ LostInv'
<1>1. UNCHANGED <<block, look, index, more, seen, steady>>
  BY DEF fetching, kernel
<1>2. ScanOf' = ScanOf
  BY SameProgram
<1>3. Ahead' = Ahead /\ InHand' = InHand /\ Given' = Given /\ Behind' = Behind /\ Left' = Left
  BY <1>1, <1>2 DEF Ahead, InHand, Given, Behind, Left
<1>4. Exact' => Exact
  BY DEF Exact
<1>5. SlotsInv'
  BY <1>1, <1>2 DEF IInv, SlotsInv
<1>6. OnceInv'
  BY <1>1, <1>2, <1>3, <1>4 DEF IInv, OnceInv
<1>7. ReachInv'
  BY <1>1, <1>3 DEF IInv, ReachInv
<1>8. LostInv'
  BY <1>4 DEF IInv, LostInv
<1> QED
  BY <1>5, <1>6, <1>7, <1>8

LEMMA GoesOnInv ==
  ASSUME IInv, Static, GoesOn
  PROVE  IInv'
<1>1. pc' \in {"scrape", "bless"}
  BY DEF GoesOn, GoOn
<1>2. SlotsInv' /\ OnceInv' /\ ReachInv' /\ LostInv'
  BY <1>1, WalkStands DEF GoesOn
<1> QED
  BY <1>2, GoesOnTypes, GoesOnControl, GoesOnHand, GoesOnOwn, GoesOnBase,
     GoesOnHeld, GoesOnSingle DEF IInv

-----------------------------------------------------------------------------
(* The steps that end the work on an entry *)

LEMMA BriefInv ==
  ASSUME IInv, Static, RefusedIsBrief
  PROVE  IInv'
<1>1. /\ pc = "scrape" /\ pc' = "bless" /\ Now.refused = "brief" /\ brief' = TRUE
      /\ UNCHANGED <<kernel, backend, fetching, entry, step, hand, held, val, lower,
                     table, lost, dropped, unread>>
  BY DEF RefusedIsBrief, MayBeRefused, history
<1>2. ScanOf' = ScanOf /\ Groups' = Groups /\ OutlineOf' = OutlineOf /\ Steps' = Steps
  BY <1>1, SameProgram
<1>3. Now' = Now
  BY <1>1, <1>2 DEF Now
<1>4. Types'
  BY <1>1, <1>2 DEF IInv, Types, kernel, fetching, InUse, Alive
<1>5. Control'
  <2>1. ~(unread /\ backend \in Croaking)
    BY <1>1 DEF IInv, Control
  <2> QED
    BY <1>1, <1>2, <1>3, <2>1 DEF IInv, Control, Ended
<1>6. HandInv' /\ OwnInv' /\ BaseInv'
  BY <1>1, <1>2 DEF IInv, HandInv, OwnInv, BaseInv, Own
<1>7. HeldInv' /\ SingleInv'
  BY <1>1, <1>2 DEF IInv, HeldInv, SingleInv
<1>8. SlotsInv' /\ OnceInv' /\ ReachInv' /\ LostInv'
  BY <1>1, WalkStands
<1> QED
  BY <1>4, <1>5, <1>6, <1>7, <1>8 DEF IInv

\* A scan that has ended needs little.
LEMMA EndInv ==
  ASSUME IInv, Types', Control', pc' \in Ended, UNCHANGED <<backend, seen, index>>,
         pc' = "done" => unread' \/ (~more /\ pc = "next" /\ look > Len(block)),
         SlotsInv',
         unread => unread', UNCHANGED <<steady, table, lost, dropped>>
  PROVE  IInv'
<1>1. ScanOf' = ScanOf
  BY SameProgram
<1>2. Exact' => Exact
  BY DEF Exact
<1>3. pc' \notin {"start", "fetch", "next", "scrape", "bless"}
  BY DEF Ended
<1>4. HandInv' /\ OwnInv' /\ BaseInv' /\ HeldInv' /\ SingleInv'
  BY <1>3 DEF HandInv, OwnInv, BaseInv, HeldInv, SingleInv
<1>5. Ahead' = {} /\ InHand' = {} /\ Behind' = Behind
  BY <1>1, <1>3 DEF Ahead, InHand, Behind, Given
<1>6. OnceInv'
  BY <1>1, <1>2, <1>3, <1>5 DEF IInv, OnceInv
<1>7. ReachInv'
  <2>1. CASE unread' \/ pc' = "croaked"
    BY <2>1 DEF ReachInv
  <2>2. CASE pc' = "done" /\ ~unread'
    <3>1. pc = "next" /\ ~more /\ ~unread /\ look > Len(block)
      BY <2>2
    <3>2. look..Len(block) = {}
      <4>1. block \in Seq((Table \X Nat) \cup {Nobody, Garbage}) /\ look \in 1..(Len(block) + 2)
        BY DEF IInv, Types
      <4> QED
        BY <3>1, <4>1
    <3>3. Ahead = {} /\ InHand = {} /\ Left = {}
      BY <3>1, <3>2 DEF Ahead, InHand, Left
    <3> QED
      BY <3>1, <3>3 DEF IInv, ReachInv
  <2> QED
    BY <2>1, <2>2 DEF Ended
<1>8. LostInv'
  BY <1>2 DEF IInv, LostInv
<1> QED
  BY <1>4, <1>6, <1>7, <1>8 DEF IInv

LEMMA CroakInv ==
  ASSUME IInv, Static, RefusedCroaks
  PROVE  IInv'
<1>1. /\ pc = "scrape" /\ pc' = "croaked" /\ Now.refused = "croak"
      /\ UNCHANGED <<kernel, backend, fetching, record, table, lost, dropped, unread>>
  BY DEF RefusedCroaks, MayBeRefused, history
<1>2. ScanOf' = ScanOf /\ Groups' = Groups /\ OutlineOf' = OutlineOf /\ Steps' = Steps
  BY <1>1, SameProgram
<1>3. Types'
  BY <1>1, <1>2 DEF IInv, Types, kernel, fetching, record, InUse, Alive, Ended
<1>4. backend = "FreeBSDKvm"
  BY <1>1, NowKeeps DEF IInv, Types, Control, SoundAccess, SoundBase
<1>5. Control'
  BY <1>1, <1>4 DEF Control, Ended
<1>6. SlotsInv'
  BY <1>1, <1>2 DEF IInv, SlotsInv, fetching
<1> QED
  BY <1>1, <1>3, <1>5, <1>6, EndInv DEF kernel, fetching, Ended

LEMMA ThingsFinite == IsFiniteSet(Things)
<1> DEFINE Q == <<"psdata", "psgroups", "fp", "proc", "h", "port", "threads", "thval",
                  "command_name">>
<1>1. Q \in Seq(Things)
  BY DEF Things
<1>2. \A x \in Things : \E n \in 1..Len(Q) : Q[n] = x
  BY DEF Things
<1> QED
  BY <1>1, <1>2 DEF IsFiniteSet

\* What is still held when an entry is given up, or done with.
LEMMA SkipLoses ==
  ASSUME IInv, Static, RefusedSkips
  PROVE  /\ IsFiniteSet(held \ Now.returns)
         /\ backend # "Darwin" =>
              held \ Now.returns \subseteq IF backend \in Losing THEN {"psdata"} ELSE {}
<1>1. pc = "scrape" /\ Now.refused = "skip"
  BY DEF RefusedSkips, MayBeRefused
<1>2. SoundHeld(Now, OutlineOf, backend, step)
  BY <1>1, NowKeeps DEF IInv, Types, Control, SoundAccess
<1>3. IsFiniteSet(held \ Now.returns)
  <2>1. IsFiniteSet(Things)
    BY ThingsFinite
  <2> QED
    BY <2>1, FS_Subset DEF IInv, Types
<1>4. ASSUME backend # "Darwin", NEW x \in held \ Now.returns
      PROVE  backend \in Losing /\ x = "psdata"
  <2>1. Pending(OutlineOf, step, x)
    BY <1>1, <1>4 DEF IInv, HeldInv
  <2> QED
    BY <1>1, <1>2, <1>4, <2>1 DEF SoundHeld, Pending
<1> QED
  BY <1>3, <1>4

LEMMA BlessLoses ==
  ASSUME IInv, Static, pc = "bless"
  PROVE  IsFiniteSet(held) /\ (backend # "Darwin" => held = {})
<1>1. IsFiniteSet(held)
  <2>1. IsFiniteSet(Things)
    BY ThingsFinite
  <2> QED
    BY <2>1, FS_Subset DEF IInv, Types
<1>2. ASSUME backend # "Darwin", NEW x \in held
      PROVE  FALSE
  <2>1. Pending(OutlineOf, step, x)
    BY <1>2 DEF IInv, HeldInv
  <2>2. CASE brief
    <3>1. step \in 1..Steps /\ Now.refused = "brief"
      BY <2>2 DEF IInv, Types, Control
    <3> QED
      BY <1>2, <2>1, <3>1, NowKeeps DEF SoundAccess, SoundHeld, Pending
  <2>3. CASE ~brief
    <3>1. step = Steps + 1 /\ Steps \in Nat /\ SoundEnd(OutlineOf, backend, Steps)
      BY <2>3, ProgramFacts DEF IInv, Control
    <3> QED
      BY <2>1, <3>1 DEF SoundEnd, Pending
  <2> QED
    BY <2>2, <2>3 DEF IInv, Types
<1> QED
  BY <1>1, <1>2

\* The pid a record bears is that of its entry, or none, unless what was in a
\* buffer was taken for something new.
LEMMA BlessBase ==
  ASSUME IInv, Static, pc = "bless"
  PROVE  /\ val["base"] \in Whom
         /\ ~unread => val["base"][1] = entry[1] /\ "base" \in lower
         /\ Exact => val["base"][1] \in {0, entry[1]}
<1>1. /\ "base" \in Groups /\ SoundEnd(OutlineOf, backend, Steps)
      /\ Steps \in Nat
  BY ProgramFacts
<1>2. brief => step \in 1..Steps /\ Now.refused = "brief"
  BY DEF IInv, Types, Control
<1>3. ~brief => step = Steps + 1
  BY DEF IInv, Control
<1>4. HasBase(OutlineOf, step)
      /\ ("base" \in DOMAIN OutlineOf.filled => Provided(OutlineOf, step, "base"))
  <2>1. CASE brief
    BY <1>2, <2>1, NowKeeps DEF SoundAccess, SoundBase
  <2>2. CASE ~brief
    BY <1>1, <1>3, <2>2 DEF SoundEnd, HasBase, Provided
  <2> QED
    BY <2>1, <2>2
<1>5. ~unread => val["base"][1] = entry[1] /\ "base" \in lower
  BY <1>4 DEF IInv, BaseInv
<1>6. ASSUME backend \notin Stale
      PROVE  val["base"][1] \in {0, entry[1]}
  <2>1. "base" \notin Leftover(backend) /\ "base" \in DOMAIN OutlineOf.filled
    BY <1>1, <1>6 DEF SoundEnd, Stale
  <2>2. Own(val["base"])
    BY <1>1, <1>4, <2>1 DEF IInv, OwnInv
  <2> QED
    BY <2>2, WhomFacts DEF Own
<1> QED
  BY <1>1, <1>5, <1>6 DEF Exact, IInv, Types

\* What both of them do to the record, with what is still held.
LEMMA ForgetRecord ==
  ASSUME IInv, Static, pc \in {"scrape", "bless"}, NEW still, Forget(still),
         IsFiniteSet(still),
         UNCHANGED <<kernel, backend, fetching, val, unread>>,
         table' \in Seq(0..Slots), dropped' \subseteq Table
  PROVE  /\ Types' /\ Control' /\ SlotsInv'
         /\ HandInv' /\ OwnInv' /\ BaseInv' /\ HeldInv' /\ SingleInv'
<1>1. ScanOf' = ScanOf /\ Groups' = Groups /\ OutlineOf' = OutlineOf /\ Steps' = Steps
  BY SameProgram
<1>2. /\ held' = {} /\ entry' = Nobody /\ hand' = Nobody /\ step' = 1
      /\ brief' = FALSE /\ pc' = "next"
      /\ lower' = IF ScanOf.letters = "each" THEN Groups \ ScanOf.capitals ELSE lower
      /\ lost' = lost + Cardinality(still)
  BY DEF Forget
<1>3. Steps \in Nat \ {0}
  BY ProgramFacts
<1>4. Types'
  <2>1. lost' \in Nat
    BY <1>2, FS_CardinalityType DEF IInv, Types
  <2>2. lower' \subseteq Groups /\ "base" \in lower' \cup ScanOf.capitals
    BY <1>2, ProgramFacts DEF IInv, Types
  <2>3. Nobody \in Whom /\ step' \in 1..(Steps + 1) /\ held' \subseteq Things
    BY <1>2, <1>3, WhomFacts
  <2>4. InUse' = InUse
    BY DEF kernel, InUse, Alive
  <2> QED
    BY <1>1, <1>2, <2>1, <2>2, <2>3, <2>4 DEF IInv, Types, kernel, fetching
<1>5. Control'
  <2>1. ~(unread /\ backend \in Croaking)
    BY DEF IInv, Control
  <2>2. lower' \cap ScanOf.capitals = {}
    BY <1>2 DEF Static, Whole
  <2> QED
    BY <1>1, <1>2, <2>1, <2>2 DEF Control, Ended
<1>6. SlotsInv'
  BY <1>1 DEF IInv, SlotsInv, fetching
<1> QED
  BY <1>2, <1>4, <1>5, <1>6 DEF HandInv, OwnInv, BaseInv, HeldInv, SingleInv

LEMMA SkipInv ==
  ASSUME IInv, Static, RefusedSkips
  PROVE  IInv'
<1>1. /\ pc = "scrape" /\ pc' = "next"
      /\ dropped' = dropped \cup {entry[1]}
      /\ lost' = lost + Cardinality(held \ Now.returns)
      /\ UNCHANGED <<kernel, backend, fetching, val, table, unread>>
      /\ Forget(held \ Now.returns)
  BY DEF RefusedSkips, MayBeRefused, Forget
<1>2. entry[1] \in Table
  BY <1>1, EntryFacts DEF IInv, AtEntry
<1>3. /\ Types' /\ Control' /\ SlotsInv'
      /\ HandInv' /\ OwnInv' /\ BaseInv' /\ HeldInv' /\ SingleInv'
  <2>1. table' \in Seq(0..Slots) /\ dropped' \subseteq Table
    BY <1>1, <1>2 DEF IInv, Types
  <2> QED
    BY <1>1, <2>1, SkipLoses, ForgetRecord
<1>4. /\ ScanOf' = ScanOf
      /\ UNCHANGED <<block, look, index, more, seen, steady>>
      /\ (Exact' <=> Exact)
  BY <1>1, SameProgram DEF fetching, kernel, Exact
<1>5. Ahead' = Ahead /\ InHand = {entry[1]} /\ InHand' = {} /\ Left' = Left
      /\ Behind' \subseteq Behind \cup InHand
  BY <1>1, <1>4 DEF Ahead, InHand, Given, Behind, Left
<1>6. OnceInv'
  BY <1>1, <1>4, <1>5 DEF IInv, OnceInv
<1>7. ReachInv'
  BY <1>1, <1>4, <1>5 DEF IInv, ReachInv
<1>8. LostInv'
  <2>1. CASE backend = "Darwin"
    BY <1>1, <2>1 DEF LostInv, Losing
  <2>2. CASE backend \notin Losing /\ backend # "Darwin"
    <3>1. held \ Now.returns = {}
      BY <2>2, SkipLoses
    <3>2. lost \in Nat
      BY DEF IInv, Types
    <3>3. lost' = lost
      BY <1>1, <3>1, <3>2, FS_EmptySet
    <3> QED
      BY <1>1, <2>2, <3>3 DEF IInv, LostInv
  <2>3. CASE backend \in Losing
    <3>1. Cardinality(held \ Now.returns) \in {0, 1}
      <4>1. held \ Now.returns = {} \/ held \ Now.returns = {"psdata"}
        BY <2>3, SkipLoses DEF Losing
      <4> QED
        BY <4>1, FS_EmptySet, FS_Singleton
    <3>2. ASSUME Exact
          PROVE  Cardinality(dropped') = Cardinality(dropped) + 1 /\ Cardinality(dropped) \in Nat
      <4>1. entry[1] \notin dropped
        <5>1. ScanOf.until # "one"
          BY <2>3 DEF Static, Whole
        <5>2. dropped \subseteq Behind
          BY <5>1 DEF Behind, Given
        <5> QED
          BY <1>5, <3>2, <5>2 DEF IInv, OnceInv
      <4>2. IsFiniteSet(dropped)
        <5>1. IsFiniteSet(Table)
          BY ProgramsAssumption, FS_Interval DEF Table
        <5> QED
          BY <5>1, FS_Subset DEF IInv, Types
      <4> QED
        BY <1>1, <4>1, <4>2, FS_AddElement, FS_CardinalityType
    <3>3. Exact => lost <= Cardinality(dropped)
      BY <2>3 DEF IInv, LostInv
    <3>4. lost \in Nat
      BY DEF IInv, Types
    <3>5. Exact => lost' <= Cardinality(dropped')
      BY <1>1, <3>1, <3>2, <3>3, <3>4
    <3> QED
      BY <1>1, <1>4, <2>3, <3>5 DEF LostInv
  <2> QED
    BY <2>1, <2>2, <2>3
<1> QED
  BY <1>3, <1>6, <1>7, <1>8 DEF IInv

LEMMA BlessInv ==
  ASSUME IInv, Static, Bless
  PROVE  IInv'
<1> DEFINE pid == IF "base" \in lower THEN val["base"][1] ELSE 0
<1>1. /\ pc = "bless" /\ pc' = "next"
      /\ table' = Append(table, pid)
      /\ lost' = lost + Cardinality(held)
      /\ UNCHANGED <<kernel, backend, fetching, val, dropped, unread>>
      /\ Forget(held)
  BY DEF Bless, Forget
<1>2. /\ pid \in 0..Slots /\ table \in Seq(0..Slots)
      /\ ~unread => pid = entry[1]
      /\ Exact => pid \in {0, entry[1]}
  <2>1. 0 \in 0..Slots
    BY ProgramsAssumption
  <2> QED
    BY <1>1, <2>1, BlessBase, WhomFacts DEF IInv, Types
<1> HIDE DEF pid
<1>3. /\ Types' /\ Control' /\ SlotsInv'
      /\ HandInv' /\ OwnInv' /\ BaseInv' /\ HeldInv' /\ SingleInv'
  <2>1. table' \in Seq(0..Slots) /\ dropped' \subseteq Table
    BY <1>1, <1>2 DEF IInv, Types
  <2> QED
    BY <1>1, <2>1, BlessLoses, ForgetRecord
<1>4. /\ ScanOf' = ScanOf
      /\ UNCHANGED <<block, look, index, more, seen, steady>>
      /\ (Exact' <=> Exact)
  BY <1>1, SameProgram DEF fetching, kernel, Exact
<1>5. /\ DOMAIN table = 1..Len(table) /\ DOMAIN table' = 1..(Len(table) + 1)
      /\ Len(table) \in Nat
      /\ \A i \in DOMAIN table : table'[i] = table[i]
      /\ table'[Len(table) + 1] = pid
      /\ Range(table') = Range(table) \cup {pid}
  BY <1>1, <1>2 DEF Range
<1>6. Ahead' = Ahead /\ InHand = {entry[1]} /\ InHand' = {} /\ Left' = Left
  BY <1>1, <1>4 DEF Ahead, InHand, Left
<1>7. OnceInv'
  <2>1. SUFFICES ASSUME Exact
                 PROVE  OnceInv'
    BY <1>4 DEF OnceInv
  <2>2. pid \in {0, entry[1]}
    BY <1>2, <2>1
  <2>3. Behind' \subseteq Behind \cup InHand
    BY <1>1, <1>4, <1>5, <1>6, <2>2 DEF Behind, Given
  <2>4. /\ \A s \in Ahead \cup InHand \cup Behind :
             IF ScanOf.source = "names" THEN s \in seen ELSE s < index
        /\ InHand \cap (Ahead \cup Behind) = {}
        /\ Ahead \cap Behind = {}
        /\ \A i, j \in look..Len(block) :
             block[i] # Garbage /\ (block[i][1] = block[j][1] /\ block[i][1] # 0 => i = j)
        /\ \A i, j \in DOMAIN table : table[i] = table[j] /\ table[i] # 0 => i = j
    BY <1>1, <2>1 DEF IInv, OnceInv
  <2>5. pid = 0 \/ pid \notin Range(table)
    BY <1>6, <2>2, <2>4 DEF Behind
  <2>6. ASSUME NEW i \in DOMAIN table', NEW j \in DOMAIN table',
               table'[i] = table'[j], table'[i] # 0
        PROVE  i = j
    <3>1. CASE i \in DOMAIN table /\ j \in DOMAIN table
      BY <1>5, <2>4, <2>6, <3>1
    <3>2. CASE i = Len(table) + 1 /\ j \in DOMAIN table
      BY <1>5, <2>5, <2>6, <3>2 DEF Range
    <3>3. CASE j = Len(table) + 1 /\ i \in DOMAIN table
      BY <1>5, <2>5, <2>6, <3>3 DEF Range
    <3> QED
      BY <1>5, <3>1, <3>2, <3>3
  <2> QED
    BY <1>1, <1>4, <1>6, <2>3, <2>4, <2>6 DEF OnceInv
<1>8. ReachInv'
  BY <1>1, <1>2, <1>4, <1>5, <1>6 DEF IInv, ReachInv
<1>9. LostInv'
  <2>1. CASE backend = "Darwin"
    BY <1>1, <2>1 DEF LostInv, Losing
  <2>2. CASE backend # "Darwin"
    <3>1. held = {} /\ Cardinality({}) = 0
      BY <1>1, <2>2, BlessLoses, FS_EmptySet
    <3>2. lost \in Nat
      BY DEF IInv, Types
    <3>3. lost' = lost
      BY <1>1, <3>1, <3>2
    <3> QED
      BY <1>1, <1>4, <3>3 DEF IInv, LostInv
  <2> QED
    BY <2>1, <2>2
<1> QED
  BY <1>3, <1>7, <1>8, <1>9 DEF IInv

-----------------------------------------------------------------------------
(* The kernel *)

LEMMA KernelInv ==
  ASSUME IInv, NEW s \in Table, Exit(s) \/ Fork(s)
  PROVE  IInv'
<1>1. /\ pc \notin Ended \cup {"start"}
      /\ UNCHANGED <<backend, pc, fetching, record, table, lost, dropped, unread>>
  BY DEF Exit, Fork, history
<1>2. ScanOf' = ScanOf /\ Groups' = Groups /\ OutlineOf' = OutlineOf /\ Steps' = Steps
  BY <1>1, SameProgram
<1>3. UNCHANGED <<open, room, tries, index, seen, block, look, more>>
  BY <1>1 DEF fetching
<1>4. UNCHANGED <<entry, step, hand, held, val, lower, brief>>
  BY <1>1 DEF record
<1>5. steady' \subseteq steady
  BY DEF Exit, Fork
<1>6. Types'
  <2>1. /\ uses \in [Table -> [times : Nat, now : BOOLEAN]]
        /\ \A t \in Table : uses[t].times <= forks + 1
        /\ forks \in 0..MaxForks
        /\ steady \subseteq InUse /\ listed \subseteq Table
    BY DEF IInv, Types
  <2>2. CASE Exit(s)
    <3>1. /\ uses' \in [Table -> [times : Nat, now : BOOLEAN]]
          /\ \A t \in Table : uses'[t].times = uses[t].times
          /\ \A t \in Table \ {s} : uses'[t] = uses[t]
          /\ steady' = steady \ {s} /\ forks' = forks /\ listed' = listed
      BY <2>1, <2>2 DEF Exit
    <3>2. steady' \subseteq InUse'
      BY <2>1, <3>1 DEF InUse, Alive
    <3> QED
      BY <1>1, <1>2, <1>3, <1>4, <2>1, <3>1, <3>2 DEF IInv, Types
  <2>3. CASE Fork(s)
    <3>1. /\ uses' \in [Table -> [times : Nat, now : BOOLEAN]]
          /\ uses'[s] = [times |-> uses[s].times + 1, now |-> TRUE]
          /\ \A t \in Table \ {s} : uses'[t] = uses[t]
          /\ steady' = steady /\ forks' = forks + 1 /\ forks < MaxForks
          /\ listed' = listed \cup {s}
      BY <2>1, <2>3 DEF Fork
    <3>2. steady' \subseteq InUse'
      BY <2>1, <3>1 DEF InUse, Alive
    <3>3. \A t \in Table : uses'[t].times <= forks' + 1
      BY <2>1, <3>1
    <3>4. forks' \in 0..MaxForks
      BY <2>1, <3>1, ScanAssumption
    <3> QED
      BY <1>1, <1>2, <1>3, <1>4, <2>1, <3>1, <3>2, <3>3, <3>4 DEF IInv, Types
  <2> QED
    BY <2>2, <2>3
<1>7. Control' /\ SlotsInv'
  <2>1. Now' = Now
    BY <1>2, <1>4 DEF Now
  <2> QED
    BY <1>1, <1>2, <1>3, <1>4, <2>1 DEF IInv, Control, SlotsInv
<1>8. HandInv' /\ OwnInv' /\ BaseInv'
  BY <1>1, <1>2, <1>4 DEF IInv, HandInv, OwnInv, BaseInv, Own
<1>9. HeldInv' /\ SingleInv'
  BY <1>1, <1>2, <1>4 DEF IInv, HeldInv, SingleInv
<1>10. Ahead' = Ahead /\ InHand' = InHand /\ Given' = Given /\ Behind' = Behind /\ Left' = Left
       /\ Exact' = Exact
  BY <1>1, <1>2, <1>3, <1>4 DEF Ahead, InHand, Given, Behind, Left, Exact
<1>11. OnceInv'
  BY <1>1, <1>2, <1>3, <1>10 DEF IInv, OnceInv
<1>12. ReachInv' /\ LostInv'
  BY <1>1, <1>5, <1>10 DEF IInv, ReachInv, LostInv
<1> QED
  BY <1>6, <1>7, <1>8, <1>9, <1>11, <1>12 DEF IInv

-----------------------------------------------------------------------------
(* The walk over the entries *)

\* Between two entries there is no record to speak of.
LEMMA Between ==
  ASSUME IInv, pc \in {"start", "fetch", "next"}, pc' \in {"start", "fetch", "next"}
  PROVE  HandInv' /\ OwnInv' /\ BaseInv' /\ HeldInv' /\ SingleInv'
BY DEF HandInv, OwnInv, BaseInv, HeldInv, SingleInv

LEMMA OpenInv ==
  ASSUME IInv, Static, OpenScan
  PROVE  IInv'
<1>1. /\ pc = "start" /\ pc' = "fetch" /\ open' = TRUE
      /\ steady' = InUse /\ listed' = InUse /\ room' = Cardinality(InUse)
      /\ UNCHANGED <<uses, forks, backend, tries, index, seen, block, look, more,
                     record, table, lost, dropped, unread>>
  BY DEF OpenScan, history
<1>2. ScanOf' = ScanOf /\ Groups' = Groups /\ OutlineOf' = OutlineOf /\ Steps' = Steps
  BY <1>1, SameProgram
<1>3. /\ index = 1 /\ seen = {} /\ more /\ ~unread
      /\ table = <<>> /\ dropped = {} /\ lost = 0
      /\ step = 1 /\ hand = Nobody /\ held = {} /\ ~brief
      /\ lower \cap ScanOf.capitals = {}
  BY <1>1 DEF IInv, Control
<1>4. InUse' = InUse /\ InUse \subseteq Table
  BY <1>1 DEF InUse, Alive
<1>5. UNCHANGED <<entry, step, hand, held, val, lower, brief>>
  BY <1>1 DEF record
<1>6. Types'
  <2>1. room' \in 0..Slots
    <3>1. IsFiniteSet(Table) /\ Cardinality(Table) = Slots
      BY ProgramsAssumption, FS_Interval DEF Table
    <3>2. Cardinality(InUse) <= Slots /\ Cardinality(InUse) \in Nat
      BY <1>4, <3>1, FS_Subset, FS_CardinalityType
    <3> QED
      BY <1>1, <3>2, ProgramsAssumption
  <2> QED
    BY <1>1, <1>2, <1>4, <1>5, <2>1 DEF IInv, Types
<1>7. Control'
  BY <1>1, <1>2, <1>3, <1>5 DEF Control, Ended
<1>8. SlotsInv'
  BY <1>1, <1>2 DEF IInv, SlotsInv
<1>9. Ahead' = {} /\ InHand' = {} /\ Behind' = {}
  BY <1>1, <1>2, <1>3 DEF Ahead, InHand, Behind, Given, Range
<1>10. OnceInv'
  BY <1>1, <1>3, <1>9 DEF OnceInv
<1>11. ReachInv'
  <2>1. Left' = Table
    <3>1. \A s \in Table : 1 <= s
      BY ProgramsAssumption DEF Table
    <3>2. pc' # "done" /\ more' /\ seen' = {} /\ index' = 1
      BY <1>1, <1>3
    <3> QED
      BY <3>1, <3>2 DEF Left
  <2> QED
    BY <1>1, <1>4, <2>1 DEF ReachInv
<1>12. LostInv'
  BY <1>1, <1>2 DEF IInv, LostInv, Exact
<1> QED
  BY <1>1, <1>6, <1>7, <1>8, <1>10, <1>11, <1>12, Between DEF IInv

LEMMA CannotOpenInv ==
  ASSUME IInv, Static, CannotOpen
  PROVE  IInv'
<1>1. /\ pc = "start" /\ unread' = TRUE
      /\ pc' = IF ScanOf.unopened = "croak" THEN "croaked" ELSE "done"
      /\ open' = (ScanOf.unopened = "forget")
      /\ UNCHANGED <<kernel, backend, room, tries, index, seen, block, look, more,
                     record, table, lost, dropped>>
  BY DEF CannotOpen
<1>2. ScanOf' = ScanOf /\ Groups' = Groups /\ OutlineOf' = OutlineOf /\ Steps' = Steps
  BY <1>1, SameProgram
<1>3. Types'
  BY <1>1, <1>2 DEF IInv, Types, kernel, fetching, record, InUse, Alive, Ended
<1>4. Control'
  <2>1. backend \in Croaking => pc' = "croaked"
    BY <1>1 DEF Static, Whole
  <2>2. open' => backend = "Cygwin" /\ seen' = {}
    BY <1>1 DEF IInv, Control, Static, Whole
  <2> QED
    BY <1>1, <2>1, <2>2 DEF Control, Ended
<1>5. SlotsInv'
  BY <1>1, <1>2 DEF IInv, SlotsInv
<1> QED
  BY <1>1, <1>3, <1>4, <1>5, EndInv DEF kernel, Ended

LEMMA EndBlockInv ==
  ASSUME IInv, Static, EndBlock
  PROVE  IInv'
<1>1. /\ pc = "next" /\ look > Len(block)
      /\ IF more THEN pc' = "fetch" /\ open' = open ELSE pc' = "done" /\ open' = FALSE
      /\ UNCHANGED <<kernel, backend, room, tries, index, seen, block, look, more,
                     record, table, lost, dropped, unread>>
  BY DEF EndBlock, history
<1>2. ScanOf' = ScanOf /\ Groups' = Groups /\ OutlineOf' = OutlineOf /\ Steps' = Steps
  BY <1>1, SameProgram
<1>3. Types'
  BY <1>1, <1>2 DEF IInv, Types, kernel, record, InUse, Alive, Ended
<1>4. Control'
  BY <1>1, <1>2 DEF IInv, Control, record, Ended
<1>5. SlotsInv'
  BY <1>1, <1>2 DEF IInv, SlotsInv
<1>6. CASE more
  <2>1. look..Len(block) = {}
    <3>1. block \in Seq((Table \X Nat) \cup {Nobody, Garbage}) /\ look \in 1..(Len(block) + 2)
      BY DEF IInv, Types
    <3> QED
      BY <1>1, <3>1
  <2>2. Ahead = {} /\ Ahead' = {} /\ InHand = {} /\ InHand' = {} /\ Behind' = Behind
        /\ Left' = Left /\ Exact' = Exact
    BY <1>1, <1>2, <1>6, <2>1 DEF Ahead, InHand, Behind, Given, Left, Exact
  <2>3. OnceInv'
    BY <1>1, <1>2, <1>6, <2>2 DEF IInv, OnceInv
  <2>4. ReachInv' /\ LostInv'
    BY <1>1, <1>6, <2>2 DEF IInv, ReachInv, LostInv, kernel
  <2> QED
    BY <1>1, <1>3, <1>4, <1>5, <1>6, <2>3, <2>4, Between DEF IInv
<1>7. CASE ~more
  BY <1>1, <1>3, <1>4, <1>5, <1>7, EndInv DEF kernel, Ended
<1> QED
  BY <1>6, <1>7

LEMMA BehindTable ==
  ASSUME Types
  PROVE  Behind \subseteq Table
<1>1. \A i \in DOMAIN table : table[i] \in 0..Slots
  <2>1. table \in Seq(0..Slots)
    BY DEF Types
  <2> QED
    BY <2>1, ProgramsAssumption
<1>2. Range(table) \ {0} \subseteq Table
  BY <1>1, ProgramsAssumption DEF Range, Table
<1> QED
  BY <1>2 DEF Behind, Given, Types

\* What fetching entries does to the rest.
LEMMA FetchedRecord ==
  ASSUME IInv, Static, pc = "fetch", pc' = "next",
         UNCHANGED <<kernel, backend, open, room, tries, record, table, lost>>,
         unread' \in BOOLEAN, unread' => unread \/ backend \notin Croaking,
         index' \in 1..(Slots + Block),
         block' \in Seq((Table \X Nat) \cup {Nobody, Garbage}),
         look' \in 1..(Len(block') + 2), more' \in BOOLEAN,
         seen' \subseteq Table, dropped' \subseteq Table
  PROVE  /\ Types' /\ Control'
         /\ HandInv' /\ OwnInv' /\ BaseInv' /\ HeldInv' /\ SingleInv'
<1>1. ScanOf' = ScanOf /\ Groups' = Groups /\ OutlineOf' = OutlineOf /\ Steps' = Steps
  BY SameProgram
<1>2. UNCHANGED <<entry, step, hand, held, val, lower, brief>>
  BY DEF record
<1>3. Types'
  BY <1>1, <1>2 DEF IInv, Types, kernel, InUse, Alive
<1>4. Control'
  BY <1>1, <1>2 DEF IInv, Control, Ended
<1> QED
  BY <1>3, <1>4, Between

LEMMA FetchNameInv ==
  ASSUME IInv, Static, FetchName
  PROVE  IInv'
<1>1. /\ pc = "fetch" /\ pc' = "next" /\ ScanOf.source = "names" /\ look' = 1
      /\ UNCHANGED <<kernel, backend, open, room, tries, index, record, table,
                     lost, dropped, unread>>
      /\ \/ \E s \in listed \ seen :
              block' = <<Process(s)>> /\ more' = TRUE /\ seen' = seen \cup {s}
         \/ steady \subseteq seen /\ block' = <<>> /\ more' = FALSE /\ seen' = seen
  BY DEF FetchName, Fetched, history
<1>2. /\ ScanOf' = ScanOf /\ more /\ Exact' = Exact
      /\ steady' = steady
  BY <1>1, SameProgram DEF IInv, Control, Exact, kernel
<1>3. Types /\ listed \subseteq Table /\ seen \subseteq Table
  BY DEF IInv, Types
<1>4. Ahead = {} /\ InHand = {} /\ InHand' = {} /\ Behind' = Behind
      /\ Left = Table \ seen
  BY <1>1, <1>2 DEF Ahead, InHand, Behind, Given, Left
<1>5. SlotsInv'
  BY <1>1, <1>2 DEF SlotsInv
<1>6. LostInv'
  BY <1>1, <1>2 DEF IInv, LostInv
<1>7. ASSUME NEW s \in listed \ seen,
             block' = <<Process(s)>>, more' = TRUE, seen' = seen \cup {s}
      PROVE  IInv'
  <2>1. Process(s) \in Table \X Nat /\ Process(s)[1] = s /\ s # 0
    BY <1>3, <1>7, ProcessFacts, WhomFacts
  <2>2. block' \in Seq((Table \X Nat) \cup {Nobody, Garbage}) /\ Len(block') = 1
        /\ block'[1] = Process(s)
    BY <1>7, <2>1
  <2>3. /\ Types' /\ Control'
        /\ HandInv' /\ OwnInv' /\ BaseInv' /\ HeldInv' /\ SingleInv'
    <3>1. seen' \subseteq Table /\ dropped' \subseteq Table /\ unread' \in BOOLEAN
          /\ index' \in 1..(Slots + Block)
      BY <1>1, <1>3, <1>7 DEF Types
    <3> QED
      BY <1>1, <1>7, <2>2, <3>1, FetchedRecord
  <2>4. Ahead' = {s}
    <3>1. look'..Len(block') = {1}
      BY <1>1, <2>2
    <3> QED
      BY <1>1, <2>1, <2>2, <3>1 DEF Ahead
  <2>5. OnceInv'
    <3>1. \A i, j \in look'..Len(block') : i = 1 /\ j = 1 /\ block'[i] # Garbage
      BY <1>1, <2>1, <2>2, WhomFacts
    <3> QED
      BY <1>1, <1>2, <1>4, <1>7, <2>4, <3>1 DEF IInv, OnceInv
  <2>6. ReachInv'
    <3>1. Left' = Table \ seen'
      BY <1>1, <1>2, <1>7 DEF Left
    <3> QED
      BY <1>1, <1>2, <1>4, <1>7, <2>4, <3>1 DEF IInv, ReachInv
  <2> QED
    BY <1>5, <1>6, <2>3, <2>5, <2>6 DEF IInv
<1>8. ASSUME steady \subseteq seen, block' = <<>>, more' = FALSE, seen' = seen
      PROVE  IInv'
  <2>1. block' \in Seq((Table \X Nat) \cup {Nobody, Garbage}) /\ Len(block') = 0
    BY <1>8
  <2>2. /\ Types' /\ Control'
        /\ HandInv' /\ OwnInv' /\ BaseInv' /\ HeldInv' /\ SingleInv'
    <3>1. seen' \subseteq Table /\ dropped' \subseteq Table /\ unread' \in BOOLEAN
          /\ index' \in 1..(Slots + Block)
      BY <1>1, <1>3, <1>8 DEF Types
    <3>2. look' \in 1..(Len(block') + 2)
      BY <1>1, <2>1
    <3>3. more' \in BOOLEAN
      BY <1>8
    <3> QED
      BY <1>1, <1>8, <2>1, <3>1, <3>2, <3>3, FetchedRecord
  <2>3. look'..Len(block') = {} /\ Ahead' = {}
    BY <1>1, <2>1 DEF Ahead
  <2>4. OnceInv'
    BY <1>1, <1>2, <1>4, <1>8, <2>3 DEF IInv, OnceInv
  <2>5. ReachInv'
    BY <1>1, <1>2, <1>4, <1>8, <2>3 DEF IInv, ReachInv
  <2> QED
    BY <1>5, <1>6, <2>2, <2>4, <2>5 DEF IInv
<1> QED
  BY <1>1, <1>7, <1>8

LEMMA FetchBlockInv ==
  ASSUME IInv, Static, FetchBlock
  PROVE  IInv'
<1>1. /\ pc = "fetch" /\ ScanOf.source = "blocks"
      /\ UNCHANGED <<kernel, backend, open, room, tries, seen, record, table, lost, unread>>
  BY DEF FetchBlock, MayFetchBlock
<1>2. PICK b \in BlocksFrom(index) : BlockFetched(b, Last(b) + 1)
  BY DEF FetchBlock
<1>3. PICK n \in 0..ScanOf.size : b \in [1..n -> InUse]
  BY <1>2 DEF BlocksFrom
<1>4. ScanOf.size \in Nat \ {0} /\ ScanOf.until \in {"one", "empty", "short"}
  BY <1>1 DEF Static, Whole
<1>5. b \in Seq(InUse) /\ Len(b) = n /\ DOMAIN b = 1..n /\ n \in Nat /\ (b = <<>> <=> n = 0)
  BY <1>3, <1>4
<1>6. /\ \A j \in 1..n : index <= b[j] /\ b[j] \in Table
      /\ \A j, k \in 1..n : j < k => b[j] < b[k]
      /\ \A s \in InUse : index <= s =>
           s \in Range(b) \/ (n = ScanOf.size /\ \A j \in 1..n : b[j] < s)
  BY <1>2, <1>3, <1>5 DEF BlocksFrom, InUse
<1>7. /\ block' = [i \in 1..n |-> Process(b[i])] /\ look' = 1 /\ pc' = "next"
      /\ more' = CASE ScanOf.until = "one" -> FALSE
                   [] ScanOf.until = "empty" -> b # <<>>
                   [] ScanOf.until = "short" -> Len(b) = ScanOf.size
      /\ index' = IF b = <<>> THEN index ELSE Last(b) + 1
      /\ dropped' = IF ScanOf.until = "one" THEN dropped \cup (InUse \ Range(b)) ELSE dropped
  BY <1>2, <1>5 DEF BlockFetched, Fetched
<1>8. n # 0 => index' = b[n] + 1
  BY <1>5, <1>7 DEF Last
<1>9. /\ Types /\ index \in 1..(Slots + Block) /\ dropped \subseteq Table
      /\ steady \subseteq InUse /\ seen \subseteq Table /\ unread \in BOOLEAN /\ more
  BY <1>1 DEF IInv, Types, Control
<1>10. \A j \in 1..n : b[j] \in Nat /\ b[j] < index' /\ b[j] # 0
  <2>1. \A j \in 1..n : b[j] \in Nat /\ b[j] # 0
    BY <1>6, ProgramsAssumption DEF Table
  <2> QED
    BY <1>5, <1>6, <1>8, <2>1
<1>11. index' \in 1..(Slots + Block) /\ index <= index'
  <2>1. CASE n = 0
    BY <1>5, <1>7, <1>9, <2>1
  <2>2. CASE n # 0
    <3>1. b[n] \in 1..Slots /\ index <= b[n]
      BY <1>5, <1>6, <2>2 DEF Table
    <3> QED
      BY <1>8, <1>9, <2>2, <3>1, ProgramsAssumption
  <2> QED
    BY <2>1, <2>2
<1>12. \A i \in 1..n : Process(b[i]) \in Table \X Nat /\ Process(b[i])[1] = b[i]
  BY <1>6, <1>9, ProcessFacts
<1>13. block' \in Seq((Table \X Nat) \cup {Nobody, Garbage}) /\ Len(block') = n
       /\ \A i \in 1..n : block'[i][1] = b[i] /\ block'[i] # Garbage
  <2>1. \A i \in 1..n : block'[i] = Process(b[i])
    BY <1>7
  <2>2. \A i \in 1..n : block'[i] \in Table \X Nat /\ block'[i][1] = b[i]
    BY <1>12, <2>1
  <2>3. block' \in [1..n -> (Table \X Nat) \cup {Nobody, Garbage}]
    BY <1>7, <2>1, <2>2
  <2> QED
    BY <1>5, <2>2, <2>3, WhomFacts
<1>14. ScanOf' = ScanOf /\ Exact' = Exact /\ steady' = steady
  BY <1>1, SameProgram DEF Exact, kernel
<1>15. /\ Types' /\ Control'
       /\ HandInv' /\ OwnInv' /\ BaseInv' /\ HeldInv' /\ SingleInv'
  <2>1. seen' \subseteq Table /\ dropped' \subseteq Table /\ unread' \in BOOLEAN
        /\ more' \in BOOLEAN
    BY <1>1, <1>4, <1>7, <1>9 DEF InUse
  <2>2. look' \in 1..(Len(block') + 2)
    BY <1>5, <1>7, <1>13
  <2> QED
    BY <1>1, <1>7, <1>11, <1>13, <2>1, <2>2, FetchedRecord
<1>16. SlotsInv'
  BY <1>1, <1>14 DEF SlotsInv
<1>17. Ahead = {} /\ InHand = {} /\ InHand' = {} /\ Behind' = Behind
       /\ Left = {s \in Table : index <= s}
  BY <1>1, <1>7, <1>9, <1>14 DEF Ahead, InHand, Behind, Given, Left
<1>18. Ahead' = Range(b)
  <2>1. look'..Len(block') = 1..n
    BY <1>7, <1>13
  <2> QED
    BY <1>5, <1>7, <1>10, <1>13, <2>1 DEF Ahead, Range
<1>19. OnceInv'
  <2>1. SUFFICES ASSUME Exact PROVE OnceInv'
    BY <1>14 DEF OnceInv
  <2>2. /\ \A s \in Behind : s < index
        /\ \A i, j \in DOMAIN table : table[i] = table[j] /\ table[i] # 0 => i = j
    BY <1>1, <2>1 DEF IInv, OnceInv
  <2>3. \A s \in Behind : s \in Nat
    BY <1>9, BehindTable DEF Table
  <2>4. \A s \in Ahead' \cup Behind : s < index'
    BY <1>5, <1>9, <1>10, <1>11, <1>18, <2>2, <2>3 DEF Range
  <2>5. Ahead' \cap Behind = {}
    BY <1>5, <1>6, <1>9, <1>10, <1>18, <2>2, <2>3 DEF Range
  <2>6. \A i, j \in look'..Len(block') :
          block'[i] # Garbage /\ (block'[i][1] = block'[j][1] /\ block'[i][1] # 0 => i = j)
    BY <1>5, <1>6, <1>7, <1>10, <1>13
  <2> QED
    BY <1>1, <1>14, <1>17, <2>2, <2>4, <2>5, <2>6 DEF OnceInv
<1>20. ReachInv'
  <2>1. ASSUME ~unread, NEW s \in steady \ dropped'
        PROVE  s \in Range(table) \cup Ahead' \cup Left'
    <3>1. s \in InUse /\ s \in Table /\ s \notin dropped
      BY <1>7, <1>9, <2>1 DEF InUse
    <3>2. s \in Range(table) \/ index <= s
      BY <1>1, <1>17, <2>1, <3>1 DEF IInv, ReachInv
    <3>3. CASE index <= s /\ s \notin Range(b)
      <4>1. n = ScanOf.size /\ \A j \in 1..n : b[j] < s
        BY <1>6, <3>1, <3>3
      <4>2. ScanOf.until # "one"
        BY <1>7, <2>1, <3>1, <3>3
      <4>3. n # 0 /\ more'
        BY <1>4, <1>5, <1>7, <4>1, <4>2
      <4>4. index' <= s
        BY <1>5, <1>8, <1>10, <3>1, <4>1, <4>3 DEF Table
      <4> QED
        BY <1>1, <1>7, <1>14, <3>1, <4>3, <4>4 DEF Left
    <3> QED
      BY <1>18, <3>2, <3>3
  <2> QED
    BY <1>1, <1>7, <1>14, <2>1 DEF ReachInv
<1>21. LostInv'
  BY <1>1, <1>7, <1>14 DEF IInv, LostInv, Static, Whole
<1> QED
  BY <1>15, <1>16, <1>19, <1>20, <1>21 DEF IInv

LEMMA MinFacts ==
  ASSUME NEW a \in Int, NEW b \in Int
  PROVE  Min({a, b}) = IF a <= b THEN a ELSE b
<1>1. Min({a, b}) \in {a, b} /\ \A y \in {a, b} : Min({a, b}) <= y
  BY DEF Min
<1> QED
  BY <1>1

LEMMA FetchSlotsInv ==
  ASSUME IInv, Static, FetchSlots
  PROVE  IInv'
<1>1. /\ pc = "fetch" /\ pc' = "next" /\ ScanOf.source = "slots"
      /\ UNCHANGED <<kernel, backend, open, room, tries, seen, record, table,
                     lost, dropped, unread>>
      /\ look' = 1 /\ index' = index + ScanOf.size
      /\ more' = (index + ScanOf.size <= Slots)
      /\ block' = [i \in 1..Min({ScanOf.size, Slots + 1 - index}) |->
                     LET s == index + i - 1 IN IF Alive(s) THEN Process(s) ELSE Nobody]
  BY DEF FetchSlots, Fetched, history
<1>2. ScanOf.size = Block /\ backend = "DecOSF"
  BY <1>1 DEF Static, Whole
<1>3. Block \in Nat \ {0} /\ Slots \in Nat \ {0}
  BY ProgramsAssumption
<1>4. more /\ index <= Slots
  BY <1>1 DEF IInv, Control, SlotsInv
<1>5. /\ Types /\ index \in 1..(Slots + Block) /\ dropped \subseteq Table
      /\ steady \subseteq InUse /\ seen \subseteq Table /\ unread \in BOOLEAN
  BY DEF IInv, Types
<1> DEFINE n == IF Block <= Slots + 1 - index THEN Block ELSE Slots + 1 - index
<1>6. n \in Nat \ {0} /\ n <= Block /\ index + n - 1 <= Slots
      /\ (index + Block <= Slots => n = Block)
  BY <1>3, <1>4, <1>5
<1>7. Min({ScanOf.size, Slots + 1 - index}) = n
  BY <1>2, <1>3, <1>5, MinFacts
<1> HIDE DEF n
<1>8. \A i \in 1..n : index + i - 1 \in Table
  BY <1>3, <1>5, <1>6 DEF Table
<1>9. \A i \in 1..n :
        block'[i] = IF Alive(index + i - 1) THEN Process(index + i - 1) ELSE Nobody
  BY <1>1, <1>7
<1>10. \A i \in 1..n :
         \/ block'[i] = Nobody
         \/ block'[i] \in Table \X Nat /\ block'[i][1] = index + i - 1
  BY <1>5, <1>8, <1>9, ProcessFacts
<1>11. block' \in Seq((Table \X Nat) \cup {Nobody, Garbage}) /\ Len(block') = n
  <2>1. block' \in [1..n -> (Table \X Nat) \cup {Nobody, Garbage}]
    BY <1>1, <1>7, <1>10
  <2> QED
    BY <1>6, <2>1
<1>12. index' \in 1..(Slots + Block) /\ index' = index + Block
  BY <1>1, <1>2, <1>3, <1>4, <1>5
<1>13. /\ Types' /\ Control'
       /\ HandInv' /\ OwnInv' /\ BaseInv' /\ HeldInv' /\ SingleInv'
  <2>1. seen' \subseteq Table /\ dropped' \subseteq Table /\ unread' \in BOOLEAN
    BY <1>1, <1>5
  <2>2. look' \in 1..(Len(block') + 2)
    <3>1. look' = 1
      BY <1>1
    <3> QED
      BY <1>6, <1>11, <3>1
  <2>3. more' \in BOOLEAN
    BY <1>1
  <2> QED
    BY <1>1, <1>11, <1>12, <2>1, <2>2, <2>3, FetchedRecord
<1>14. ScanOf' = ScanOf /\ Exact' = Exact /\ steady' = steady
  BY <1>1, SameProgram DEF Exact, kernel
<1>15. SlotsInv'
  BY <1>1, <1>2, <1>6, <1>11, <1>12 DEF SlotsInv
<1>16. Ahead = {} /\ InHand = {} /\ InHand' = {} /\ Behind' = Behind
       /\ Left = {s \in Table : index <= s}
  BY <1>1, <1>4, <1>14 DEF Ahead, InHand, Behind, Given, Left
<1>17. Ahead' = {block'[i][1] : i \in 1..n} \ {0}
  BY <1>1, <1>11 DEF Ahead
<1>18. \A s \in Ahead' : s \in Nat /\ index <= s /\ s < index'
  <2>1. ASSUME NEW i \in 1..n, block'[i][1] # 0
        PROVE  block'[i][1] = index + i - 1
    BY <1>10, <2>1, WhomFacts
  <2> QED
    BY <1>3, <1>5, <1>6, <1>12, <1>17, <2>1
<1>19. OnceInv'
  <2>1. SUFFICES ASSUME Exact PROVE OnceInv'
    BY <1>14 DEF OnceInv
  <2>2. /\ \A s \in Behind : s < index
        /\ \A i, j \in DOMAIN table : table[i] = table[j] /\ table[i] # 0 => i = j
    BY <1>1, <2>1 DEF IInv, OnceInv
  <2>3. \A s \in Behind : s \in Nat
    BY <1>5, BehindTable DEF Table
  <2>4. \A s \in Ahead' \cup Behind : s < index'
    BY <1>3, <1>5, <1>12, <1>18, <2>2, <2>3
  <2>5. Ahead' \cap Behind = {}
    BY <1>5, <1>18, <2>2, <2>3
  <2>6. ASSUME NEW i \in 1..n, NEW j \in 1..n
        PROVE  /\ block'[i] # Garbage
               /\ block'[i][1] = block'[j][1] /\ block'[i][1] # 0 => i = j
    <3>1. block'[i] # Garbage
      BY <1>10, WhomFacts
    <3>2. \A k \in 1..n : block'[k][1] # 0 => block'[k][1] = index + k - 1
      BY <1>10, WhomFacts
    <3> QED
      BY <1>5, <1>6, <3>1, <3>2
  <2>7. look'..Len(block') = 1..n
    BY <1>1, <1>11
  <2> QED
    BY <1>1, <1>14, <1>16, <2>2, <2>4, <2>5, <2>6, <2>7 DEF OnceInv
<1>20. ReachInv'
  <2>1. ASSUME ~unread, NEW s \in steady \ dropped
        PROVE  s \in Range(table) \cup Ahead' \cup Left'
    <3>1. s \in Table /\ Alive(s) /\ s \in Nat /\ s # 0 /\ s <= Slots
      BY <1>3, <1>5, <2>1 DEF InUse, Table
    <3>2. s \in Range(table) \/ index <= s
      BY <1>1, <1>16, <2>1, <3>1 DEF IInv, ReachInv
    <3>3. CASE index <= s /\ s < index + n
      <4>1. s - index + 1 \in 1..n /\ index + (s - index + 1) - 1 = s
        BY <1>5, <1>6, <3>1, <3>3
      <4>2. block'[s - index + 1] = Process(s)
        BY <1>9, <3>1, <4>1
      <4>3. Process(s)[1] = s
        BY <1>5, <3>1, ProcessFacts
      <4> QED
        BY <1>17, <3>1, <4>1, <4>2, <4>3
    <3>4. CASE index <= s /\ index + n <= s
      <4>1. n = Block
        BY <1>3, <1>5, <3>1, <3>4 DEF n
      <4>2. index + Block <= s /\ index + Block <= Slots
        BY <1>3, <1>5, <3>1, <3>4, <4>1
      <4>3. index' <= s /\ more'
        BY <1>1, <1>2, <1>12, <4>2
      <4> QED
        BY <1>1, <1>14, <3>1, <4>3 DEF Left
    <3> QED
      BY <1>5, <1>6, <3>1, <3>2, <3>3, <3>4
  <2> QED
    BY <1>1, <1>14, <2>1 DEF ReachInv
<1>21. LostInv'
  BY <1>1, <1>14 DEF IInv, LostInv
<1> QED
  BY <1>13, <1>15, <1>19, <1>20, <1>21 DEF IInv

LEMMA CannotFetchInv ==
  ASSUME IInv, Static, CannotFetch
  PROVE  IInv'
<1>1. /\ pc = "fetch"
      /\ UNCHANGED <<kernel, backend, room, seen, record, table, lost, dropped>>
  BY DEF CannotFetch
<1>2. ScanOf' = ScanOf /\ Groups' = Groups /\ OutlineOf' = OutlineOf /\ Steps' = Steps
      /\ InUse' = InUse /\ UNCHANGED <<entry, step, hand, held, val, lower, brief>>
  BY <1>1, SameProgram DEF InUse, Alive, kernel, record
<1>3. more
  BY <1>1 DEF IInv, Control
<1>4. CASE /\ ScanOf.unfetched \in {"return", "retry"} /\ pc' = "done" /\ open' = FALSE
           /\ unread' = TRUE /\ UNCHANGED <<tries, index, block, look, more>>
  <2>1. Types' /\ Control' /\ SlotsInv'
    <3>1. Types'
      BY <1>1, <1>2, <1>4 DEF IInv, Types, kernel, Ended
    <3>2. Control'
      BY <1>1, <1>4 DEF Control, Ended, Static, Whole
    <3>3. SlotsInv'
      BY <1>1, <1>2, <1>4 DEF IInv, SlotsInv
    <3> QED
      BY <3>1, <3>2, <3>3
  <2> QED
    BY <1>1, <1>4, <2>1, EndInv DEF kernel, Ended
<1>5. CASE /\ ScanOf.unfetched = "croak" /\ pc' = "croaked" /\ open' = FALSE
           /\ UNCHANGED <<tries, index, block, look, more, unread>>
  <2>1. Types' /\ Control' /\ SlotsInv'
    <3>1. Types'
      BY <1>1, <1>2, <1>5 DEF IInv, Types, kernel, Ended
    <3>2. Control'
      BY <1>1, <1>5 DEF Control, Ended
    <3>3. SlotsInv'
      BY <1>1, <1>2, <1>5 DEF IInv, SlotsInv
    <3> QED
      BY <3>1, <3>2, <3>3
  <2> QED
    BY <1>1, <1>5, <2>1, EndInv DEF kernel, Ended
<1>6. CASE /\ tries < MaxTries /\ tries' = tries + 1
           /\ UNCHANGED <<pc, open, index, block, look, more, unread>>
  <2>1. Types'
    <3>1. tries' \in 0..MaxTries
      BY <1>6, ScanAssumption DEF IInv, Types
    <3> QED
      BY <1>1, <1>2, <1>6, <3>1 DEF IInv, Types, kernel
  <2>2. Control' /\ SlotsInv'
    BY <1>1, <1>2, <1>6 DEF IInv, Control, SlotsInv, Ended
  <2>3. Ahead' = Ahead /\ InHand' = InHand /\ Behind' = Behind /\ Left' = Left /\ Exact' = Exact
    BY <1>1, <1>2, <1>6 DEF Ahead, InHand, Behind, Given, Left, Exact
  <2>4. OnceInv'
    BY <1>1, <1>2, <1>6, <2>3 DEF IInv, OnceInv
  <2>5. ReachInv' /\ LostInv'
    BY <1>1, <1>2, <1>6, <2>3 DEF IInv, ReachInv, LostInv, kernel
  <2> QED
    BY <1>1, <1>6, <2>1, <2>2, <2>4, <2>5, Between DEF IInv
<1>7. CASE /\ ScanOf.unfetched = "proceed" /\ pc' = "next"
           /\ index' = index + ScanOf.size
           /\ block' = SubSeq(block, 1, Min({ScanOf.size, Slots + 1 - index}))
           /\ look' = 2 /\ more' = (index + ScanOf.size <= Slots) /\ unread' = TRUE
           /\ UNCHANGED <<open, tries>>
  <2>1. backend = "DecOSF" /\ ScanOf.source = "slots" /\ ScanOf.size = Block
    BY <1>7 DEF Static, Whole
  <2>2. Block \in Nat \ {0} /\ Slots \in Nat \ {0}
    BY ProgramsAssumption
  <2>3. index <= Slots /\ Len(block) = Block
    BY <1>3, <2>1 DEF IInv, SlotsInv
  <2>4. /\ index \in 1..(Slots + Block) /\ dropped \subseteq Table /\ seen \subseteq Table
        /\ block \in Seq((Table \X Nat) \cup {Nobody, Garbage})
    BY DEF IInv, Types
  <2> DEFINE n == IF Block <= Slots + 1 - index THEN Block ELSE Slots + 1 - index
  <2>5. n \in Nat \ {0} /\ n <= Block /\ (index + Block <= Slots => n = Block)
    BY <2>2, <2>3, <2>4
  <2>6. Min({ScanOf.size, Slots + 1 - index}) = n
    BY <2>1, <2>2, <2>4, MinFacts
  <2> HIDE DEF n
  <2>7. block' \in Seq((Table \X Nat) \cup {Nobody, Garbage}) /\ Len(block') = n
    <3>1. block' = SubSeq(block, 1, n)
      BY <1>7, <2>6
    <3>2. \A i \in 1..n : block[i] \in (Table \X Nat) \cup {Nobody, Garbage}
      BY <2>2, <2>3, <2>4, <2>5
    <3>3. /\ SubSeq(block, 1, n) \in Seq((Table \X Nat) \cup {Nobody, Garbage})
          /\ Len(SubSeq(block, 1, n)) = IF 1 <= n THEN n - 1 + 1 ELSE 0
      BY <2>5, <3>2, SubSeqProperties
    <3> QED
      BY <2>5, <3>1, <3>3
  <2>8. index' \in 1..(Slots + Block) /\ look' \in 1..(Len(block') + 2) /\ more' \in BOOLEAN
    BY <1>7, <2>1, <2>2, <2>3, <2>4, <2>5, <2>7
  <2>9. backend \notin Croaking /\ backend \in Stale
    BY <2>1 DEF Croaking, Stale
  <2>10. /\ Types' /\ Control'
         /\ HandInv' /\ OwnInv' /\ BaseInv' /\ HeldInv' /\ SingleInv'
    BY <1>1, <1>7, <2>4, <2>7, <2>8, <2>9, FetchedRecord
  <2>11. SlotsInv'
    BY <1>2, <1>7, <2>1, <2>5, <2>7 DEF SlotsInv
  <2>12. ~Exact'
    BY <1>1, <1>7, <2>9 DEF Exact
  <2>13. OnceInv' /\ ReachInv' /\ LostInv'
    BY <1>1, <1>7, <2>12 DEF IInv, OnceInv, ReachInv, LostInv
  <2> QED
    BY <2>10, <2>11, <2>13 DEF IInv
<1> QED
  BY <1>4, <1>5, <1>6, <1>7 DEF CannotFetch, Finish

LEMMA NextEntryInv ==
  ASSUME IInv, Static, NextEntry
  PROVE  IInv'
<1>1. /\ pc = "next" /\ look <= Len(block) /\ look' = look + 1
      /\ UNCHANGED <<kernel, backend, open, room, tries, index, seen, block, more,
                     step, hand, held, val, lower, brief, table, lost, dropped, unread>>
  BY DEF NextEntry, history
<1>2. /\ entry' \in IF block[look] = Garbage THEN {Nobody} \cup {Process(s) : s \in Table}
                                             ELSE {block[look]}
      /\ pc' = IF entry' = Nobody THEN "next" ELSE "scrape"
  BY DEF NextEntry
<1>3. ScanOf' = ScanOf /\ Groups' = Groups /\ OutlineOf' = OutlineOf /\ Steps' = Steps
      /\ InUse' = InUse /\ Exact' = Exact /\ steady' = steady
  BY <1>1, SameProgram DEF InUse, Alive, kernel, Exact
<1>4. /\ Types /\ Len(block) \in Nat /\ look \in 1..Len(block)
      /\ block[look] \in (Table \X Nat) \cup {Nobody, Garbage}
  <2>1. block \in Seq((Table \X Nat) \cup {Nobody, Garbage}) /\ look \in 1..(Len(block) + 2)
    BY DEF IInv, Types
  <2>2. look \in 1..Len(block) /\ Len(block) \in Nat
    BY <1>1, <2>1
  <2> QED
    BY <2>1, <2>2 DEF IInv
<1>5. entry' = Nobody \/ entry' \in Table \X Nat
  BY <1>2, <1>4, ProcessFacts
<1>6. /\ step = 1 /\ hand = Nobody /\ held = {} /\ ~brief
      /\ lower \cap ScanOf.capitals = {}
      /\ ~(unread /\ backend \in Croaking)
  BY <1>1 DEF IInv, Control
<1>7. Steps \in Nat \ {0} /\ SoundEnd(OutlineOf, backend, Steps)
  BY ProgramFacts
<1>8. Types'
  <2>1. look' \in 1..(Len(block) + 2)
    BY <1>1, <1>4
  <2>2. entry' \in Whom /\ pc' \in {"next", "scrape"}
    BY <1>2, <1>5, WhomFacts
  <2> QED
    BY <1>1, <1>3, <2>1, <2>2 DEF IInv, Types, kernel
<1>9. Control'
  <2>1. pc' = "next" \/ (pc' = "scrape" /\ entry' \in Table \X Nat)
    BY <1>2, <1>5
  <2>2. step' = 1 /\ 1 <= Steps
    BY <1>1, <1>6, <1>7
  <2> QED
    BY <1>1, <1>3, <1>6, <2>1, <2>2 DEF Control, Ended
<1>10. SlotsInv'
  BY <1>1, <1>3 DEF IInv, SlotsInv
<1>11. /\ ~HandSure(OutlineOf, 1) /\ ~HasBase(OutlineOf, 1)
       /\ \A g : ~Provided(OutlineOf, 1, g)
  BY <1>7 DEF SoundEnd, HandSure, HasBase, Provided
<1>12. HandInv' /\ BaseInv' /\ HeldInv'
  BY <1>1, <1>3, <1>6, <1>11 DEF HandInv, BaseInv, HeldInv
<1>13. OwnInv' /\ SingleInv'
  BY <1>1, <1>3, <1>6, <1>11 DEF OwnInv, SingleInv
<1>14. InHand = {} /\ Behind' = Behind /\ Left' = Left
  BY <1>1, <1>2, <1>3 DEF InHand, Behind, Given, Left
<1>15. ASSUME Exact
       PROVE  /\ Ahead = Ahead' \cup InHand' /\ Ahead' \cap InHand' = {}
              /\ \A i, j \in look..Len(block) :
                   block[i] # Garbage
                   /\ (block[i][1] = block[j][1] /\ block[i][1] # 0 => i = j)
  <2>1. \A i, j \in look..Len(block) :
          block[i] # Garbage /\ (block[i][1] = block[j][1] /\ block[i][1] # 0 => i = j)
    BY <1>1, <1>15 DEF IInv, OnceInv
  <2>2. look \in look..Len(block) /\ look..Len(block) = {look} \cup (look + 1)..Len(block)
        /\ look \notin (look + 1)..Len(block)
    BY <1>4
  <2>3. entry' = block[look]
    BY <1>2, <2>1, <2>2
  <2>4. InHand' = {block[look][1]} \ {0}
    <3>1. CASE entry' = Nobody
      BY <1>2, <2>3, <3>1, WhomFacts DEF InHand
    <3>2. CASE entry' # Nobody
      BY <1>2, <1>5, <2>3, <3>2, WhomFacts DEF InHand
    <3> QED
      BY <3>1, <3>2
  <2>5. /\ Ahead = {block[i][1] : i \in look..Len(block)} \ {0}
        /\ Ahead' = {block[i][1] : i \in (look + 1)..Len(block)} \ {0}
    BY <1>1, <1>2 DEF Ahead
  <2>6. Ahead = Ahead' \cup InHand'
    BY <2>2, <2>4, <2>5
  <2>7. Ahead' \cap InHand' = {}
    BY <2>1, <2>2, <2>4, <2>5
  <2> QED
    BY <2>1, <2>6, <2>7
<1>16. OnceInv'
  <2>1. SUFFICES ASSUME Exact PROVE OnceInv'
    BY <1>3 DEF OnceInv
  <2>2. look'..Len(block') \subseteq look..Len(block)
    BY <1>1, <1>4
  <2> QED
    BY <1>1, <1>3, <1>14, <1>15, <2>1, <2>2 DEF IInv, OnceInv
<1>17. ReachInv'
  <2>1. SUFFICES ASSUME ~unread PROVE ReachInv'
    BY <1>1 DEF ReachInv
  <2>2. Ahead = Ahead' \cup InHand'
    BY <1>15, <2>1 DEF Exact
  <2> QED
    BY <1>1, <1>2, <1>3, <1>14, <2>1, <2>2 DEF IInv, ReachInv
<1>18. LostInv'
  BY <1>1, <1>3 DEF IInv, LostInv
<1> QED
  BY <1>8, <1>9, <1>10, <1>12, <1>13, <1>16, <1>17, <1>18 DEF IInv

-----------------------------------------------------------------------------
(* The invariant holds *)

LEMMA InitInv == Init => IInv
<1> SUFFICES ASSUME Init PROVE IInv
  OBVIOUS
<1>1. Whole(ScanOf, backend)
  BY ProgramKeeps DEF Init, ScanOf
<1>2. ScanOf.source = "slots" => ScanOf.size = Block
  BY <1>1 DEF Whole
<1>3. Steps \in Nat \ {0}
  BY <1>1 DEF Whole, Steps
<1>4. Types
  <2>1. uses \in [Table -> [times : Nat, now : BOOLEAN]]
        /\ \A s \in Table : uses[s].times <= 1
    <3>1. uses \in [Table -> {[times |-> 0, now |-> FALSE], [times |-> 1, now |-> TRUE]}]
      BY DEF Init
    <3>2. /\ [times |-> 0, now |-> FALSE] \in [times : Nat, now : BOOLEAN]
          /\ [times |-> 1, now |-> TRUE] \in [times : Nat, now : BOOLEAN]
      OBVIOUS
    <3>3. \A s \in Table : uses[s].times <= 1
      BY <3>1
    <3>4. uses \in [Table -> [times : Nat, now : BOOLEAN]]
      BY <3>1, <3>2
    <3> QED
      BY <3>3, <3>4
  <2>2. block \in Seq((Table \X Nat) \cup {Nobody, Garbage})
    BY ProgramsAssumption DEF Init
  <2>3. val \in [Groups -> Whom]
    BY WhomFacts DEF Init
  <2>4. 0 \in 0..MaxForks /\ 0 \in 0..MaxTries /\ 0 \in 0..Slots /\ 1 \in 1..(Slots + Block)
        /\ 1 \in 1..(Steps + 1) /\ 1 \in 1..(Len(block) + 2) /\ table \in Seq(0..Slots)
    BY <1>3, <2>2, ScanAssumption, ProgramsAssumption DEF Init
  <2>5. /\ forks = 0 /\ steady = {} /\ listed = {} /\ seen = {} /\ backend \in Backends
        /\ pc = "start" /\ open \in BOOLEAN /\ more \in BOOLEAN /\ brief \in BOOLEAN
        /\ unread \in BOOLEAN /\ room = 0 /\ tries = 0 /\ index = 1 /\ look = 1
        /\ entry \in Whom /\ hand \in Whom /\ step = 1 /\ held = {} /\ lost = 0
        /\ lower \subseteq Groups /\ dropped = {}
    BY WhomFacts DEF Init
  <2>6. "base" \in lower \cup ScanOf.capitals
    <3>1. Static
      BY ProgramKeeps DEF Init, Static, ScanOf
    <3> QED
      BY <3>1, ProgramFacts DEF Init
  <2> QED
    BY <2>1, <2>2, <2>3, <2>4, <2>5, <2>6 DEF Types
<1>5. Control
  BY DEF Init, Control, Ended
<1>6. SlotsInv
  BY ProgramsAssumption DEF Init, SlotsInv
<1>7. HandInv /\ OwnInv /\ BaseInv /\ HeldInv /\ SingleInv
  BY DEF Init, HandInv, OwnInv, BaseInv, HeldInv, SingleInv
<1>8. OnceInv
  <2>1. Ahead = {} /\ InHand = {} /\ Behind = {}
    BY DEF Init, Ahead, InHand, Behind, Given, Range
  <2> QED
    BY <2>1 DEF Init, OnceInv
<1>9. ReachInv
  BY DEF Init, ReachInv
<1>10. LostInv
  <2>1. Cardinality({}) = 0
    BY FS_EmptySet
  <2> QED
    BY <2>1 DEF Init, LostInv
<1> QED
  BY <1>4, <1>5, <1>6, <1>7, <1>8, <1>9, <1>10 DEF IInv

LEMMA StutterInv ==
  ASSUME IInv, UNCHANGED vars
  PROVE  IInv'
<1>1. UNCHANGED <<uses, forks, steady, listed, backend, pc, open, room, tries, index,
                  seen, block, look, more, entry, step, hand, held, val, lower, brief,
                  table, lost, dropped, unread>>
  BY DEF vars, kernel, fetching, record, history
<1>2. ScanOf' = ScanOf /\ Groups' = Groups /\ OutlineOf' = OutlineOf /\ Steps' = Steps
      /\ InUse' = InUse
  BY <1>1, SameProgram DEF InUse, Alive
<1>3. Now' = Now /\ Ahead' = Ahead /\ InHand' = InHand /\ Behind' = Behind /\ Left' = Left
      /\ Exact' = Exact
  BY <1>1, <1>2 DEF Now, Ahead, InHand, Behind, Given, Left, Exact
<1>4. Types' /\ Control' /\ SlotsInv'
  <2>1. Types'
    BY <1>1, <1>2, <1>3 DEF IInv, Types
  <2>2. Control'
    BY <1>1, <1>2, <1>3 DEF IInv, Control
  <2>3. SlotsInv'
    BY <1>1, <1>2, <1>3 DEF IInv, SlotsInv
  <2> QED
    BY <2>1, <2>2, <2>3
<1>5. HandInv' /\ OwnInv' /\ BaseInv'
  BY <1>1, <1>2 DEF IInv, HandInv, OwnInv, BaseInv, Own
<1>6. HeldInv' /\ SingleInv'
  BY <1>1, <1>2 DEF IInv, HeldInv, SingleInv
<1>7. OnceInv' /\ ReachInv' /\ LostInv'
  BY <1>1, <1>2, <1>3 DEF IInv, OnceInv, ReachInv, LostInv
<1> QED
  BY <1>4, <1>5, <1>6, <1>7 DEF IInv

LEMMA NextInv == IInv /\ [Next]_vars => IInv'
<1> SUFFICES ASSUME IInv, [Next]_vars PROVE IInv'
  OBVIOUS
<1>1. Static /\ AtEntry
  BY StaticHolds DEF IInv, AtEntry
<1>2. CASE Fetch
  BY <1>1, <1>2, OpenInv, CannotOpenInv, FetchNameInv, FetchBlockInv, FetchSlotsInv,
     CannotFetchInv, EndBlockInv, NextEntryInv DEF Fetch
<1>3. CASE Scrape
  BY <1>1, <1>3, AccessGoesOn, GoesOnInv, BriefInv, SkipInv, CroakInv, BlessInv DEF Scrape
<1>4. CASE Kernel
  BY <1>4, KernelInv DEF Kernel
<1>5. CASE UNCHANGED vars
  BY <1>5, StutterInv
<1> QED
  BY <1>2, <1>3, <1>4, <1>5 DEF Next, Returned

\* The invariant holds in every state of every scan, whichever of the backends
\* runs, however large the table and the blocks, and whatever the kernel does.
THEOREM Invariance == Spec => []IInv
<1>1. Init => IInv
  BY InitInv
<1>2. IInv /\ [Next]_vars => IInv'
  BY NextInv
<1> QED
  BY <1>1, <1>2, PTL DEF Spec

-----------------------------------------------------------------------------
(* What it is for *)

\* The variables have their types: what is reported is the pid of a process, or
\* 0; the room a snapshot is made in, the retries and the blocks asked for keep
\* within their bounds.
THEOREM TypeCorrect == Spec => []TypeOK
<1>1. IInv => TypeOK
  <2> SUFFICES ASSUME IInv PROVE TypeOK
    OBVIOUS
  <2>1. Types
    BY DEF IInv
  <2>2. uses \in [Table -> [times : 0..(MaxForks + 1), now : BOOLEAN]]
    BY <2>1, ScanAssumption DEF Types
  <2>3. \A i \in DOMAIN block : block[i] \in Whom
    <3>1. block \in Seq((Table \X Nat) \cup {Nobody, Garbage})
      BY <2>1 DEF Types
    <3>2. \A i \in DOMAIN block : block[i] \in (Table \X Nat) \cup {Nobody, Garbage}
      BY <3>1
    <3> QED
      BY <3>2, WhomFacts
  <2>4. \A i \in DOMAIN table : table[i] \in 0..Slots
    <3>1. table \in Seq(0..Slots)
      BY <2>1 DEF Types
    <3> QED
      BY <3>1, ProgramsAssumption
  <2>5. steady \subseteq Table
    BY <2>1 DEF Types, InUse
  <2> QED
    BY <2>1, <2>2, <2>3, <2>4, <2>5 DEF Types, TypeOK, Steps
<1> QED
  BY <1>1, Invariance, PTL

\* table() reports every process that lives through the scan, unless the kernel
\* refused something; and BSD/OS, OpenBSD and FreeBSD's kvm never return a table
\* for which something was refused.
THEOREM Completeness == Spec => []Complete
<1>1. IInv => Complete
  <2> SUFFICES ASSUME IInv, pc = "done" PROVE Complete
    BY DEF Complete
  <2>1. Ahead = {} /\ InHand = {} /\ Left = {}
    BY DEF Ahead, InHand, Left
  <2>2. ~unread => steady \ dropped \subseteq Range(table)
    BY <2>1 DEF IInv, ReachInv
  <2>3. unread => backend \notin {"BSDi", "OpenBSD", "FreeBSDKvm"}
    BY DEF IInv, Control, Croaking
  <2> QED
    BY <2>2, <2>3 DEF Complete
<1> QED
  BY <1>1, Invariance, PTL

\* No process is reported twice, however the table changes between two blocks
\* and the directory while it is read; but for the backends that go on with what
\* was in the buffer.
THEOREM Once == Spec => []ReportedOnce
<1>1. IInv => ReportedOnce
  BY DEF IInv, OnceInv, Exact, Stale, ReportedOnce
<1> QED
  BY <1>1, Invariance, PTL

\* A record shows values of its own pid and no other's, except through the
\* variables that no access of its entry need have filled; HP-UX, IRIX and
\* DEC OSF show those of one process, however often its pid is used again.
THEOREM OwnRecord == Spec => []OwnValues
<1>1. IInv => OwnValues
  <2> SUFFICES ASSUME IInv, pc = "bless" PROVE OwnValues
    BY DEF OwnValues
  <2>1. Static
    BY StaticHolds DEF IInv
  <2>2. /\ Steps \in Nat \ {0} /\ SoundEnd(OutlineOf, backend, Steps) /\ "base" \in Groups
        /\ Groups \ Leftover(backend) \subseteq ScanOf.capitals \cup DOMAIN OutlineOf.filled
    BY <2>1, ProgramFacts
  <2>3. CASE brief
    <3>1. step \in 1..Steps /\ Now.refused = "brief"
      BY <2>3 DEF IInv, Types, Control
    <3>2. backend = "AIX" /\ Provided(OutlineOf, step, "base")
      BY <2>1, <3>1, NowKeeps DEF SoundAccess, SoundBase
    <3>3. Reported \ Leftover(backend) = {"base"} /\ "base" \notin Leftover(backend)
      BY <2>3, <3>2 DEF Reported, BriefGroups, Leftover
    <3>4. Own(val["base"])
      BY <2>2, <3>2, <3>3 DEF IInv, OwnInv
    <3> QED
      BY <3>2, <3>3, <3>4 DEF OwnValues, Own
  <2>4. CASE ~brief
    <3>1. step = Steps + 1 /\ Reported = lower /\ lower \subseteq Groups
      BY <2>4 DEF IInv, Control, Types, Reported
    <3>2. \A g \in DOMAIN OutlineOf.filled : Provided(OutlineOf, step, g)
      BY <2>2, <3>1 DEF SoundEnd, Provided
    <3>3. \A g \in Reported \ Leftover(backend) : Own(val[g])
      BY <2>2, <3>1, <3>2 DEF IInv, OwnInv
    <3>4. CASE backend \in {"HPUX", "IRIX"}
      <4>1. \A g \in Groups : g \in {"base"} \cup Leftover(backend)
        <5>1. \A i \in 1..Steps : ScanOf.accesses[i].gets \subseteq {"base"} \cup Leftover(backend)
          BY <2>1, <3>4 DEF Static, Sound, Keeps, SoundAccess, SoundSingle, Steps
        <5> QED
          BY <2>1, <5>1 DEF Groups, Static, Whole, Steps
      <4> QED
        BY <3>1, <3>3, <4>1 DEF OwnValues, Own
    <3>5. CASE backend = "DecOSF"
      <4>1. ScanOf.capitals = {} /\ "base" \notin Leftover(backend)
        BY <2>1, <3>5 DEF Static, Whole, Leftover
      <4>2. \A g \in Groups \ Leftover(backend) :
              val[g] = IF hand = Nobody THEN val["base"] ELSE hand
        BY <2>2, <3>2, <3>5, <4>1 DEF IInv, SingleInv
      <4>3. \A g \in Groups \ Leftover(backend) : val[g] = val["base"]
        BY <2>2, <4>1, <4>2
      <4> QED
        BY <3>1, <3>3, <4>3 DEF OwnValues, Own
    <3> QED
      BY <3>3, <3>4, <3>5 DEF OwnValues, Own
  <2> QED
    BY <2>3, <2>4
<1> QED
  BY <1>1, Invariance, PTL

\* What was taken for an entry is given back before the next, but for one
\* descriptor of each entry given up, and darwin's ports; and a scan that has
\* ended holds nothing, unless Cygwin's could not open /proc, which leaves it the
\* buffer made before, or FreeBSD's kvm croaked over a record.
THEOREM GivenBack == Spec => []GivesBack
<1>1. IInv => GivesBack
  <2> SUFFICES ASSUME IInv PROVE GivesBack
    OBVIOUS
  <2>1. lost > 0 => backend \in {"Solaris25", "IRIX", "DecOSF", "Darwin"}
    BY DEF IInv, LostInv, Losing
  <2>2. ASSUME backend # "Darwin", ~unread
        PROVE  lost <= Cardinality(dropped)
    <3>1. lost \in Nat /\ dropped \subseteq Table
      BY DEF IInv, Types
    <3>2. Cardinality(dropped) \in Nat
      <4>1. IsFiniteSet(Table)
        BY ProgramsAssumption, FS_Interval DEF Table
      <4> QED
        BY <3>1, <4>1, FS_Subset, FS_CardinalityType
    <3>3. CASE backend \in Losing
      BY <2>2, <3>3 DEF IInv, LostInv, Exact
    <3>4. CASE backend \notin Losing
      <4>1. lost = 0
        BY <2>2, <3>1, <3>4 DEF IInv, LostInv
      <4> QED
        BY <3>2, <4>1
    <3> QED
      BY <3>3, <3>4
  <2>3. pc \in Ended /\ open =>
          \/ pc = "croaked" /\ backend = "FreeBSDKvm"
          \/ unread /\ seen = {} /\ backend = "Cygwin"
    BY DEF IInv, Control
  <2> QED
    BY <2>1, <2>2, <2>3 DEF GivesBack
<1> QED
  BY <1>1, Invariance, PTL
=============================================================================
