--------------------------- MODULE ObstackProofs ---------------------------
(***************************************************************************)
(* Obstacks of any size: their chain of chunks, their finished objects,    *)
(* and that they are the stack of objects os/obstack.h promises.           *)
(***************************************************************************)
EXTENDS Obstack, SequenceTheorems, TLAPS

ChunkSet == [at : Addresses, limit : Low..High]
ObjectSet == [at : Addresses \cup {High}, size : Nat, depth : Nat]

\* A chunk has room for its header.
Placed == \A k \in DOMAIN chain : Contents(chain[k]) <= chain[k].limit

Disjoint == \A j, k \in DOMAIN chain : j # k => Apart(chain[j], chain[k])

Held == blocks = {chain[k] : k \in DOMAIN chain}

\* An object lies in the chunk that was the last when it was finished; older
\* ones lie further down the chain, or below it in the same chunk.
Stacked ==
  /\ \A i \in DOMAIN objects :
       /\ objects[i].depth \in DOMAIN chain
       /\ Contents(chain[objects[i].depth]) <= objects[i].at
       /\ objects[i].at + objects[i].size <= chain[objects[i].depth].limit
  /\ \A i, j \in DOMAIN objects :
       j < i =>
         /\ objects[j].depth <= objects[i].depth
         /\ objects[j].depth = objects[i].depth =>
              objects[j].at + objects[j].size <= objects[i].at

\* In the last chunk the finished objects lie below the one that grows, and
\* none is empty unless maybe_empty_object says so.
Topped ==
  \A i \in DOMAIN objects :
    objects[i].depth = Len(chain) =>
      /\ objects[i].at + objects[i].size <= object_base
      /\ ~maybe_empty_object => objects[i].size > 0

InLast ==
  chain # <<>> =>
    /\ Contents(chunk) <= object_base
    /\ object_base <= next_free
    /\ next_free <= chunk.limit

States ==
  /\ state = "used" => chain # <<>>
  /\ state = "unused" => chain = <<>>
  /\ state # "aborted"

IInv ==
  /\ TypeOK /\ Placed /\ Disjoint /\ Held
  /\ Stacked /\ Topped /\ InLast /\ States

-----------------------------------------------------------------------------
(* Addresses and sizes *)

LEMMA AlignBounds ==
  ASSUME NEW p \in Nat
  PROVE  /\ Align(p) \in Nat
         /\ p <= Align(p)
         /\ Align(p) <= p + (Alignment - 1)
<1>1. p + (Alignment - 1) \in Nat
  BY AddressAssumption
<1>2. ASSUME NEW x \in Nat
      PROVE  x % Alignment \in 0..(Alignment - 1)
  BY AddressAssumption
<1> QED
  BY <1>1, <1>2, AddressAssumption DEF Align

LEMMA ContentsBounds ==
  ASSUME NEW c, c.at \in Addresses
  PROVE  /\ Contents(c) \in Nat
         /\ c.at < Contents(c)
         /\ Contents(c) <= c.at + Header + (Alignment - 1)
<1>1. c.at + Header \in Nat /\ c.at < c.at + Header
  BY AddressAssumption DEF Addresses
<1> QED
  BY <1>1, AlignBounds, AddressAssumption DEF Contents, Addresses

LEMMA MallocGives ==
  ASSUME NEW size \in Nat, NEW c \in Malloc(size)
  PROVE  /\ c.at \in Addresses
         /\ c = [at |-> c.at, limit |-> c.at + size]
         /\ c.limit = c.at + size
         /\ c.limit <= High
         /\ \A b \in blocks : Apart(b, c)
BY DEF Malloc, Chunk

LEMMA ChunkIsTyped ==
  ASSUME NEW size \in Nat, NEW c \in Malloc(size)
  PROVE  c \in ChunkSet
<1>1. c.limit \in Low..High
  BY MallocGives, AddressAssumption DEF Addresses
<1> QED
  BY <1>1, MallocGives DEF ChunkSet

\* The first chunk has room for its header.
LEMMA FirstFits ==
  ASSUME NEW c \in Malloc(ChunkSize)
  PROVE  Contents(c) <= c.limit
<1>1. c.at \in Addresses /\ c.limit = c.at + ChunkSize
  BY MallocGives, SizeAssumption
<1> QED
  BY <1>1, ContentsBounds, SizeAssumption, AddressAssumption DEF Addresses

\* A new chunk has room for its header, the object, and what is added to it:
\* no sum has wrapped.
LEMMA NewSizeFits ==
  ASSUME object_size \in Nat, NEW length \in 0..SizeMax, Fits(length),
         NEW c \in Malloc(NewSize(length)), object_size <= High
  PROVE  /\ NewSize(length) \in Nat
         /\ Contents(c) + object_size + length <= c.limit
<1> DEFINE sum1 == object_size + length
           sum2 == sum1 + (Alignment - 1)
           more == object_size \div 8
<1> USE AddressAssumption, SizeAssumption
<1>1. Sum1(length) = sum1 /\ sum1 <= SizeMax
  BY DEF Fits, Sum1, Sum2, Wrap
<1>2. Sum2(length) = sum2 /\ sum2 <= SizeMax
  BY <1>1 DEF Fits, Sum2, Wrap
<1>3. more \in Nat /\ more <= High \div 8 /\ High \div 8 \in Nat
  OBVIOUS
<1> HIDE DEF more, sum1, sum2
<1>4. NewSize(length) =
        Larger(Larger(Wrap(Wrap(sum2 + more) + Extra), sum2), ChunkSize)
  BY <1>2 DEF NewSize, more
<1>5. sum2 \in Nat
  BY DEF sum1, sum2
<1>6. NewSize(length) \in Nat /\ sum2 <= NewSize(length)
  BY <1>3, <1>4, <1>5 DEF Larger, Wrap
<1>7. c.at \in Addresses /\ c.limit = c.at + NewSize(length) /\ c.limit <= High
  BY <1>6, MallocGives
<1>8. sum2 <= High
  BY <1>5, <1>6, <1>7 DEF Addresses
<1>9. sum2 + more + Extra <= SizeMax
  BY <1>3, <1>5, <1>8
<1>10. sum2 + more + Extra <= NewSize(length)
  BY <1>3, <1>4, <1>5, <1>9 DEF Larger, Wrap
<1>11. Contents(c) <= c.at + Header + (Alignment - 1) /\ Contents(c) \in Nat
  BY <1>7, ContentsBounds
<1> QED
  BY <1>3, <1>6, <1>7, <1>10, <1>11 DEF sum1, sum2, Addresses

LEMMA ChunkFacts ==
  ASSUME NEW c \in ChunkSet
  PROVE  /\ c.at \in Addresses /\ c.at \in Nat
         /\ c.limit \in Nat /\ c.limit <= High
         /\ Contents(c) \in Nat /\ c.at < Contents(c)
<1>1. c.at \in Addresses /\ c.limit \in Low..High
  BY DEF ChunkSet
<1>2. c.at \in Nat /\ c.limit \in Nat /\ c.limit <= High
  BY <1>1, AddressAssumption DEF Addresses
<1> QED
  BY <1>1, <1>2, ContentsBounds

-----------------------------------------------------------------------------
(* Sequences *)

LEMMA Cut ==
  ASSUME NEW S, NEW seq \in Seq(S), NEW m \in Nat, m <= Len(seq)
  PROVE  /\ SubSeq(seq, 1, m) \in Seq(S)
         /\ Len(SubSeq(seq, 1, m)) = m
         /\ DOMAIN SubSeq(seq, 1, m) = 1..m
         /\ \A k \in 1..m : k \in DOMAIN seq /\ SubSeq(seq, 1, m)[k] = seq[k]
<1>1. \A k \in 1..m : k \in 1..Len(seq)
  BY LenProperties
<1>2. \A k \in 1..m : seq[k] \in S
  BY <1>1, ElementOfSeq
<1>3. SubSeq(seq, 1, m) \in Seq(S)
  BY <1>2, SubSeqProperties
<1>4. Len(SubSeq(seq, 1, m)) = m
  BY <1>2, SubSeqProperties
<1>5. \A k \in 1..m : SubSeq(seq, 1, m)[k] = seq[k]
  BY <1>2, SubSeqProperties
<1> QED
  BY <1>1, <1>3, <1>4, <1>5, LenProperties

LEMMA Pushed ==
  ASSUME NEW S, NEW seq \in Seq(S), NEW m \in Nat, m <= Len(seq), NEW e \in S
  PROVE  LET new == Append(SubSeq(seq, 1, m), e) IN
         /\ new \in Seq(S)
         /\ Len(new) = m + 1
         /\ DOMAIN new = 1..(m + 1)
         /\ new[m + 1] = e
         /\ \A k \in 1..m : k \in DOMAIN seq /\ new[k] = seq[k]
<1> DEFINE cut == SubSeq(seq, 1, m)
<1>1. /\ cut \in Seq(S) /\ Len(cut) = m
      /\ \A k \in 1..m : k \in DOMAIN seq /\ cut[k] = seq[k]
  BY Cut
<1> HIDE DEF cut
<1>2. /\ Append(cut, e) \in Seq(S) /\ Len(Append(cut, e)) = m + 1
      /\ \A k \in 1..m : Append(cut, e)[k] = cut[k]
      /\ Append(cut, e)[m + 1] = e
  BY <1>1, AppendProperties
<1>3. DOMAIN Append(cut, e) = 1..(m + 1)
  BY <1>2, LenProperties
<1> QED
  BY <1>1, <1>2, <1>3 DEF cut

LEMMA Whole ==
  ASSUME NEW S, NEW seq \in Seq(S)
  PROVE  SubSeq(seq, 1, Len(seq)) = seq
OBVIOUS

-----------------------------------------------------------------------------
(* The inductive invariant *)

LEMMA TypeFacts ==
  ASSUME TypeOK, chain # <<>>
  PROVE  /\ Len(chain) \in Nat \ {0} /\ Len(chain) \in DOMAIN chain
         /\ DOMAIN chain = 1..Len(chain)
         /\ \A k \in DOMAIN chain :
              /\ chain[k] \in ChunkSet
              /\ chain[k].at \in Nat /\ chain[k].limit \in Nat
              /\ chain[k].at \in Addresses /\ chain[k].limit <= High
              /\ Contents(chain[k]) \in Nat /\ chain[k].at < Contents(chain[k])
         /\ \A i \in DOMAIN objects :
              objects[i].at \in Nat /\ objects[i].size \in Nat /\ objects[i].depth \in Nat
         /\ object_base \in Nat /\ next_free \in Nat
<1>1. chain \in Seq(ChunkSet)
  BY DEF TypeOK, ChunkSet
<1>2. Len(chain) \in Nat \ {0} /\ DOMAIN chain = 1..Len(chain)
  BY <1>1
<1>3. \A k \in DOMAIN chain : chain[k] \in ChunkSet
  BY <1>1
<1>6. \A i \in DOMAIN objects :
        objects[i].at \in Nat /\ objects[i].size \in Nat /\ objects[i].depth \in Nat
  <2>1. objects \in Seq(ObjectSet)
    BY DEF TypeOK, ObjectSet
  <2>2. \A i \in DOMAIN objects : objects[i] \in ObjectSet
    BY <2>1
  <2> QED
    BY <2>2, AddressAssumption DEF Addresses, ObjectSet
<1>8. object_base \in Nat /\ next_free \in Nat
  BY DEF TypeOK
<1> QED
  BY <1>2, <1>3, <1>6, <1>8, ChunkFacts

\* The object that grows, when there is one.
LEMMA SizeFacts ==
  ASSUME IInv, chain # <<>>
  PROVE  /\ object_size \in Nat /\ object_size <= High
         /\ room \in Nat
         /\ next_free = object_base + object_size
<1>1. Contents(chunk) <= object_base /\ object_base <= next_free /\ next_free <= chunk.limit
  BY DEF IInv, InLast
<1> QED
  BY <1>1, TypeFacts, AddressAssumption DEF IInv, chunk, room, object_size

LEMMA ChunksDiffer ==
  ASSUME IInv, chain # <<>>
  PROVE  \A j, k \in DOMAIN chain : j # k => chain[j] # chain[k]
<1> SUFFICES ASSUME NEW j \in DOMAIN chain, NEW k \in DOMAIN chain, j # k
             PROVE  chain[j] # chain[k]
  OBVIOUS
<1>1. Apart(chain[j], chain[k])
  BY DEF IInv, Disjoint
<1>2. /\ chain[j].at \in Nat /\ chain[j].limit \in Nat
      /\ chain[j].at < Contents(chain[j]) /\ Contents(chain[j]) <= chain[j].limit
      /\ Contents(chain[j]) \in Nat
  BY TypeFacts DEF IInv, Placed
<1>3. chain[j].at < chain[j].limit
  BY <1>2
<1> QED
  BY <1>1, <1>2, <1>3 DEF Apart

\* When the object that grows is alone in its chunk, no finished one is there.
LEMMA AloneIsAlone ==
  ASSUME IInv, chain # <<>>, Alone, NEW i \in DOMAIN objects
  PROVE  objects[i].depth < Len(chain)
<1>1. objects[i].depth \in 1..Len(chain)
  BY TypeFacts DEF IInv, Stacked
<1>2. ASSUME objects[i].depth = Len(chain)
      PROVE  FALSE
  <2>1. Contents(chunk) <= objects[i].at
    BY <1>2 DEF IInv, Stacked, chunk
  <2>2. objects[i].at + objects[i].size <= object_base /\ objects[i].size > 0
    BY <1>2 DEF IInv, Topped, Alone
  <2> QED
    BY <2>1, <2>2, TypeFacts DEF Alone, IInv, chunk
<1> QED
  BY <1>1, <1>2, TypeFacts DEF IInv

\* A chunk malloc() has just given is none of the chain.
LEMMA NewIsApart ==
  ASSUME IInv, chain # <<>>, NEW size \in Nat, NEW c \in Malloc(size), NEW k \in DOMAIN chain
  PROVE  Apart(chain[k], c) /\ c # chain[k]
<1>1. Apart(chain[k], c)
  BY MallocGives DEF IInv, Held
<1>2. chain[k].at < chain[k].limit
  BY TypeFacts DEF IInv, Placed
<1> QED
  BY <1>1, <1>2, TypeFacts DEF Apart, IInv

LEMMA WrittenTyped ==
  ASSUME NEW held \in [Addresses -> Value], NEW at \in Nat, NEW bytes \in Seq(Value)
  PROVE  Written(held, at, bytes) \in [Addresses -> Value]
<1>1. ASSUME NEW a \in Between(at, at + Len(bytes))
      PROVE  bytes[a - at + 1] \in Value
  <2>1. a \in Nat /\ at <= a /\ a < at + Len(bytes) /\ Len(bytes) \in Nat
    BY AddressAssumption DEF Between, Addresses
  <2>2. a - at + 1 \in 1..Len(bytes)
    BY <2>1
  <2> QED
    BY <2>2
<1> QED
  BY <1>1 DEF Written

LEMMA ScribbledTyped ==
  ASSUME NEW held \in [Addresses -> Value], NEW given
  PROVE  Scribbled(held, given) \in [Addresses -> Value]
BY DEF Scribbled, Value

\* A chunk is taken for the object that grows.
LEMMA NewChunkKeeps ==
  ASSUME IInv, state = "used",
         NEW size \in Nat, NEW c \in Malloc(size), NEW n \in Nat, NEW bytes \in Seq(Value),
         Contents(c) + object_size + n <= c.limit,
         NewChunk(c, n, bytes), objects' = objects, state' = state
  PROVE  IInv'
<1> DEFINE last == IF Alone THEN Len(chain) ELSE Len(chain) + 1
<1>1. chain # <<>>
  BY DEF IInv, States
<1>2. c \in ChunkSet /\ c.limit <= High /\ c.at \in Addresses
  BY ChunkIsTyped, MallocGives
<1>3. /\ Contents(c) \in Nat /\ c.at < Contents(c)
      /\ c.at \in Nat /\ c.limit \in Nat
  BY <1>2, ChunkFacts
<1>4. chain \in Seq(ChunkSet) /\ objects \in Seq(ObjectSet)
  BY DEF IInv, TypeOK, ChunkSet, ObjectSet
<1>5. /\ chain' \in Seq(ChunkSet)
      /\ Len(chain') = last /\ DOMAIN chain' = 1..last
      /\ last \in Nat \ {0} /\ last <= Len(chain) + 1 /\ Len(chain) \in Nat \ {0}
      /\ DOMAIN chain = 1..Len(chain)
      /\ chain'[last] = c
      /\ \A k \in 1..(last - 1) : k \in DOMAIN chain /\ chain'[k] = chain[k]
  <2>1. Len(chain) \in Nat \ {0} /\ DOMAIN chain = 1..Len(chain)
    BY <1>1, TypeFacts DEF IInv
  <2>2. chain' = Append(SubSeq(chain, 1, last - 1), c)
    <3>1. CASE Alone
      BY <2>1, <3>1 DEF NewChunk
    <3>2. CASE ~Alone
      BY <1>4, <2>1, <3>2, Whole DEF NewChunk
    <3> QED
      BY <3>1, <3>2
  <2>3. last - 1 \in Nat /\ last - 1 <= Len(chain) /\ last \in Nat \ {0} /\ (last - 1) + 1 = last
    BY <2>1
  <2> HIDE DEF last
  <2> QED
    BY <1>2, <1>4, <2>1, <2>2, <2>3, Pushed
<1>5a. chunk' = c
  BY <1>5 DEF chunk
<1>6. /\ object_size \in Nat
      /\ object_base' = Contents(c) /\ next_free' = Contents(c) + object_size + n
  BY <1>1, SizeFacts DEF NewChunk
<1>7. \A i \in DOMAIN objects : objects[i].depth \in 1..(last - 1)
  <2>1. \A i \in DOMAIN objects : objects[i].depth \in 1..Len(chain)
    BY <1>5 DEF IInv, Stacked
  <2>2. CASE Alone
    BY <1>1, <1>5, <2>1, <2>2, AloneIsAlone
  <2>3. CASE ~Alone
    BY <1>5, <2>1, <2>3
  <2> QED
    BY <2>2, <2>3
<1> HIDE DEF last
<1>8. TypeOK'
  <2>1. memory' \in [Addresses -> Value]
    <3>1. Copied(c) \in [Addresses -> Value]
      <4>1. memory \in [Addresses -> Value]
        BY DEF IInv, TypeOK
      <4>2. ASSUME NEW a \in Between(Contents(c), Contents(c) + object_size)
            PROVE  object_base + (a - Contents(c)) \in Addresses
        <5>1. /\ Contents(chunk) <= object_base /\ next_free <= chunk.limit
              /\ chunk.limit <= High /\ chunk.at < Contents(chunk) /\ Contents(chunk) \in Nat
              /\ chunk.at \in Addresses /\ chunk.limit \in Nat
          BY <1>1, TypeFacts DEF IInv, InLast, chunk
        <5>2. next_free = object_base + object_size /\ object_base \in Nat
          BY <1>1, SizeFacts, TypeFacts DEF IInv
        <5>3. a \in Nat /\ Contents(c) <= a /\ a < Contents(c) + object_size
          BY AddressAssumption DEF Between, Addresses
        <5>4. Low <= chunk.at /\ Low \in Nat /\ High \in Nat /\ chunk.at \in Nat
          BY <5>1, AddressAssumption DEF Addresses
        <5>5. a - Contents(c) \in Nat /\ a - Contents(c) < object_size
          BY <1>3, <1>6, <5>3
        <5>6. Low <= object_base /\ object_base + object_size <= High
          BY <1>6, <5>1, <5>2, <5>4
        <5> QED
          BY <1>6, <5>2, <5>4, <5>5, <5>6 DEF Addresses
      <4>3. Scribbled(memory, Span({c}) \cup Between(object_base, chunk.limit))
              \in [Addresses -> Value]
        BY <4>1, ScribbledTyped
      <4> QED
        BY <4>1, <4>2, <4>3 DEF Copied
    <3> QED
      BY <1>3, <1>6, <3>1, WrittenTyped DEF NewChunk
  <2>2. object_base' \in Nat /\ next_free' \in Nat
    BY <1>3, <1>6
  <2>6. maybe_empty_object' \in BOOLEAN
    BY DEF NewChunk
  <2>3. chain' # <<>>
    BY <1>5
  <2>4. Contents(chunk') <= object_base' /\ object_base' <= next_free' /\ next_free' <= chunk'.limit
    BY <1>3, <1>6, <1>5a
  <2>5. chain' \in Seq([at : Addresses, limit : Low..High])
    BY <1>5 DEF ChunkSet
  <2> QED
    BY <2>1, <2>2, <2>3, <2>4, <2>5, <2>6 DEF TypeOK, IInv, Contents, Align
<1>9. Placed'
  <2>1. Contents(c) <= c.limit
    BY <1>3, <1>6
  <2>2. \A k \in DOMAIN chain : Contents(chain[k]) <= chain[k].limit
    BY DEF IInv, Placed
  <2>3. \A k \in 1..last : k = last \/ k \in 1..(last - 1)
    BY <1>5
  <2> QED
    BY <1>5, <2>1, <2>2, <2>3 DEF Placed
<1>10. Disjoint'
  <2>1. \A k \in DOMAIN chain : Apart(chain[k], c)
    BY <1>1, NewIsApart
  <2> QED
    BY <1>5, <2>1, SMTT(30) DEF IInv, Disjoint, Apart
<1>11. Held'
  <2>1. \A k \in DOMAIN chain : c # chain[k]
    BY <1>1, NewIsApart
  <2>2. \A j, k \in DOMAIN chain : j # k => chain[j] # chain[k]
    BY <1>1, ChunksDiffer
  <2>3. CASE Alone
    <3>1. blocks' = ({chain[k] : k \in 1..Len(chain)} \cup {c}) \ {chain[Len(chain)]}
      BY <1>5, <2>3 DEF IInv, Held, NewChunk, chunk
    <3>2. last = Len(chain) /\ c # chain[Len(chain)]
      BY <1>5, <2>1, <2>3 DEF last
    <3>3. \A k \in 1..(Len(chain) - 1) : chain[k] # chain[Len(chain)]
      <4>1. \A k \in 1..(Len(chain) - 1) :
              k \in DOMAIN chain /\ Len(chain) \in DOMAIN chain /\ k # Len(chain)
        BY <1>5
      <4> QED
        BY <2>2, <4>1
    <3>4. blocks' = {chain[k] : k \in 1..(Len(chain) - 1)} \cup {c}
      <4>1. 1..Len(chain) = 1..(Len(chain) - 1) \cup {Len(chain)}
        BY <1>1, TypeFacts DEF IInv
      <4> QED
        BY <3>1, <3>2, <3>3, <4>1
    <3>5. 1..last = 1..(last - 1) \cup {last}
      BY <1>5
    <3>6. {chain'[k] : k \in 1..(last - 1)} = {chain[k] : k \in 1..(last - 1)}
      BY <1>5
    <3> QED
      BY <1>5, <3>2, <3>4, <3>5, <3>6 DEF Held
  <2>4. CASE ~Alone
    BY <1>1, <1>5, <2>1, <2>2, <2>4 DEF IInv, Held, NewChunk, chunk, last
  <2> QED
    BY <2>3, <2>4
<1>12. Stacked'
  BY <1>5, <1>7 DEF IInv, Stacked
<1>13. Topped'
  BY <1>5, <1>7 DEF Topped
<1>14. InLast'
  BY <1>3, <1>6, <1>5a DEF InLast
<1>15. States'
  BY <1>5 DEF IInv, States
<1> QED
  BY <1>8, <1>9, <1>10, <1>11, <1>12, <1>13, <1>14, <1>15 DEF IInv

LEMMA InitInv == Init => IInv
<1> SUFFICES ASSUME Init
             PROVE  IInv
  OBVIOUS
<1>1. TypeOK
  <2>1. maybe_empty_object \in BOOLEAN
    BY DEF Init
  <2>2. memory \in [Addresses -> Value]
    BY DEF Init, Value
  <2>3. chain \in Seq([at : Addresses, limit : Low..High])
    BY DEF Init
  <2>4. objects \in Seq([at : Addresses \cup {High}, size : Nat, depth : Nat])
    BY DEF Init
  <2>5. object_base \in Nat /\ next_free \in Nat /\ state = "unused"
    BY DEF Init
  <2> QED
    BY <2>1, <2>2, <2>3, <2>4, <2>5 DEF TypeOK
<1> QED
  BY <1>1 DEF Init, IInv, Placed, Disjoint, Held, Stacked, Topped, InLast, States

LEMMA BeginKeeps == IInv /\ Begin => IInv'
<1> SUFFICES ASSUME IInv, Begin
             PROVE  IInv'
  OBVIOUS
<1>1. PICK c \in Malloc(ChunkSize) :
        /\ chain' = <<c>>
        /\ object_base' = Contents(c) /\ next_free' = Contents(c)
        /\ blocks' = blocks \cup {c}
        /\ memory' = Scribbled(memory, Span({c}))
  BY DEF Begin
<1>2. c \in ChunkSet
  BY ChunkIsTyped, SizeAssumption
<1>3. Contents(c) <= c.limit /\ Contents(c) \in Nat /\ c.limit \in Nat
  BY <1>2, FirstFits, ChunkFacts
<1>4. blocks = {}
  BY DEF Begin, IInv, States, Held
<1>5. chain' \in Seq(ChunkSet) /\ Len(chain') = 1 /\ DOMAIN chain' = {1} /\ chain'[1] = c
  BY <1>1, <1>2
<1>6. objects' = <<>> /\ state' = "used" /\ DOMAIN objects' = {}
  BY DEF Begin
<1>7. TypeOK'
  <2>1. memory' \in [Addresses -> Value]
    BY <1>1, ScribbledTyped DEF IInv, TypeOK
  <2>2. maybe_empty_object' \in BOOLEAN
    BY DEF Begin
  <2>3. objects' \in Seq([at : Addresses \cup {High}, size : Nat, depth : Nat])
    BY <1>6
  <2>4. chain' \in Seq([at : Addresses, limit : Low..High])
    BY <1>5 DEF ChunkSet
  <2>5. object_base' \in Nat /\ next_free' \in Nat
    BY <1>1, <1>3
  <2>6. /\ chain' # <<>>
        /\ Contents(chunk') <= object_base' /\ object_base' <= next_free'
        /\ next_free' <= chunk'.limit
    BY <1>1, <1>3, <1>5 DEF chunk
  <2> QED
    BY <1>6, <2>1, <2>2, <2>3, <2>4, <2>5, <2>6 DEF TypeOK, Contents, Align
<1>8. Placed' /\ Disjoint'
  BY <1>3, <1>5 DEF Placed, Disjoint
<1>9. Held'
  BY <1>1, <1>4, <1>5 DEF Held
<1>10. Stacked' /\ Topped'
  BY <1>6 DEF Stacked, Topped
<1>11. InLast'
  BY <1>1, <1>3, <1>5 DEF InLast, chunk
<1>12. States'
  BY <1>1, <1>6 DEF States
<1> QED
  BY <1>7, <1>8, <1>9, <1>10, <1>11, <1>12 DEF IInv

LEMMA FailKeeps == IInv /\ Fail => IInv'
BY DEF Fail, obstack, IInv, TypeOK, Placed, Disjoint, Held, Stacked, Topped, InLast,
       States, chunk, Contents, Align, Apart

LEMMA GrowKeeps ==
  ASSUME IInv, NEW length \in 0..SizeMax, NEW bytes \in Seq(Value), GrowBy(length, bytes)
  PROVE  IInv'
<1>1. state = "used" /\ chain # <<>> /\ objects' = objects /\ state' = state
  BY DEF GrowBy, IInv, States
<1>2. object_size \in Nat /\ object_size <= High /\ length \in Nat
  BY <1>1, SizeFacts, AddressAssumption
<1>3. CASE room >= length /\ next_free' = next_free + length
           /\ memory' = Written(memory, next_free, bytes)
           /\ UNCHANGED <<chain, object_base, maybe_empty_object, blocks>>
  <2>1. /\ next_free \in Nat /\ object_base \in Nat /\ chunk.limit \in Nat
        /\ memory \in [Addresses -> Value]
        /\ Contents(chunk) <= object_base /\ object_base <= next_free
    BY <1>1, TypeFacts DEF IInv, TypeOK, InLast, chunk
  <2>2. next_free' \in Nat /\ object_base <= next_free' /\ next_free' <= chunk.limit
    BY <1>2, <1>3, <2>1 DEF room
  <2>3. memory' \in [Addresses -> Value]
    BY <1>3, <2>1, WrittenTyped
  <2>4. TypeOK'
    BY <1>1, <1>3, <2>1, <2>2, <2>3 DEF IInv, TypeOK, chunk, Contents, Align
  <2>5. InLast'
    BY <1>1, <1>3, <2>1, <2>2 DEF InLast, chunk
  <2> QED
    BY <1>1, <1>3, <2>4, <2>5
    DEF IInv, Placed, Disjoint, Held, Stacked, Topped, States, Apart
<1>4. CASE Fits(length) /\ \E c \in Malloc(NewSize(length)) : NewChunk(c, length, bytes)
  <2>1. PICK c \in Malloc(NewSize(length)) : NewChunk(c, length, bytes)
    BY <1>4
  <2>2. NewSize(length) \in Nat /\ Contents(c) + object_size + length <= c.limit
    BY <1>2, <1>4, NewSizeFits
  <2> QED
    BY <1>1, <1>2, <2>1, <2>2, NewChunkKeeps
<1> QED
  BY <1>3, <1>4 DEF GrowBy

LEMMA MakeRoomKeeps ==
  ASSUME IInv, NEW length \in 0..SizeMax, MakeRoom(length)
  PROVE  IInv'
<1>1. state = "used" /\ chain # <<>> /\ objects' = objects /\ state' = state
  BY DEF MakeRoom, IInv, States
<1>2. object_size \in Nat /\ object_size <= High /\ length \in Nat /\ 0 \in Nat
  BY <1>1, SizeFacts, AddressAssumption
<1>3. PICK c \in Malloc(NewSize(length)) : NewChunk(c, 0, <<>>)
  BY DEF MakeRoom
<1>4. NewSize(length) \in Nat /\ Contents(c) + object_size + length <= c.limit
  BY <1>2, NewSizeFits DEF MakeRoom
<1>5. c.limit \in Nat /\ Contents(c) \in Nat
  BY <1>4, ChunkIsTyped, ChunkFacts
<1>6. Contents(c) + object_size + 0 <= c.limit
  BY <1>2, <1>4, <1>5
<1>7. <<>> \in Seq(Value)
  OBVIOUS
<1> QED
  BY <1>1, <1>2, <1>3, <1>4, <1>6, <1>7, NewChunkKeeps

LEMMA FinishKeeps == IInv /\ Finish => IInv'
<1> SUFFICES ASSUME IInv, Finish
             PROVE  IInv'
  OBVIOUS
<1> DEFINE new == [at |-> object_base, size |-> object_size, depth |-> Len(chain)]
<1>1. /\ state = "used" /\ chain # <<>> /\ state' = state /\ chain' = chain
      /\ blocks' = blocks /\ memory' = memory
  BY DEF Finish, IInv, States
<1>2. /\ Len(chain) \in Nat \ {0} /\ Len(chain) \in DOMAIN chain
      /\ object_size \in Nat /\ next_free = object_base + object_size
      /\ object_base \in Nat /\ next_free \in Nat
  BY <1>1, TypeFacts, SizeFacts DEF IInv
<1>3. /\ Contents(chunk) \in Nat /\ chunk.limit \in Nat /\ chunk.limit <= High
      /\ chunk.at \in Addresses /\ chunk.at < Contents(chunk)
  BY <1>1, TypeFacts DEF IInv, chunk
<1>4. Contents(chunk) <= object_base /\ object_base <= next_free /\ next_free <= chunk.limit
  BY <1>1 DEF IInv, InLast
<1>5. /\ Finished \in Nat /\ next_free <= Finished /\ Finished <= chunk.limit
  <2>1. Align(next_free) \in Nat /\ next_free <= Align(next_free)
    BY <1>2, AlignBounds
  <2> QED
    BY <1>2, <1>3, <1>4, <2>1 DEF Finished
<1>6. object_base' = Finished /\ next_free' = Finished
  BY DEF Finish
<1>7. objects \in Seq(ObjectSet) /\ new \in ObjectSet
  <2>1. object_base \in Addresses \cup {High}
    BY <1>2, <1>3, <1>4, AddressAssumption DEF Addresses
  <2>2. objects \in Seq(ObjectSet)
    BY DEF IInv, TypeOK, ObjectSet
  <2> QED
    BY <1>2, <2>1, <2>2 DEF ObjectSet
<1>8. /\ objects' \in Seq(ObjectSet) /\ Len(objects) \in Nat
      /\ DOMAIN objects = 1..Len(objects) /\ DOMAIN objects' = 1..(Len(objects) + 1)
      /\ \A i \in 1..Len(objects) : objects'[i] = objects[i]
      /\ objects'[Len(objects) + 1] = new
  <2>1. objects' = Append(objects, new)
    BY DEF Finish
  <2> HIDE DEF new
  <2> QED
    BY <1>7, <2>1, AppendProperties, LenProperties
<1>9. new.at = object_base /\ new.size = object_size /\ new.depth = Len(chain)
  OBVIOUS
<1> HIDE DEF new
<1>10. TypeOK'
  <2>1. maybe_empty_object' \in BOOLEAN
    BY DEF Finish, IInv, TypeOK
  <2>2. objects' \in Seq([at : Addresses \cup {High}, size : Nat, depth : Nat])
    BY <1>8 DEF ObjectSet
  <2>3. object_base' \in Nat /\ next_free' \in Nat
    BY <1>5, <1>6
  <2>4. /\ Contents(chunk) <= object_base' /\ object_base' <= next_free'
        /\ next_free' <= chunk.limit
    BY <1>2, <1>3, <1>4, <1>5, <1>6
  <2> QED
    BY <1>1, <2>1, <2>2, <2>3, <2>4 DEF IInv, TypeOK, chunk, Contents, Align
<1>11. Placed' /\ Disjoint' /\ Held' /\ States'
  BY <1>1 DEF IInv, Placed, Disjoint, Held, States, Apart, Contents, Align
<1>12. InLast'
  BY <1>1, <1>2, <1>3, <1>4, <1>5, <1>6 DEF InLast, chunk
<1>13. Stacked'
  <2>1. \A i \in DOMAIN objects' :
          /\ objects'[i].depth \in DOMAIN chain
          /\ Contents(chain[objects'[i].depth]) <= objects'[i].at
          /\ objects'[i].at + objects'[i].size <= chain[objects'[i].depth].limit
    <3>1. \A i \in DOMAIN objects' : i \in DOMAIN objects \/ i = Len(objects) + 1
      BY <1>8
    <3> QED
      BY <1>2, <1>4, <1>8, <1>9, <3>1 DEF IInv, Stacked, chunk
  <2>2. ASSUME NEW i \in DOMAIN objects', NEW j \in DOMAIN objects', j < i
        PROVE  /\ objects'[j].depth <= objects'[i].depth
               /\ objects'[j].depth = objects'[i].depth =>
                    objects'[j].at + objects'[j].size <= objects'[i].at
    <3>1. j \in DOMAIN objects /\ objects'[j] = objects[j]
      BY <1>8, <2>2
    <3>2. CASE i \in DOMAIN objects
      BY <1>8, <2>2, <3>1, <3>2 DEF IInv, Stacked
    <3>3. CASE i = Len(objects) + 1
      <4>1. objects[j].depth \in 1..Len(chain)
        BY <1>1, <3>1, TypeFacts DEF IInv, Stacked
      <4>2. objects[j].depth = Len(chain) => objects[j].at + objects[j].size <= object_base
        BY <3>1 DEF IInv, Topped
      <4> QED
        BY <1>2, <1>8, <1>9, <3>1, <3>3, <4>1, <4>2
    <3> QED
      BY <1>8, <3>2, <3>3
  <2> QED
    BY <1>1, <2>1, <2>2 DEF Stacked, Contents, Align
<1>14. Topped'
  <2> SUFFICES ASSUME NEW i \in DOMAIN objects', objects'[i].depth = Len(chain)
               PROVE  /\ objects'[i].at + objects'[i].size <= Finished
                      /\ ~maybe_empty_object' => objects'[i].size > 0
    BY <1>1, <1>6 DEF Topped
  <2>1. CASE i \in DOMAIN objects
    <3>1. objects'[i] = objects[i] /\ objects[i].at \in Nat /\ objects[i].size \in Nat
      BY <1>1, <1>8, <2>1, TypeFacts DEF IInv
    <3>2. objects[i].at + objects[i].size <= object_base
      BY <2>1, <3>1 DEF IInv, Topped
    <3>3. ~maybe_empty_object => objects[i].size > 0
      BY <2>1, <3>1 DEF IInv, Topped
    <3>4. ~maybe_empty_object' => ~maybe_empty_object
      BY DEF Finish
    <3> QED
      BY <1>2, <1>4, <1>5, <3>1, <3>2, <3>3, <3>4
  <2>2. CASE i = Len(objects) + 1
    <3>1. ~maybe_empty_object' => object_size # 0
      BY DEF Finish
    <3> QED
      BY <1>2, <1>5, <1>8, <1>9, <2>2, <3>1
  <2> QED
    BY <1>8, <2>1, <2>2
<1> QED
  BY <1>10, <1>11, <1>12, <1>13, <1>14 DEF IInv

\* What lies in a chunk lies in no other.
LEMMA OneChunk ==
  ASSUME IInv, chain # <<>>, NEW p \in Nat,
         NEW j \in DOMAIN chain, chain[j].at < p, p <= chain[j].limit,
         NEW k \in DOMAIN chain, chain[k].at < p, p <= chain[k].limit
  PROVE  j = k
<1>1. /\ chain[j].at \in Nat /\ chain[j].limit \in Nat
      /\ chain[k].at \in Nat /\ chain[k].limit \in Nat
  BY TypeFacts DEF IInv
<1>2. j # k => Apart(chain[j], chain[k])
  BY DEF IInv, Disjoint
<1> QED
  BY <1>1, <1>2 DEF Apart

\* An object is found in the chunk it was finished in.
LEMMA FoundThere ==
  ASSUME IInv, NEW i \in DOMAIN objects
  PROVE  /\ chain # <<>> /\ objects[i].depth \in DOMAIN chain
         /\ chain[objects[i].depth].at < objects[i].at
         /\ objects[i].at <= chain[objects[i].depth].limit
         /\ Found(objects[i].at) = {objects[i].depth}
<1> DEFINE p == objects[i].at
           d == objects[i].depth
<1>1. d \in DOMAIN chain /\ Contents(chain[d]) <= p /\ p + objects[i].size <= chain[d].limit
  BY DEF IInv, Stacked
<1>2. chain # <<>>
  BY <1>1
<1>3. p \in Nat /\ objects[i].size \in Nat
  BY <1>2, TypeFacts DEF IInv
<1> HIDE DEF p, d
<1>4. \A k \in DOMAIN chain :
        chain[k].at \in Nat /\ chain[k].limit \in Nat /\ chain[k].at < Contents(chain[k])
        /\ Contents(chain[k]) \in Nat
  BY <1>2, TypeFacts DEF IInv
<1>5. chain[d].at < p /\ p <= chain[d].limit
  BY <1>1, <1>3, <1>4
<1>6. Found(p) = {k \in DOMAIN chain : chain[k].at < p /\ p <= chain[k].limit}
  BY <1>3, <1>4 DEF Found, Above
<1>7. Found(p) = {d}
  BY <1>1, <1>2, <1>3, <1>5, <1>6, OneChunk
<1> QED
  BY <1>1, <1>2, <1>5, <1>7 DEF p, d

\* So obstack_free() of an object goes down to that chunk, both ways.
LEMMA FreeIsDownTo ==
  ASSUME IInv, NEW i \in DOMAIN objects, Free(i)
  PROVE  /\ FreeDownTo(objects[i].depth, objects[i].at)
         /\ objects' = SubSeq(objects, 1, i - 1)
<1> DEFINE p == objects[i].at
           d == objects[i].depth
<1>1. /\ chain # <<>> /\ d \in DOMAIN chain
      /\ chain[d].at < p /\ p <= chain[d].limit /\ Found(p) = {d}
  BY FoundThere
<1>2. p \in Nat /\ Len(chain) \in DOMAIN chain
  BY <1>1, TypeFacts DEF IInv
<1>3. CASE p > chunk.at /\ p < chunk.limit
  <2>1. chain[Len(chain)].at < p /\ p <= chain[Len(chain)].limit
    BY <1>1, <1>2, <1>3, TypeFacts DEF chunk, IInv
  <2>2. d = Len(chain)
    BY <1>1, <1>2, <2>1, OneChunk
  <2> QED
    BY <1>3, <2>2 DEF Free
<1>4. CASE ~(p > chunk.at /\ p < chunk.limit)
  BY <1>1, <1>4 DEF Free
<1> QED
  BY <1>3, <1>4

LEMMA FreeKeeps ==
  ASSUME IInv, NEW i \in DOMAIN objects, Free(i)
  PROVE  IInv'
<1> DEFINE p == objects[i].at
           d == objects[i].depth
<1>1. FreeDownTo(d, p) /\ objects' = SubSeq(objects, 1, i - 1) /\ state' = state
  BY FreeIsDownTo DEF FreeDownTo
<1>2. /\ chain # <<>> /\ d \in DOMAIN chain
      /\ chain[d].at < p /\ p <= chain[d].limit
  BY FoundThere
<1>3. /\ p \in Nat /\ Len(chain) \in Nat \ {0} /\ DOMAIN chain = 1..Len(chain)
      /\ chain \in Seq(ChunkSet) /\ objects \in Seq(ObjectSet)
  BY <1>2, TypeFacts DEF IInv, TypeOK, ChunkSet, ObjectSet
<1>4. d \in 1..Len(chain) /\ Contents(chain[d]) <= p
  BY <1>2, <1>3 DEF IInv, Stacked
<1>5. /\ chain[d].limit \in Nat /\ Contents(chain[d]) \in Nat
  BY <1>2, TypeFacts DEF IInv
<1>6. /\ state = "used" /\ object_base' = p /\ next_free' = p
      /\ maybe_empty_object' = (maybe_empty_object \/ d < Len(chain))
      /\ chain' = SubSeq(chain, 1, d)
      /\ blocks' = blocks \ {chain[j] : j \in (d + 1)..Len(chain)}
  BY <1>1 DEF FreeDownTo, Free
<1>6a. d < Len(chain) \/ d = Len(chain)
  <2>1. Len(chain) \in Nat
    BY <1>3
  <2>2. d \in 1..Len(chain)
    BY <1>4
  <2> QED
    BY <2>1, <2>2
<1> HIDE DEF p, d
<1>7. /\ chain' \in Seq(ChunkSet) /\ Len(chain') = d /\ DOMAIN chain' = 1..d
      /\ \A k \in 1..d : k \in DOMAIN chain /\ chain'[k] = chain[k]
  BY <1>3, <1>4, <1>6, Cut
<1>8. chunk' = chain[d]
  BY <1>4, <1>7 DEF chunk
<1>9. /\ objects' \in Seq(ObjectSet) /\ DOMAIN objects' = 1..(i - 1)
      /\ \A j \in 1..(i - 1) : j \in DOMAIN objects /\ objects'[j] = objects[j] /\ j < i
      /\ i \in Nat
  <2>1. i \in 1..Len(objects) /\ Len(objects) \in Nat
    BY <1>3, LenProperties
  <2>2. i - 1 \in Nat /\ i - 1 <= Len(objects)
    BY <2>1
  <2> QED
    BY <1>1, <1>3, <2>1, <2>2, Cut
<1>10. TypeOK'
  <2>1. memory' \in [Addresses -> Value]
    BY <1>1, ScribbledTyped DEF FreeDownTo, IInv, TypeOK
  <2>2. maybe_empty_object' \in BOOLEAN
    BY <1>6
  <2>3. objects' \in Seq([at : Addresses \cup {High}, size : Nat, depth : Nat])
    BY <1>9 DEF ObjectSet
  <2>4. chain' \in Seq([at : Addresses, limit : Low..High])
    BY <1>7 DEF ChunkSet
  <2>5. object_base' \in Nat /\ next_free' \in Nat
    BY <1>3, <1>6
  <2>6. chain' # <<>>
    BY <1>4, <1>7
  <2>7. /\ Contents(chunk') <= object_base' /\ object_base' <= next_free'
        /\ next_free' <= chunk'.limit
    BY <1>2, <1>3, <1>4, <1>6, <1>8
  <2> QED
    BY <1>1, <2>1, <2>2, <2>3, <2>4, <2>5, <2>6, <2>7 DEF TypeOK, IInv, Contents, Align
<1>11. Placed' /\ Disjoint'
  BY <1>7 DEF IInv, Placed, Disjoint
<1>12. Held'
  <2>1. \A j, k \in DOMAIN chain : j # k => chain[j] # chain[k]
    BY <1>2, ChunksDiffer
  <2>2. blocks = {chain[k] : k \in 1..Len(chain)}
    BY <1>3 DEF IInv, Held
  <2>3. 1..Len(chain) = 1..d \cup (d + 1)..Len(chain)
    BY <1>3, <1>4
  <2>4. \A j \in 1..d, k \in (d + 1)..Len(chain) : chain[j] # chain[k]
    BY <1>3, <1>4, <2>1
  <2>5. blocks' = {chain[k] : k \in 1..d}
    BY <1>6, <2>2, <2>3, <2>4
  <2> QED
    BY <1>7, <2>5 DEF Held
<1>13. \A j \in 1..(i - 1) :
         /\ objects[j].depth \in 1..d
         /\ objects[j].depth = d => objects[j].at + objects[j].size <= p
  <2>1. \A j \in 1..(i - 1) : objects[j].depth \in 1..Len(chain)
    BY <1>3, <1>9 DEF IInv, Stacked
  <2> QED
    BY <1>3, <1>4, <1>9, <2>1 DEF IInv, Stacked, p, d
<1>14. Stacked'
  BY <1>7, <1>9, <1>13 DEF IInv, Stacked, Contents, Align
<1>15. Topped'
  <2> SUFFICES ASSUME NEW j \in 1..(i - 1), objects[j].depth = d
               PROVE  /\ objects[j].at + objects[j].size <= p
                      /\ ~maybe_empty_object' => objects[j].size > 0
    BY <1>6, <1>7, <1>9 DEF Topped
  <2>1. ~maybe_empty_object' => ~maybe_empty_object /\ d = Len(chain)
    BY <1>6, <1>6a
  <2>2. ~maybe_empty_object /\ d = Len(chain) => objects[j].size > 0
    BY <1>9 DEF IInv, Topped
  <2> QED
    BY <1>13, <2>1, <2>2
<1>16. InLast'
  BY <1>2, <1>3, <1>4, <1>6, <1>8 DEF InLast
<1>17. States'
  <2>1. chain' # <<>>
    BY <1>4, <1>7
  <2>2. state' = "used"
    BY <1>1, <1>6
  <2> QED
    BY <2>1, <2>2 DEF States
<1> QED
  BY <1>10, <1>11, <1>12, <1>14, <1>15, <1>16, <1>17 DEF IInv

LEMMA FreeAllKeeps == IInv /\ FreeAll => IInv'
<1> SUFFICES ASSUME IInv, FreeAll
             PROVE  IInv'
  OBVIOUS
<1>1. /\ chain' = <<>> /\ objects' = <<>> /\ state' = "unused"
      /\ object_base' = 0 /\ next_free' = 0
  BY DEF FreeAll
<1>2. blocks' = {}
  BY DEF FreeAll, Gone, IInv, Held
<1>3. memory' \in [Addresses -> Value]
  BY ScribbledTyped DEF FreeAll, Gone, IInv, TypeOK
<1>4. maybe_empty_object' \in BOOLEAN
  BY DEF FreeAll
<1>5. /\ chain' \in Seq([at : Addresses, limit : Low..High])
      /\ objects' \in Seq([at : Addresses \cup {High}, size : Nat, depth : Nat])
  BY <1>1
<1>6. TypeOK'
  BY <1>1, <1>3, <1>4, <1>5 DEF TypeOK
<1> QED
  BY <1>1, <1>2, <1>6 DEF IInv, Placed, Disjoint, Held, Stacked, Topped, InLast, States

\* The bytes the macros write are bytes of a value.
LEMMA BytesAreValues ==
  ASSUME NEW length \in 0..SizeMax, NEW byte \in Byte
  PROVE  /\ <<>> \in Seq(Value)
         /\ [i \in 1..length |-> byte] \in Seq(Value)
         /\ [i \in 1..length |-> IF i <= Buffer THEN byte ELSE Junk] \in Seq(Value)
BY AddressAssumption DEF Value

LEMMA Keeps == IInv /\ [Next]_vars => IInv'
<1> SUFFICES ASSUME IInv, [Next]_vars
             PROVE  IInv'
  OBVIOUS
<1>0. ASSUME NEW length \in Lengths
      PROVE  length \in 0..SizeMax
  BY SizeAssumption
<1>1. CASE Begin
  BY <1>1, BeginKeeps
<1>2. CASE CannotBegin
  BY <1>2, FailKeeps DEF CannotBegin
<1>3. ASSUME NEW length \in Lengths, Blank(length)
      PROVE  IInv'
  <2>1. <<>> \in Seq(Value)
    OBVIOUS
  <2> QED
    BY <1>0, <1>3, <2>1, GrowKeeps DEF Blank
<1>4. ASSUME NEW length \in Lengths, MakeRoom(length)
      PROVE  IInv'
  BY <1>0, <1>4, MakeRoomKeeps
<1>5. ASSUME NEW length \in Lengths, CannotGrow(length)
      PROVE  IInv'
  BY <1>5, FailKeeps DEF CannotGrow
<1>6. ASSUME NEW length \in Lengths, NEW byte \in Byte, Grow(length, byte)
      PROVE  IInv'
  BY <1>0, <1>6, BytesAreValues, GrowKeeps DEF Grow
<1>7. ASSUME NEW length \in Lengths, NEW byte \in Byte, Printf(length, byte)
      PROVE  IInv'
  BY <1>0, <1>7, BytesAreValues, GrowKeeps DEF Printf
<1>8. CASE Finish
  BY <1>8, FinishKeeps
<1>9. ASSUME NEW i \in DOMAIN objects, Free(i)
      PROVE  IInv'
  BY <1>9, FreeKeeps
<1>10. CASE FreeAll
  BY <1>10, FreeAllKeeps
<1>11. CASE UNCHANGED vars
  BY <1>11 DEF vars, obstack, IInv, TypeOK, Placed, Disjoint, Held, Stacked, Topped, InLast,
               States, chunk, Contents, Align, Apart
<1> QED
  BY <1>1, <1>2, <1>3, <1>4, <1>5, <1>6, <1>7, <1>8, <1>9, <1>10, <1>11 DEF Next

THEOREM Inductive == Spec => []IInv
<1>1. IInv /\ [Next]_vars => IInv'
  BY Keeps
<1> QED
  BY <1>1, InitInv, PTL DEF Spec

\* An obstack of any size is well formed: the object that grows lies in the
\* last chunk (os/obstack.c _obstack_newchunk()).
THEOREM ObstackTypeOK == Spec => []TypeOK
<1>1. IInv => TypeOK
  BY DEF IInv
<1> QED
  BY <1>1, Inductive, PTL

\* No chunk leaks and none is used after it was freed, whatever is grown and
\* freed (os/obstack.c _obstack_newchunk(), _obstack_free()).
THEOREM ObstackChainIsLive == Spec => []ChainIsLive
<1>1. IInv => ChainIsLive
  BY DEF IInv, Held, ChainIsLive
<1> QED
  BY <1>1, Inductive, PTL

\* Finished objects stay apart inside the chain, and obstack_free() finds them:
\* abort() is out of reach.
THEOREM ObstackObjectsLive == Spec => []ObjectsLive
<1>1. ASSUME IInv
      PROVE  ObjectsLive
  <2>1. state # "aborted"
    BY <1>1 DEF IInv, States
  <2>2. ASSUME NEW i \in DOMAIN objects
        PROVE  /\ \E c \in blocks : /\ Contents(c) <= objects[i].at
                                     /\ objects[i].at + objects[i].size <= c.limit
               /\ AllocatedP(objects[i].at)
    BY <1>1, FoundThere DEF IInv, Held, Stacked, AllocatedP
  <2>3. ASSUME NEW i \in DOMAIN objects, NEW j \in 1..(i - 1)
        PROVE  \/ objects[i].at + objects[i].size <= objects[j].at
               \/ objects[j].at + objects[j].size <= objects[i].at
    <3>1. /\ chain # <<>> /\ objects \in Seq(ObjectSet)
          /\ i \in 1..Len(objects) /\ j \in DOMAIN objects /\ j < i
      <4>1. objects \in Seq(ObjectSet)
        BY <1>1 DEF IInv, TypeOK, ObjectSet
      <4> QED
        BY <1>1, <4>1, FoundThere, LenProperties
    <3> DEFINE c == chain[objects[i].depth]
               d == chain[objects[j].depth]
    <3>2. /\ objects[i].at \in Nat /\ objects[i].size \in Nat
          /\ objects[j].at \in Nat /\ objects[j].size \in Nat
      BY <1>1, <3>1, TypeFacts DEF IInv
    <3>3. CASE objects[j].depth = objects[i].depth
      BY <1>1, <3>1, <3>3 DEF IInv, Stacked
    <3>4. CASE objects[j].depth # objects[i].depth
      <4>1. /\ objects[i].depth \in DOMAIN chain /\ objects[j].depth \in DOMAIN chain
            /\ Contents(c) <= objects[i].at /\ objects[i].at + objects[i].size <= c.limit
            /\ Contents(d) <= objects[j].at /\ objects[j].at + objects[j].size <= d.limit
        BY <1>1, <3>1 DEF IInv, Stacked
      <4>2. Apart(c, d)
        BY <1>1, <3>4, <4>1 DEF IInv, Disjoint
      <4>3. /\ c.at \in Nat /\ c.limit \in Nat /\ c.at < Contents(c) /\ Contents(c) \in Nat
            /\ d.at \in Nat /\ d.limit \in Nat /\ d.at < Contents(d) /\ Contents(d) \in Nat
        BY <1>1, <3>1, <4>1, TypeFacts DEF IInv
      <4> HIDE DEF c, d
      <4> QED
        BY <3>2, <4>1, <4>2, <4>3 DEF Apart
    <3> QED
      BY <3>3, <3>4
  <2> QED
    BY <2>1, <2>2, <2>3 DEF ObjectsLive
<1> QED
  BY <1>1, Inductive, PTL

-----------------------------------------------------------------------------
(* Alignment *)

\* A place an object may begin at: aligned, or the end of its chunk, where
\* obstack_finish() stops when the next boundary lies behind it.
Begins(p, c) == p % Alignment = 0 \/ p = c.limit

\* Every finished object, and the one that grows, begins at such a place of
\* its chunk: at the end of a chunk there is room for an empty one only.
OnBoundary ==
  /\ chain = <<>> => next_free = object_base
  /\ chain # <<>> => Begins(object_base, chunk)
  /\ \A i \in DOMAIN objects : Begins(objects[i].at, chain[objects[i].depth])

LEMMA AlignIsAligned ==
  ASSUME NEW p \in Nat
  PROVE  Align(p) % Alignment = 0
<1> DEFINE q == p + (Alignment - 1)
<1>1. q \in Nat /\ Alignment \in Nat \ {0}
  BY AddressAssumption
<1>2. Align(p) = q - (q % Alignment)
  BY AddressAssumption DEF Align
<1> DEFINE k == q \div Alignment
<1> HIDE DEF q
<1>3. k \in Nat /\ q - (q % Alignment) = Alignment * k
  BY <1>1
<1> HIDE DEF k
<1>4. (Alignment * k) % Alignment = 0
  BY <1>1, <1>3
<1> QED
  BY <1>2, <1>3, <1>4

LEMMA ContentsAligned ==
  ASSUME NEW c, c.at \in Addresses
  PROVE  Contents(c) % Alignment = 0
<1>1. c.at + Header \in Nat
  BY AddressAssumption DEF Addresses
<1> QED
  BY <1>1, AlignIsAligned DEF Contents

\* The object moves to the first place of a new chunk; the finished objects
\* stay in theirs, none of which is the one given back.
LEMMA NewChunkOnBoundary ==
  ASSUME IInv, OnBoundary, state = "used",
         NEW size \in Nat, NEW c \in Malloc(size), NEW n, NEW bytes,
         NewChunk(c, n, bytes), objects' = objects
  PROVE  OnBoundary'
<1> DEFINE last == IF Alone THEN Len(chain) ELSE Len(chain) + 1
<1>1. chain # <<>>
  BY DEF IInv, States
<1>2. c \in ChunkSet /\ c.at \in Addresses
  BY ChunkIsTyped, MallocGives
<1>3. chain \in Seq(ChunkSet)
  BY DEF IInv, TypeOK, ChunkSet
<1>4. Len(chain) \in Nat \ {0} /\ DOMAIN chain = 1..Len(chain)
  BY <1>1, TypeFacts DEF IInv
<1>5. chain' = Append(SubSeq(chain, 1, last - 1), c)
  <2>1. CASE Alone
    BY <1>4, <2>1 DEF NewChunk
  <2>2. CASE ~Alone
    BY <1>3, <1>4, <2>2, Whole DEF NewChunk
  <2> QED
    BY <2>1, <2>2
<1>6. \A i \in DOMAIN objects : objects[i].depth \in 1..(last - 1)
  <2>1. \A i \in DOMAIN objects : objects[i].depth \in 1..Len(chain)
    BY <1>4 DEF IInv, Stacked
  <2>2. CASE Alone
    BY <1>1, <1>4, <2>1, <2>2, AloneIsAlone
  <2>3. CASE ~Alone
    BY <1>4, <2>1, <2>3
  <2> QED
    BY <2>2, <2>3
<1>7. last - 1 \in Nat /\ last - 1 <= Len(chain) /\ (last - 1) + 1 = last
  BY <1>4
<1> HIDE DEF last
<1>8. /\ Len(chain') = last /\ chain'[last] = c /\ chain' # <<>>
      /\ \A k \in 1..(last - 1) : chain'[k] = chain[k]
  BY <1>2, <1>3, <1>5, <1>7, Pushed
<1>9. object_base' % Alignment = 0
  BY <1>2, ContentsAligned DEF NewChunk
<1>10. \A i \in DOMAIN objects : Begins(objects[i].at, chain'[objects[i].depth])
  BY <1>6, <1>8 DEF OnBoundary
<1> QED
  BY <1>8, <1>9, <1>10 DEF OnBoundary, Begins

LEMMA GrowOnBoundary ==
  ASSUME IInv, OnBoundary, NEW length \in Lengths, NEW bytes, GrowBy(length, bytes)
  PROVE  OnBoundary'
<1>1. /\ state = "used" /\ objects' = objects
      /\ chain # <<>> /\ object_size \in Nat /\ object_size <= High
      /\ length \in 0..SizeMax
  BY SizeFacts, SizeAssumption DEF GrowBy, IInv, States
<1>2. CASE UNCHANGED <<chain, object_base>>
  BY <1>1, <1>2 DEF OnBoundary, Begins, chunk
<1>3. CASE Fits(length) /\ \E c \in Malloc(NewSize(length)) : NewChunk(c, length, bytes)
  <2>1. PICK c \in Malloc(NewSize(length)) : NewChunk(c, length, bytes)
    BY <1>3
  <2>2. NewSize(length) \in Nat
    BY <1>1, <1>3, NewSizeFits
  <2> QED
    BY <1>1, <2>1, <2>2, NewChunkOnBoundary
<1> QED
  BY <1>2, <1>3 DEF GrowBy

LEMMA MakeRoomOnBoundary ==
  ASSUME IInv, OnBoundary, NEW length \in Lengths, MakeRoom(length)
  PROVE  OnBoundary'
<1>1. /\ state = "used" /\ objects' = objects
      /\ chain # <<>> /\ object_size \in Nat /\ object_size <= High
      /\ length \in 0..SizeMax
  BY SizeFacts, SizeAssumption DEF MakeRoom, IInv, States
<1>2. PICK c \in Malloc(NewSize(length)) : NewChunk(c, 0, <<>>)
  BY DEF MakeRoom
<1>3. NewSize(length) \in Nat
  BY <1>1, NewSizeFits DEF MakeRoom
<1> QED
  BY <1>1, <1>2, <1>3, NewChunkOnBoundary

\* obstack_finish() stops at the next boundary or at the limit.
LEMMA FinishOnBoundary == IInv /\ OnBoundary /\ Finish => OnBoundary'
<1> SUFFICES ASSUME IInv, OnBoundary, Finish
             PROVE  OnBoundary'
  OBVIOUS
<1> DEFINE new == [at |-> object_base, size |-> object_size, depth |-> Len(chain)]
<1>1. /\ chain # <<>> /\ chain' = chain /\ objects' = Append(objects, new)
      /\ object_base' = Finished
  BY DEF Finish, IInv, States
<1>2. Align(next_free) % Alignment = 0
  BY AlignIsAligned DEF IInv, TypeOK
<1>3. Begins(object_base', chunk)
  BY <1>1, <1>2 DEF Finished, Begins
<1>4. objects \in Seq(ObjectSet)
  BY DEF IInv, TypeOK, ObjectSet
<1>5. new.at = object_base /\ new.depth = Len(chain)
  OBVIOUS
<1> HIDE DEF new
<1>6. /\ \A i \in DOMAIN objects' : i \in DOMAIN objects \/ i = Len(objects) + 1
      /\ \A i \in DOMAIN objects : objects'[i] = objects[i]
      /\ objects'[Len(objects) + 1] = new
  BY <1>1, <1>4
<1>7. Begins(new.at, chain[new.depth])
  BY <1>1, <1>5 DEF OnBoundary, chunk
<1>8. \A i \in DOMAIN objects' : Begins(objects'[i].at, chain[objects'[i].depth])
  BY <1>6, <1>7 DEF OnBoundary
<1> QED
  BY <1>1, <1>3, <1>8 DEF OnBoundary, Begins, chunk

\* A freed object was on such a place of the chunk that is the last again.
LEMMA FreeOnBoundary ==
  ASSUME IInv, OnBoundary, NEW i \in DOMAIN objects, Free(i)
  PROVE  OnBoundary'
<1> DEFINE p == objects[i].at
           d == objects[i].depth
<1>1. /\ chain' = SubSeq(chain, 1, d) /\ object_base' = p
      /\ objects' = SubSeq(objects, 1, i - 1)
  BY FreeIsDownTo DEF FreeDownTo
<1>2. chain # <<>> /\ d \in DOMAIN chain
  BY FoundThere
<1>3. /\ chain \in Seq(ChunkSet) /\ objects \in Seq(ObjectSet)
      /\ DOMAIN chain = 1..Len(chain) /\ Len(chain) \in Nat
  BY <1>2, TypeFacts DEF IInv, TypeOK, ChunkSet, ObjectSet
<1>4. Begins(p, chain[d])
  BY DEF OnBoundary
<1>5. \A j \in DOMAIN objects : j < i => objects[j].depth \in 1..d
  BY <1>3 DEF IInv, Stacked
<1>6. d \in Nat \ {0} /\ d <= Len(chain)
  BY <1>2, <1>3
<1> HIDE DEF p, d
<1>7. /\ Len(chain') = d /\ chain' # <<>>
      /\ \A k \in 1..d : chain'[k] = chain[k]
  BY <1>1, <1>3, <1>6, Cut
<1>8. \A j \in DOMAIN objects' :
        j \in DOMAIN objects /\ j < i /\ objects'[j] = objects[j]
  <2>1. DOMAIN objects = 1..Len(objects) /\ Len(objects) \in Nat
    BY <1>3
  <2>2. i \in Nat /\ i - 1 \in Nat /\ i - 1 <= Len(objects)
    BY <2>1
  <2>3. /\ DOMAIN objects' = 1..(i - 1)
        /\ \A j \in 1..(i - 1) : j \in DOMAIN objects /\ objects'[j] = objects[j]
    BY <1>1, <1>3, <2>2, Cut
  <2> QED
    BY <2>2, <2>3
<1>9. \A j \in DOMAIN objects' : Begins(objects'[j].at, chain'[objects'[j].depth])
  BY <1>5, <1>7, <1>8 DEF OnBoundary
<1>10. chain'[d] = chain[d]
  BY <1>6, <1>7
<1> QED
  BY <1>1, <1>4, <1>7, <1>9, <1>10 DEF OnBoundary, Begins, chunk

LEMMA StaysOnBoundary == IInv /\ OnBoundary /\ [Next]_vars => OnBoundary'
<1> SUFFICES ASSUME IInv, OnBoundary, [Next]_vars
             PROVE  OnBoundary'
  OBVIOUS
<1>1. CASE Begin
  <2>1. PICK c \in Malloc(ChunkSize) : chain' = <<c>> /\ object_base' = Contents(c)
    BY <1>1 DEF Begin
  <2>2. c.at \in Addresses
    BY SizeAssumption, MallocGives
  <2>3. chain' # <<>> /\ objects' = <<>> /\ object_base' % Alignment = 0
    BY <1>1, <2>1, <2>2, ContentsAligned DEF Begin
  <2> QED
    BY <2>3 DEF OnBoundary, Begins
<1>2. CASE UNCHANGED <<obstack, objects>>
  BY <1>2 DEF obstack, OnBoundary, Begins, chunk
<1>3. ASSUME NEW length \in Lengths,
             \/ Blank(length)
             \/ \E byte \in Byte : Grow(length, byte) \/ Printf(length, byte)
      PROVE  OnBoundary'
  BY <1>3, GrowOnBoundary DEF Blank, Grow, Printf
<1>4. ASSUME NEW length \in Lengths, MakeRoom(length)
      PROVE  OnBoundary'
  BY <1>4, MakeRoomOnBoundary
<1>5. CASE Finish
  BY <1>5, FinishOnBoundary
<1>6. ASSUME NEW i \in DOMAIN objects, Free(i)
      PROVE  OnBoundary'
  BY <1>6, FreeOnBoundary
<1>7. CASE FreeAll
  BY <1>7 DEF FreeAll, OnBoundary
<1> QED
  BY <1>1, <1>2, <1>3, <1>4, <1>5, <1>6, <1>7 DEF Next, vars, CannotBegin, CannotGrow, Fail

\* Though obstack_finish() may leave next_free at an odd limit, an object that
\* has a byte begins aligned, whatever the alignment, and wherever malloc()
\* put its chunk (__PTR_ALIGN in os/obstack.h).
THEOREM ObstackAligned == Spec => []Aligned
<1>1. Init => OnBoundary
  BY DEF Init, OnBoundary
<1>2. IInv /\ OnBoundary => Aligned
  <2> SUFFICES ASSUME IInv, OnBoundary
               PROVE  Aligned
    OBVIOUS
  <2>1. ASSUME NEW i \in DOMAIN objects, objects[i].size > 0
        PROVE  objects[i].at % Alignment = 0
    <3>1. /\ chain # <<>> /\ objects[i].depth \in DOMAIN chain
          /\ objects[i].at + objects[i].size <= chain[objects[i].depth].limit
      BY FoundThere DEF IInv, Stacked
    <3>2. objects[i].at # chain[objects[i].depth].limit
      BY <2>1, <3>1, TypeFacts DEF IInv
    <3> QED
      BY <3>2 DEF OnBoundary, Begins
  <2>2. ASSUME next_free > object_base
        PROVE  object_base % Alignment = 0
    <3>1. chain # <<>>
      BY <2>2 DEF OnBoundary, IInv, TypeOK
    <3>2. next_free <= chunk.limit /\ object_base \in Nat /\ next_free \in Nat
      BY <3>1, TypeFacts DEF IInv, InLast
    <3>3. chunk.limit \in Nat
      BY <3>1, TypeFacts DEF IInv, chunk
    <3> QED
      BY <2>2, <3>1, <3>2, <3>3 DEF OnBoundary, Begins
  <2> QED
    BY <2>1, <2>2 DEF Aligned
<1> QED
  BY <1>1, <1>2, StaysOnBoundary, Inductive, PTL DEF Spec

-----------------------------------------------------------------------------
(* The refinement *)

Stack == [i \in DOMAIN objects |-> ContentsOf(objects[i].at, objects[i].size)]
Growing == ContentsOf(object_base, object_size)

LEMMA Prefix ==
  ASSUME NEW S, NEW s \in Seq(S), NEW t \in Seq(S), Len(s) <= Len(t),
         \A k \in 1..Len(s) : s[k] = t[k]
  PROVE  s = SubSeq(t, 1, Len(s))
<1>1. Len(s) \in Nat /\ Len(t) \in Nat /\ DOMAIN s = 1..Len(s)
  BY LenProperties
<1>2. /\ SubSeq(t, 1, Len(s)) \in Seq(S) /\ DOMAIN SubSeq(t, 1, Len(s)) = 1..Len(s)
      /\ \A k \in 1..Len(s) : SubSeq(t, 1, Len(s))[k] = t[k]
      /\ Len(SubSeq(t, 1, Len(s))) = Len(s)
  BY <1>1, Cut
<1> QED
  BY <1>1, <1>2, SeqEqual

LEMMA ContentsAreSeq ==
  ASSUME NEW held \in [Addresses -> Value], NEW at \in Nat, NEW size \in Nat,
         Low <= at, at + size <= High
  PROVE  LET bytes == [i \in 1..size |-> held[at + i - 1]] IN
         /\ bytes \in Seq(Value)
         /\ Len(bytes) = size
         /\ \A k \in 1..size : bytes[k] = held[at + k - 1] /\ at + k - 1 \in Addresses
<1>1. \A k \in 1..size : at + k - 1 \in Addresses
  BY AddressAssumption DEF Addresses
<1>2. \A k \in 1..size : held[at + k - 1] \in Value
  BY <1>1
<1>3. [i \in 1..size |-> held[at + i - 1]] \in [1..size -> Value]
  BY <1>2
<1> QED
  BY <1>1, <1>3

LEMMA GrowingIsSeq ==
  ASSUME IInv, chain # <<>>
  PROVE  /\ Growing \in Seq(Value) /\ Len(Growing) = object_size
         /\ \A k \in 1..object_size : Growing[k] = memory[object_base + k - 1]
         /\ Low <= object_base /\ object_base + object_size <= High
<1>1. /\ object_size \in Nat /\ object_base \in Nat /\ next_free = object_base + object_size
      /\ memory \in [Addresses -> Value]
  BY SizeFacts, TypeFacts DEF IInv, TypeOK
<1>2. /\ Contents(chunk) <= object_base /\ next_free <= chunk.limit
      /\ chunk.at < Contents(chunk) /\ chunk.at \in Addresses
      /\ Contents(chunk) \in Nat /\ chunk.limit \in Nat /\ chunk.limit <= High
  BY TypeFacts DEF IInv, InLast, chunk
<1>3. Low <= object_base /\ object_base + object_size <= High
  BY <1>1, <1>2, AddressAssumption DEF Addresses
<1> QED
  BY <1>1, <1>3, ContentsAreSeq, ZenonT(30) DEF Growing, ContentsOf

\* The addresses of a finished object are in its chunk only, and not where an
\* object may grow.
LEMMA ObjectAddresses ==
  ASSUME IInv, NEW i \in DOMAIN objects, NEW k \in 1..objects[i].size,
         NEW a, a = objects[i].at + k - 1
  PROVE  /\ chain # <<>> /\ a \in Nat /\ a \in Addresses
         /\ objects[i].at <= a /\ a < objects[i].at + objects[i].size
         /\ \A m \in DOMAIN chain :
              m # objects[i].depth => a < chain[m].at \/ chain[m].limit <= a
         /\ a < object_base \/ chunk.limit <= a
<1> DEFINE d == objects[i].depth
<1>1. /\ chain # <<>> /\ d \in DOMAIN chain
      /\ Contents(chain[d]) <= objects[i].at /\ objects[i].at + objects[i].size <= chain[d].limit
  BY FoundThere DEF IInv, Stacked
<1>2. /\ objects[i].at \in Nat /\ objects[i].size \in Nat /\ object_base \in Nat
      /\ Len(chain) \in DOMAIN chain /\ DOMAIN chain = 1..Len(chain)
      /\ \A m \in DOMAIN chain :
           /\ chain[m].at \in Nat /\ chain[m].at \in Addresses
           /\ chain[m].limit \in Nat /\ chain[m].limit <= High
           /\ chain[m].at < Contents(chain[m]) /\ Contents(chain[m]) \in Nat
           /\ Contents(chain[m]) <= chain[m].limit
  BY <1>1, TypeFacts DEF IInv, Placed
<1>3. d = Len(chain) => objects[i].at + objects[i].size <= object_base
  BY DEF IInv, Topped
<1> HIDE DEF d
<1>4. a \in Nat /\ objects[i].at <= a /\ a < objects[i].at + objects[i].size
  BY <1>2
<1>5. chain[d].at < a /\ a < chain[d].limit
  BY <1>1, <1>2, <1>4
<1>6. a \in Addresses
  BY <1>1, <1>2, <1>4, <1>5, AddressAssumption, SMTT(30) DEF Addresses
<1>7. \A m \in DOMAIN chain : m # d => a < chain[m].at \/ chain[m].limit <= a
  <2> SUFFICES ASSUME NEW m \in DOMAIN chain, m # d
               PROVE  a < chain[m].at \/ chain[m].limit <= a
    OBVIOUS
  <2>1. Apart(chain[m], chain[d])
    BY <1>1 DEF IInv, Disjoint
  <2>2. /\ chain[m].at \in Nat /\ chain[m].limit \in Nat /\ chain[m].at < chain[m].limit
        /\ chain[d].at \in Nat /\ chain[d].limit \in Nat
    <3>1. /\ chain[m].at < Contents(chain[m]) /\ Contents(chain[m]) <= chain[m].limit
          /\ Contents(chain[m]) \in Nat
      BY <1>2
    <3>2. /\ chain[m].at \in Nat /\ chain[m].limit \in Nat
          /\ chain[d].at \in Nat /\ chain[d].limit \in Nat
      BY <1>1, <1>2
    <3> QED
      BY <3>1, <3>2
  <2>3. a \in Nat /\ chain[d].at < a /\ a < chain[d].limit
    BY <1>4, <1>5
  <2> QED
    BY <2>1, <2>2, <2>3 DEF Apart
<1>8. a < object_base \/ chunk.limit <= a
  <2>1. CASE d = Len(chain)
    BY <1>2, <1>3, <1>4, <2>1
  <2>2. CASE d # Len(chain)
    <3>1. a < chain[Len(chain)].at \/ chain[Len(chain)].limit <= a
      BY <1>2, <1>7, <2>2
    <3>2. chain[Len(chain)].at < object_base
      BY <1>1, <1>2 DEF IInv, InLast, chunk
    <3> QED
      BY <1>2, <1>4, <3>1, <3>2 DEF chunk
  <2> QED
    BY <2>1, <2>2
<1> QED
  BY <1>1, <1>4, <1>6, <1>7, <1>8 DEF d

\* What nobody has written into stays as it is.
LEMMA StackStays ==
  ASSUME objects' = objects,
         \A i \in DOMAIN objects : \A k \in 1..objects[i].size :
           memory'[objects[i].at + k - 1] = memory[objects[i].at + k - 1]
  PROVE  Stack' = Stack
BY DEF Stack, ContentsOf

\* Growing keeps what there is of the growing object, wherever it goes on.
LEMMA GrowthRefines ==
  ASSUME IInv, chain # <<>>, chain' # <<>>, objects' = objects,
         memory' \in [Addresses -> Value], object_base' \in Nat, object_size' \in Nat,
         object_size <= object_size', Low <= object_base', object_base' + object_size' <= High,
         \A k \in 1..object_size :
           memory'[object_base' + k - 1] = memory[object_base + k - 1],
         \A i \in DOMAIN objects : \A k \in 1..objects[i].size :
           memory'[objects[i].at + k - 1] = memory[objects[i].at + k - 1]
  PROVE  Promised!Grow
<1>1. Growing' = [i \in 1..object_size' |-> memory'[object_base' + i - 1]]
  BY DEF Growing, ContentsOf
<1>2. /\ Growing' \in Seq(Value) /\ Len(Growing') = object_size'
      /\ \A k \in 1..object_size' : Growing'[k] = memory'[object_base' + k - 1]
  BY <1>1, ContentsAreSeq, ZenonT(30)
<1>3. /\ Growing \in Seq(Value) /\ Len(Growing) = object_size
      /\ \A k \in 1..object_size : Growing[k] = memory[object_base + k - 1]
  BY GrowingIsSeq
<1>4. object_size \in Nat
  BY SizeFacts
<1>5. \A k \in 1..object_size : k \in 1..object_size'
  BY <1>4
<1>6. \A k \in 1..Len(Growing) : Growing[k] = Growing'[k]
  BY <1>2, <1>3, <1>5
<1>7. Growing = SubSeq(Growing', 1, Len(Growing))
  BY <1>2, <1>3, <1>6, Prefix
<1>8. Stack' = Stack
  BY StackStays
<1> QED
  BY <1>2, <1>3, <1>7, <1>8 DEF Promised!Grow, Growing, Stack

LEMMA WrittenElsewhere ==
  ASSUME NEW held, NEW at \in Nat, NEW bytes, NEW n \in Nat, Len(bytes) \in 0..n,
         NEW a \in Addresses, a < at \/ at + n <= a
  PROVE  Written(held, at, bytes)[a] = held[a]
<1>1. a \notin Between(at, at + Len(bytes))
  BY AddressAssumption DEF Between, Addresses
<1> QED
  BY <1>1 DEF Written

\* The object grows where it is.
LEMMA GrowHereRefines ==
  ASSUME IInv, chain # <<>>, NEW length \in Nat, NEW bytes \in Seq(Value),
         Len(bytes) <= length, length <= room,
         next_free' = next_free + length,
         memory' = Written(memory, next_free, bytes),
         UNCHANGED <<chain, object_base, objects>>
  PROVE  Promised!Grow
<1>1. /\ object_size \in Nat /\ next_free = object_base + object_size
      /\ object_base \in Nat /\ memory \in [Addresses -> Value]
  BY SizeFacts, TypeFacts DEF IInv, TypeOK
<1>2. object_size' = object_size + length /\ object_base' = object_base
  BY <1>1 DEF object_size
<1>3. chunk.limit \in Nat /\ chunk.limit <= High /\ next_free + length <= chunk.limit
  BY <1>1, TypeFacts DEF IInv, chunk, room
<1>4. Len(bytes) \in 0..length
  OBVIOUS
<1>5. memory' \in [Addresses -> Value]
  BY <1>1, WrittenTyped
<1>6. ASSUME NEW a \in Addresses, a < next_free \/ chunk.limit <= a
      PROVE  memory'[a] = memory[a]
  <2>1. a < next_free \/ next_free + length <= a
    BY <1>1, <1>3, <1>6, AddressAssumption DEF Addresses
  <2> QED
    BY <1>1, <1>4, <2>1, WrittenElsewhere
<1>7. Low <= object_base
  BY GrowingIsSeq
<1>8. ASSUME NEW k \in 1..object_size
      PROVE  memory'[object_base + k - 1] = memory[object_base + k - 1]
  <2>1. object_base + k - 1 \in Addresses /\ object_base + k - 1 < next_free
    BY <1>1, <1>3, <1>7, AddressAssumption DEF Addresses
  <2> QED
    BY <1>6, <2>1
<1>9. ASSUME NEW i \in DOMAIN objects, NEW k \in 1..objects[i].size
      PROVE  memory'[objects[i].at + k - 1] = memory[objects[i].at + k - 1]
  <2> DEFINE a == objects[i].at + k - 1
  <2>1. a \in Nat /\ a \in Addresses /\ (a < object_base \/ chunk.limit <= a)
    BY ObjectAddresses
  <2> HIDE DEF a
  <2>2. a < next_free \/ chunk.limit <= a
    BY <1>1, <2>1
  <2>3. memory'[a] = memory[a]
    BY <1>6, <2>1, <2>2
  <2> QED
    BY <2>3 DEF a
<1>10. /\ object_base' \in Nat /\ object_size' \in Nat /\ object_size <= object_size'
       /\ Low <= object_base' /\ object_base' + object_size' <= High
  BY <1>1, <1>2, <1>3, <1>7, AddressAssumption
<1> QED
  BY <1>2, <1>5, <1>8, <1>9, <1>10, GrowthRefines

\* The object goes on in a new chunk.
LEMMA NewChunkRefines ==
  ASSUME IInv, chain # <<>>, chain' # <<>>,
         NEW size \in Nat, NEW c \in Malloc(size), NEW n \in Nat, NEW bytes \in Seq(Value),
         Len(bytes) <= n, Contents(c) + object_size + n <= c.limit,
         memory' \in [Addresses -> Value],
         NewChunk(c, n, bytes), objects' = objects
  PROVE  Promised!Grow
<1>1. /\ object_size \in Nat /\ next_free = object_base + object_size
      /\ object_base \in Nat /\ memory \in [Addresses -> Value]
  BY SizeFacts, TypeFacts DEF IInv, TypeOK
<1>2. /\ c \in ChunkSet /\ c.at \in Addresses /\ c.at \in Nat
      /\ c.limit \in Nat /\ c.limit <= High
      /\ Contents(c) \in Nat /\ c.at < Contents(c)
  BY ChunkIsTyped, ChunkFacts
<1>3. object_base' = Contents(c) /\ next_free' = Contents(c) + object_size + n
  BY DEF NewChunk
<1>4. object_size' = object_size + n
  BY <1>1, <1>2, <1>3 DEF object_size
<1>5. memory' = Written(Copied(c), Contents(c) + object_size, bytes)
  BY DEF NewChunk
<1>6. Len(bytes) \in 0..n
  OBVIOUS
<1>7. Low <= Contents(c) /\ Contents(c) + object_size <= High
  BY <1>1, <1>2, AddressAssumption DEF Addresses
<1>8. ASSUME NEW k \in 1..object_size
      PROVE  memory'[object_base' + k - 1] = memory[object_base + k - 1]
  <2> DEFINE a == Contents(c) + k - 1
  <2>1. a \in Addresses /\ a \in Nat /\ Contents(c) <= a /\ a < Contents(c) + object_size
    BY <1>1, <1>2, <1>7, AddressAssumption DEF Addresses
  <2>2. object_base + (a - Contents(c)) = object_base + k - 1
    BY <1>1, <1>2
  <2> HIDE DEF a
  <2>3. Written(Copied(c), Contents(c) + object_size, bytes)[a] = Copied(c)[a]
    <3>1. Contents(c) + object_size \in Nat
      BY <1>1, <1>2
    <3> QED
      BY <1>6, <2>1, <3>1, WrittenElsewhere, SMTT(30)
  <2>4. a \in Between(Contents(c), Contents(c) + object_size)
    BY <2>1 DEF Between
  <2>5. Copied(c)[a] = memory[object_base + k - 1]
    BY <2>1, <2>2, <2>4 DEF Copied
  <2> QED
    BY <1>3, <1>5, <2>3, <2>5 DEF a
<1>9. ASSUME NEW i \in DOMAIN objects, NEW k \in 1..objects[i].size
      PROVE  memory'[objects[i].at + k - 1] = memory[objects[i].at + k - 1]
  <2> DEFINE a == objects[i].at + k - 1
             d == objects[i].depth
  <2>1. a \in Nat /\ a \in Addresses /\ (a < object_base \/ chunk.limit <= a)
    BY ObjectAddresses
  <2>2. a < c.at \/ c.limit <= a
    <3>1. /\ d \in DOMAIN chain
          /\ Contents(chain[d]) <= objects[i].at
          /\ objects[i].at + objects[i].size <= chain[d].limit
      BY DEF IInv, Stacked
    <3>2. Apart(chain[d], c)
      BY <3>1, NewIsApart
    <3>3. /\ chain[d].at \in Nat /\ chain[d].limit \in Nat
          /\ Contents(chain[d]) \in Nat /\ chain[d].at < Contents(chain[d])
      BY <3>1, TypeFacts DEF IInv
    <3>4. /\ objects[i].at \in Nat /\ objects[i].size \in Nat
          /\ objects[i].at <= a /\ a < objects[i].at + objects[i].size
      BY TypeFacts, ObjectAddresses DEF IInv
    <3> HIDE DEF a, d
    <3>5. chain[d].at < a /\ a < chain[d].limit
      BY <2>1, <3>1, <3>3, <3>4
    <3> QED
      BY <1>2, <2>1, <3>2, <3>3, <3>5 DEF Apart
  <2> HIDE DEF a, d
  <2>3. a < Contents(c) + object_size \/ Contents(c) + object_size + n <= a
    BY <1>1, <1>2, <2>1, <2>2
  <2>4. Written(Copied(c), Contents(c) + object_size, bytes)[a] = Copied(c)[a]
    <3> DEFINE top == Contents(c) + object_size
    <3>1. top \in Nat /\ (a < top \/ top + n <= a)
      BY <1>1, <1>2, <2>3
    <3> HIDE DEF top
    <3>2. Written(Copied(c), top, bytes)[a] = Copied(c)[a]
      BY <1>6, <2>1, <3>1, WrittenElsewhere
    <3> QED
      BY <3>2 DEF top
  <2>5. a \notin Between(Contents(c), Contents(c) + object_size)
    BY <1>1, <1>2, <2>1, <2>2 DEF Between
  <2>6. a \notin Span({c}) \cup Between(object_base, chunk.limit)
    <3>1. a \notin Between(object_base, chunk.limit)
      <4>1. chunk.limit \in Nat
        BY TypeFacts DEF IInv, chunk
      <4> QED
        BY <1>1, <2>1, <4>1 DEF Between
    <3>2. a \notin Between(c.at, c.limit)
      BY <1>2, <2>1, <2>2 DEF Between
    <3>3. Span({c}) = Between(c.at, c.limit)
      BY DEF Span
    <3> QED
      BY <3>1, <3>2, <3>3
  <2>7. Copied(c)[a] = memory[a]
    BY <2>1, <2>5, <2>6 DEF Copied, Scribbled
  <2> QED
    BY <1>5, <2>4, <2>7 DEF a
<1>10. /\ object_base' \in Nat /\ object_size' \in Nat /\ object_size <= object_size'
       /\ Low <= object_base' /\ object_base' + object_size' <= High
  <2>1. Contents(c) + (object_size + n) <= High
    BY <1>1, <1>2, AddressAssumption
  <2>2. object_size + n \in Nat /\ object_size <= object_size + n
    BY <1>1
  <2> QED
    BY <1>2, <1>3, <1>4, <1>7, <2>1, <2>2
<1> QED
  BY <1>8, <1>9, <1>10, GrowthRefines

LEMMA GrowRefines ==
  ASSUME IInv, IInv', NEW length \in 0..SizeMax, NEW bytes \in Seq(Value),
         Len(bytes) <= length, GrowBy(length, bytes)
  PROVE  Promised!Grow
<1>1. /\ chain # <<>> /\ chain' # <<>> /\ objects' = objects
      /\ memory' \in [Addresses -> Value]
  BY DEF GrowBy, IInv, States, TypeOK
<1>2. object_size \in Nat /\ object_size <= High /\ room \in Nat /\ length \in Nat
  BY <1>1, SizeFacts, AddressAssumption
<1>3. CASE room >= length /\ next_free' = next_free + length
           /\ memory' = Written(memory, next_free, bytes)
           /\ UNCHANGED <<chain, object_base, maybe_empty_object, blocks>>
  <2>1. length <= room
    BY <1>2, <1>3
  <2> QED
    BY <1>1, <1>2, <1>3, <2>1, GrowHereRefines
<1>4. CASE Fits(length) /\ \E c \in Malloc(NewSize(length)) : NewChunk(c, length, bytes)
  <2>1. PICK c \in Malloc(NewSize(length)) : NewChunk(c, length, bytes)
    BY <1>4
  <2>2. NewSize(length) \in Nat /\ Contents(c) + object_size + length <= c.limit
    BY <1>2, <1>4, NewSizeFits
  <2> QED
    BY <1>1, <1>2, <2>1, <2>2, NewChunkRefines
<1> QED
  BY <1>3, <1>4 DEF GrowBy

LEMMA MakeRoomRefines ==
  ASSUME IInv, IInv', NEW length \in 0..SizeMax, MakeRoom(length)
  PROVE  Promised!Grow
<1>1. /\ chain # <<>> /\ chain' # <<>> /\ objects' = objects
      /\ memory' \in [Addresses -> Value]
  BY DEF MakeRoom, IInv, States, TypeOK
<1>2. object_size \in Nat /\ object_size <= High /\ length \in Nat /\ 0 \in Nat
  BY <1>1, SizeFacts, AddressAssumption
<1>3. PICK c \in Malloc(NewSize(length)) : NewChunk(c, 0, <<>>)
  BY DEF MakeRoom
<1>4. NewSize(length) \in Nat /\ Contents(c) + object_size + length <= c.limit
  BY <1>2, NewSizeFits DEF MakeRoom
<1>5. c.limit \in Nat /\ Contents(c) \in Nat
  BY <1>4, ChunkIsTyped, ChunkFacts
<1>6. Contents(c) + object_size + 0 <= c.limit
  BY <1>2, <1>4, <1>5
<1>7. <<>> \in Seq(Value) /\ Len(<<>>) <= 0
  OBVIOUS
<1> QED
  BY <1>1, <1>2, <1>3, <1>4, <1>6, <1>7, NewChunkRefines

LEMMA StackIsSeq ==
  ASSUME IInv
  PROVE  /\ objects \in Seq(ObjectSet) /\ Len(objects) \in Nat
         /\ DOMAIN objects = 1..Len(objects)
         /\ Stack \in Seq(Seq(Value)) /\ Len(Stack) = Len(objects)
         /\ \A i \in 1..Len(objects) :
              Stack[i] = ContentsOf(objects[i].at, objects[i].size)
<1>1. objects \in Seq(ObjectSet)
  BY DEF IInv, TypeOK, ObjectSet
<1>2. Len(objects) \in Nat /\ DOMAIN objects = 1..Len(objects)
  BY <1>1, LenProperties
<1>3. ASSUME NEW i \in 1..Len(objects)
      PROVE  ContentsOf(objects[i].at, objects[i].size) \in Seq(Value)
  <2>1. i \in DOMAIN objects
    BY <1>2
  <2>2. /\ chain # <<>> /\ objects[i].depth \in DOMAIN chain
        /\ Contents(chain[objects[i].depth]) <= objects[i].at
        /\ objects[i].at + objects[i].size <= chain[objects[i].depth].limit
    BY <2>1, FoundThere DEF IInv, Stacked
  <2>3. /\ objects[i].at \in Nat /\ objects[i].size \in Nat
        /\ memory \in [Addresses -> Value]
    BY <2>1, <2>2, TypeFacts DEF IInv, TypeOK
  <2> DEFINE c == chain[objects[i].depth]
  <2>4. /\ c.at \in Addresses /\ c.limit \in Nat /\ c.limit <= High
        /\ c.at < Contents(c) /\ Contents(c) \in Nat
    BY <2>2, TypeFacts DEF IInv
  <2>5. Low <= objects[i].at /\ objects[i].at + objects[i].size <= High
    BY <2>2, <2>3, <2>4, AddressAssumption, SMTT(30) DEF Addresses
  <2> QED
    BY <2>3, <2>5, ContentsAreSeq DEF ContentsOf
<1>4. Stack \in [1..Len(objects) -> Seq(Value)]
  BY <1>2, <1>3 DEF Stack
<1>5. Stack \in Seq(Seq(Value)) /\ Len(Stack) = Len(objects)
  BY <1>2, <1>4
<1>6. \A i \in 1..Len(objects) : Stack[i] = ContentsOf(objects[i].at, objects[i].size)
  BY <1>2 DEF Stack
<1> QED
  BY <1>1, <1>2, <1>5, <1>6

\* An object as long as nothing is none.
LEMMA NothingGrows ==
  ASSUME next_free' = object_base', object_base' \in Nat
  PROVE  Growing' = <<>>
<1>1. object_size' = 0
  <2>1. object_size' = object_base' - object_base'
    BY Zenon DEF object_size
  <2>2. \A n \in Nat : n - n = 0
    OBVIOUS
  <2> QED
    BY Zenon, <2>1, <2>2
<1> QED
  BY <1>1 DEF Growing, ContentsOf

LEMMA FinishRefines ==
  ASSUME IInv, IInv', Finish
  PROVE  Promised!Finish
<1> DEFINE new == [at |-> object_base, size |-> object_size, depth |-> Len(chain)]
           n == Len(objects)
<1>1. /\ chain # <<>> /\ chain' # <<>> /\ memory' = memory
      /\ objects' = Append(objects, new)
      /\ next_free' = object_base' /\ object_base' \in Nat
  BY DEF Finish, IInv, States, TypeOK
<1>2. /\ objects \in Seq(ObjectSet) /\ n \in Nat
      /\ Stack \in Seq(Seq(Value)) /\ Len(Stack) = n
      /\ \A i \in 1..n : Stack[i] = ContentsOf(objects[i].at, objects[i].size)
  BY StackIsSeq
<1>3. Growing \in Seq(Value) /\ Growing = ContentsOf(object_base, object_size)
  BY <1>1, GrowingIsSeq DEF Growing
<1>4. /\ new.at = object_base /\ new.size = object_size
      /\ \A i \in 1..n : objects'[i] = objects[i]
      /\ objects'[n + 1] = new /\ DOMAIN objects' = 1..(n + 1)
  <2>1. objects' \in Seq(ObjectSet)
    BY DEF IInv, TypeOK, ObjectSet
  <2>2. n + 1 \in DOMAIN objects'
    BY <1>1, <1>2
  <2>3. Len(objects') = n + 1
    BY <1>1, <1>2
  <2> QED
    BY <1>1, <1>2, <2>1, <2>3
<1> HIDE DEF new, n
<1>5. Stack' = [i \in 1..(n + 1) |->
                  [k \in 1..objects'[i].size |-> memory[objects'[i].at + k - 1]]]
  BY <1>1, <1>4 DEF Stack, ContentsOf
<1>6. /\ \A i \in 1..n : Stack'[i] = Stack[i]
      /\ Stack'[n + 1] = Growing
  <2>1. ASSUME NEW i \in 1..n
        PROVE  Stack'[i] = Stack[i]
    <3>1. i \in 1..(n + 1) /\ objects'[i] = objects[i]
      BY <1>2, <1>4
    <3>2. Stack'[i] = [k \in 1..objects[i].size |-> memory[objects[i].at + k - 1]]
      BY <1>5, <3>1
    <3> QED
      BY <1>2, <3>2 DEF ContentsOf
  <2>2. Stack'[n + 1] = Growing
    <3>1. n + 1 \in 1..(n + 1)
      BY <1>2
    <3>2. objects'[n + 1].size = object_size /\ objects'[n + 1].at = object_base
      BY <1>4
    <3>3. Stack'[n + 1] = [k \in 1..object_size |-> memory[object_base + k - 1]]
      BY <1>5, <3>1, <3>2
    <3> QED
      BY <1>3, <3>3 DEF ContentsOf
  <2> QED
    BY <2>1, <2>2
<1>7. Stack' \in [1..(n + 1) -> Seq(Value)]
  <2>1. \A i \in 1..n : Stack[i] \in Seq(Value)
    BY <1>2
  <2>2. \A i \in 1..(n + 1) : Stack'[i] \in Seq(Value)
    <3> SUFFICES ASSUME NEW i \in 1..(n + 1)
                 PROVE  Stack'[i] \in Seq(Value)
      OBVIOUS
    <3>1. i \in 1..n \/ i = n + 1
      BY <1>2
    <3> QED
      BY <1>3, <1>6, <2>1, <3>1
  <2> QED
    BY <1>5, <2>2
<1>8. Stack' = Append(Stack, Growing)
  <2>1. Stack' \in Seq(Seq(Value)) /\ Len(Stack') = n + 1
    BY <1>2, <1>7
  <2>2. /\ Append(Stack, Growing) \in Seq(Seq(Value)) /\ Len(Append(Stack, Growing)) = n + 1
        /\ \A i \in 1..n : Append(Stack, Growing)[i] = Stack[i]
        /\ Append(Stack, Growing)[n + 1] = Growing
    BY <1>2, <1>3, AppendProperties
  <2> QED
    BY <1>2, <1>6, <2>1, <2>2, SeqEqual
<1>9. Growing' = <<>>
  BY <1>1, NothingGrows
<1> QED
  BY <1>1, <1>8, <1>9 DEF Promised!Finish, Stack, Growing

LEMMA FreeRefines ==
  ASSUME IInv, IInv', NEW i \in DOMAIN objects, Free(i)
  PROVE  Promised!Free
<1> DEFINE p == objects[i].at
           d == objects[i].depth
           n == Len(objects)
<1>1. FreeDownTo(d, p) /\ objects' = SubSeq(objects, 1, i - 1)
  BY FreeIsDownTo
<1>2. /\ chain # <<>> /\ d \in DOMAIN chain /\ chain[d].at < p /\ p <= chain[d].limit
  BY FoundThere
<1>3. /\ p \in Nat /\ chain[d].at \in Nat /\ chain[d].limit \in Nat
      /\ DOMAIN chain = 1..Len(chain) /\ Len(chain) \in Nat
  BY <1>2, TypeFacts DEF IInv
<1>4. /\ objects \in Seq(ObjectSet) /\ n \in Nat /\ DOMAIN objects = 1..n
      /\ Stack \in Seq(Seq(Value)) /\ Len(Stack) = n
      /\ \A j \in 1..n : Stack[j] = ContentsOf(objects[j].at, objects[j].size)
  BY StackIsSeq
<1>5. i \in 1..n /\ i - 1 \in Nat /\ i - 1 <= n
  BY <1>4
<1> DEFINE gone == {chain[j] : j \in (d + 1)..Len(chain)}
<1>6. /\ memory' = Scribbled(memory, Span(gone) \cup Between(p, chain[d].limit))
      /\ next_free' = object_base' /\ object_base' \in Nat
      /\ chain' # <<>>
  BY <1>1 DEF FreeDownTo, Free, IInv, States, TypeOK
<1>7. /\ DOMAIN objects' = 1..(i - 1)
      /\ \A j \in 1..(i - 1) : j \in 1..n /\ objects'[j] = objects[j]
  BY <1>1, <1>4, <1>5, Cut
<1>8. ASSUME NEW j \in 1..(i - 1), NEW k \in 1..objects[j].size
      PROVE  memory'[objects[j].at + k - 1] = memory[objects[j].at + k - 1]
  <2> DEFINE a == objects[j].at + k - 1
             e == objects[j].depth
  <2>1. j \in DOMAIN objects /\ j < i
    BY <1>4, <1>5, <1>7
  <2>2. /\ a \in Nat /\ a \in Addresses
        /\ a < objects[j].at + objects[j].size
        /\ \A m \in DOMAIN chain : m # e => a < chain[m].at \/ chain[m].limit <= a
    BY <2>1, ObjectAddresses
  <2>3. /\ e <= d /\ (e = d => objects[j].at + objects[j].size <= p)
        /\ e \in Nat /\ d \in Nat
    BY <1>2, <2>1, TypeFacts DEF IInv, Stacked
  <2>4. objects[j].at \in Nat /\ objects[j].size \in Nat
    BY <1>2, <2>1, TypeFacts DEF IInv
  <2> HIDE DEF a, e, p, d, gone
  <2>5. ASSUME NEW m \in (d + 1)..Len(chain)
        PROVE  a \notin Between(chain[m].at, chain[m].limit)
    <3>1. m \in DOMAIN chain /\ m # e
      BY <1>2, <1>3, <2>3
    <3>2. chain[m].at \in Nat /\ chain[m].limit \in Nat
      BY <1>2, <3>1, TypeFacts DEF IInv
    <3> QED
      BY <2>2, <3>1, <3>2 DEF Between
  <2>6. a \notin Span(gone)
    BY <2>5 DEF Span, gone
  <2>7. a < p \/ chain[d].limit <= a
    <3>1. CASE e = d
      BY <1>3, <2>2, <2>3, <2>4, <3>1
    <3>2. CASE e # d
      BY <1>2, <1>3, <2>2, <3>2
    <3> QED
      BY <3>1, <3>2
  <2>8. a \notin Between(p, chain[d].limit)
    BY <1>3, <2>2, <2>7 DEF Between
  <2>9. memory'[a] = memory[a]
    BY <1>6, <2>2, <2>6, <2>8 DEF Scribbled
  <2> QED
    BY <2>9 DEF a
<1> HIDE DEF p, d, n, gone
<1>9. Stack' = [j \in 1..(i - 1) |->
                  [k \in 1..objects'[j].size |-> memory'[objects'[j].at + k - 1]]]
  BY <1>7 DEF Stack, ContentsOf
<1>10. ASSUME NEW j \in 1..(i - 1)
       PROVE  Stack'[j] = Stack[j]
  <2>1. Stack'[j] = [k \in 1..objects[j].size |-> memory'[objects[j].at + k - 1]]
    BY <1>7, <1>9
  <2>2. Stack'[j] = [k \in 1..objects[j].size |-> memory[objects[j].at + k - 1]]
    BY <1>8, <2>1
  <2> QED
    BY <1>4, <1>7, <2>2 DEF ContentsOf
<1>11. /\ SubSeq(Stack, 1, i - 1) \in Seq(Seq(Value))
       /\ Len(SubSeq(Stack, 1, i - 1)) = i - 1
       /\ \A j \in 1..(i - 1) : j \in DOMAIN Stack /\ SubSeq(Stack, 1, i - 1)[j] = Stack[j]
  <2>1. i - 1 <= Len(Stack) /\ i - 1 \in Nat /\ Stack \in Seq(Seq(Value))
    BY <1>4, <1>5
  <2> QED
    BY <2>1, Cut
<1>12. Stack' \in Seq(Seq(Value)) /\ Len(Stack') = i - 1
  <2>1. \A j \in 1..(i - 1) : Stack[j] \in Seq(Value)
    BY <1>4, <1>11
  <2>2. Stack' \in [1..(i - 1) -> Seq(Value)]
    BY <1>9, <1>10, <2>1
  <2> QED
    BY <1>5, <2>2
<1>13. Stack' = SubSeq(Stack, 1, i - 1)
  BY <1>5, <1>10, <1>11, <1>12, SeqEqual
<1>14. Growing' = <<>>
  BY <1>6, NothingGrows
<1>15. i \in DOMAIN Stack
  BY <1>4, <1>5
<1> QED
  BY <1>2, <1>6, <1>13, <1>14, <1>15 DEF Promised!Free, Stack, Growing

LEMMA BeginRefines ==
  ASSUME IInv, IInv', Begin
  PROVE  Promised!Begin
<1>1. chain = <<>> /\ chain' # <<>> /\ objects' = <<>>
  BY DEF Begin, IInv, States
<1>2. next_free' = object_base' /\ object_base' \in Nat
  BY DEF Begin, IInv, TypeOK
<1>3. Growing' = <<>>
  BY <1>2, NothingGrows
<1>4. Stack' = <<>>
  BY <1>1 DEF Stack
<1> QED
  BY <1>1, <1>3, <1>4 DEF Promised!Begin, Stack, Growing

LEMMA FreeAllRefines ==
  ASSUME IInv, IInv', FreeAll
  PROVE  Promised!FreeAll
<1>1. chain # <<>> /\ chain' = <<>> /\ objects' = <<>>
  BY DEF FreeAll, IInv, States
<1>2. next_free' = object_base' /\ object_base' \in Nat
  BY DEF FreeAll
<1>3. Growing' = <<>>
  BY <1>2, NothingGrows
<1>4. Stack' = <<>>
  BY <1>1 DEF Stack
<1> QED
  BY <1>1, <1>3, <1>4 DEF Promised!FreeAll, Stack, Growing

LEMMA StutterRefines ==
  ASSUME UNCHANGED <<obstack, memory, objects>>
  PROVE  UNCHANGED Promised!vars
BY DEF obstack, Promised!vars, ContentsOf, object_size

LEMMA StepRefines == IInv /\ IInv' /\ [Next]_vars => [Promised!Next]_(Promised!vars)
<1> SUFFICES ASSUME IInv, IInv', [Next]_vars
             PROVE  Promised!Next \/ UNCHANGED Promised!vars
  OBVIOUS
<1>0. ASSUME NEW length \in Lengths
      PROVE  length \in 0..SizeMax /\ length \in Nat /\ Len(<<>>) <= length
  BY SizeAssumption, AddressAssumption
<1>1. CASE Begin
  BY <1>1, BeginRefines DEF Promised!Next
<1>2. CASE CannotBegin
  BY <1>2, StutterRefines DEF CannotBegin, Fail
<1>3. ASSUME NEW length \in Lengths, Blank(length)
      PROVE  Promised!Next
  <2>1. <<>> \in Seq(Value)
    OBVIOUS
  <2>2. Promised!Grow
    BY <1>0, <1>3, <2>1, GrowRefines DEF Blank
  <2> QED
    BY <2>2 DEF Promised!Next
<1>4. ASSUME NEW length \in Lengths, MakeRoom(length)
      PROVE  Promised!Next
  BY <1>0, <1>4, MakeRoomRefines DEF Promised!Next
<1>5. ASSUME NEW length \in Lengths, CannotGrow(length)
      PROVE  UNCHANGED Promised!vars
  BY <1>5, StutterRefines DEF CannotGrow, Fail
<1>6. ASSUME NEW length \in Lengths, NEW byte \in Byte, Grow(length, byte)
      PROVE  Promised!Next
  <2>1. Len([i \in 1..length |-> byte]) <= length
    BY <1>0
  <2>2. Promised!Grow
    BY <1>0, <1>6, <2>1, BytesAreValues, GrowRefines DEF Grow
  <2> QED
    BY <2>2 DEF Promised!Next
<1>7. ASSUME NEW length \in Lengths, NEW byte \in Byte, Printf(length, byte)
      PROVE  Promised!Next
  <2>1. Len([i \in 1..length |-> IF i <= Buffer THEN byte ELSE Junk]) <= length
    BY <1>0
  <2>2. Promised!Grow
    BY <1>0, <1>7, <2>1, BytesAreValues, GrowRefines DEF Printf
  <2> QED
    BY <2>2 DEF Promised!Next
<1>8. CASE Finish
  BY <1>8, FinishRefines DEF Promised!Next
<1>9. ASSUME NEW i \in DOMAIN objects, Free(i)
      PROVE  Promised!Next
  BY <1>9, FreeRefines DEF Promised!Next
<1>10. CASE FreeAll
  BY <1>10, FreeAllRefines DEF Promised!Next
<1>11. CASE UNCHANGED vars
  BY <1>11, StutterRefines DEF vars
<1> QED
  BY <1>1, <1>2, <1>3, <1>4, <1>5, <1>6, <1>7, <1>8, <1>9, <1>10, <1>11 DEF Next

LEMMA InitRefines == Init => Promised!Init
BY DEF Init, Promised!Init, object_size, ContentsOf

\* An obstack is the stack of objects os/obstack.h promises: whatever is
\* grown, finished or freed, and wherever chunks lie, an object keeps its
\* contents until it is freed (os/obstack.c, the whole of it).
THEOREM ObstackIsStack == Spec => StackOfObjects
<1>1. IInv /\ IInv' /\ [Next]_vars => [Promised!Next]_(Promised!vars)
  BY StepRefines
<1> QED
  BY <1>1, InitRefines, Inductive, PTL DEF Spec, StackOfObjects, Promised!Spec
=============================================================================
