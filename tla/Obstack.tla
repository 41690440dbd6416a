------------------------------ MODULE Obstack ------------------------------
(***************************************************************************)
(* os/obstack.c with the macros of os/obstack.h: a chain of chunks got     *)
(* from malloc(), in the last of which one object grows.  An object that   *)
(* outgrows its chunk moves to a new one; a chunk whose only content has   *)
(* moved away, or that lies above a freed object, is given back.           *)
(*                                                                         *)
(* Addresses are numbers, and sizes wrap as a size_t does.                 *)
(***************************************************************************)
EXTENDS Integers, Sequences, FiniteSets

CONSTANTS
  Low, High,    \* bound: the addresses malloc() has, Low..(High - 1)
  SizeMax,      \* the greatest size_t
  Alignment,    \* DEFAULT_ALIGNMENT, malloc's too
  Header,       \* offsetof (struct _obstack_chunk, contents)
  ChunkSize,    \* the default size of a chunk, of 4096 bytes
  Extra,        \* the 100 bytes a new chunk is larger by
  Buffer,       \* the 1024 bytes of obstack_printf()
  Lengths,      \* bound: by how much an object is asked to grow at once
  MaxObjects,   \* bound: finished objects
  Byte,         \* what a client may write
  Junk          \* what it has not written

ASSUME AddressAssumption ==
  /\ Low \in Nat /\ High \in Nat /\ SizeMax \in Nat
  /\ 0 < Low /\ Low < High
  /\ Alignment \in Nat \ {0} /\ Header \in Nat \ {0}

\* The 100 bytes are room for the header too, and there is less memory than a
\* size_t can count.
ASSUME SizeAssumption ==
  /\ ChunkSize \in Nat /\ Extra \in Nat /\ Buffer \in Nat
  /\ Header + Alignment <= ChunkSize
  /\ Header <= Extra
  /\ High + High \div 8 + Extra + Alignment <= SizeMax
  /\ Lengths \subseteq 0..SizeMax
  /\ MaxObjects \in Nat
  /\ Junk \notin Byte

VARIABLES
  chain,        \* the chunks linked by prev, oldest first: h->chunk is the last
  object_base,
  next_free,
  maybe_empty_object,
  blocks,       \* what malloc() has given and free() has not got back
  memory,       \* what each address holds
  objects,      \* history: the finished objects the client may still use, and
                \* how many chunks there were when each was
  state         \* "unused", "used", "failed" or "aborted"

obstack == <<chain, object_base, next_free, maybe_empty_object>>
vars == <<obstack, blocks, memory, objects, state>>

Addresses == Low..(High - 1)
Value == Byte \cup {Junk}

\* struct _obstack_chunk: where it is, and its limit.
Chunk(at, size) == [at |-> at, limit |-> at + size]

\* __PTR_ALIGN
Align(p) == p + (Alignment - 1) - ((p + (Alignment - 1)) % Alignment)

\* Where the first object of a chunk is.
Contents(chunk) == Align(chunk.at + Header)

chunk == chain[Len(chain)]

object_size == next_free - object_base
room == chunk.limit - next_free

\* A sum of two sizes.
Wrap(n) == IF n > SizeMax THEN n - (SizeMax + 1) ELSE n

Apart(c, d) == c.limit <= d.at \/ d.limit <= c.at

\* malloc(): somewhere, aligned, if there is room.
Malloc(size) ==
  {c \in {Chunk(at, size) : at \in {a \in Addresses : a % Alignment = 0}} :
     c.limit <= High /\ \A b \in blocks : Apart(b, c)}

\* The addresses from one up to another, and those of some chunks.
Between(from, to) == {a \in Addresses : from <= a /\ a < to}
Span(chunks) == UNION {Between(c.at, c.limit) : c \in chunks}

\* What nobody has written yet, or nobody may read any more, is junk.
Scribbled(held, given) == [a \in Addresses |-> IF a \in given THEN Junk ELSE held[a]]

Init ==
  /\ chain = <<>>
  /\ object_base = 0 /\ next_free = 0
  /\ maybe_empty_object = FALSE
  /\ blocks = {}
  /\ memory = [a \in Addresses |-> Junk]
  /\ objects = <<>>
  /\ state = "unused"

-----------------------------------------------------------------------------
(* Beginning, and a new chunk *)

\* _obstack_begin_worker()
Begin ==
  /\ state = "unused"
  /\ \E c \in Malloc(ChunkSize) :
       /\ chain' = <<c>>
       /\ object_base' = Contents(c) /\ next_free' = Contents(c)
       /\ blocks' = blocks \cup {c}
       /\ memory' = Scribbled(memory, Span({c}))
  /\ maybe_empty_object' = FALSE
  /\ objects' = <<>>
  /\ state' = "used"

\* obstack_alloc_failed_handler does not return.
Fail ==
  /\ state' = "failed"
  /\ UNCHANGED <<obstack, blocks, memory, objects>>

CannotBegin == state = "unused" /\ Fail

\* The size asked of malloc(), and whether it is asked at all.
Sum1(length) == Wrap(object_size + length)
Sum2(length) == Wrap(Sum1(length) + (Alignment - 1))

Larger(m, n) == IF m < n THEN n ELSE m

NewSize(length) ==
  Larger(Larger(Wrap(Wrap(Sum2(length) + object_size \div 8) + Extra), Sum2(length)),
         ChunkSize)

Fits_Unchecked(length) == TRUE

Fits(length) == object_size <= Sum1(length) /\ Sum1(length) <= Sum2(length)

\* Is the object that grows all there is in its chunk?
Alone_OrEmpty == object_base = Contents(chunk)

Alone == ~maybe_empty_object /\ object_base = Contents(chunk)

\* What the old chunk and the new one hold once the object has moved.
Copied_Never(c) == Scribbled(memory, Span({c}) \cup Between(object_base, chunk.limit))

Copied(c) ==
  [a \in Addresses |->
     IF a \in Between(Contents(c), Contents(c) + object_size)
     THEN memory[object_base + (a - Contents(c))]
     ELSE Scribbled(memory, Span({c}) \cup Between(object_base, chunk.limit))[a]]

\* What a client writes behind the object.
Written(held, at, bytes) ==
  [a \in Addresses |->
     IF a \in Between(at, at + Len(bytes)) THEN bytes[a - at + 1] ELSE held[a]]

NewChunk_StillLinked(c, n, bytes) ==
  /\ chain' = Append(chain, c)
  /\ blocks' = (blocks \cup {c}) \ (IF Alone THEN {chunk} ELSE {})
  /\ object_base' = Contents(c)
  /\ next_free' = Contents(c) + object_size + n
  /\ maybe_empty_object' = FALSE
  /\ memory' = Written(Copied(c), Contents(c) + object_size, bytes)

\* _obstack_newchunk(): the object goes on in c, where n bytes are then added
\* to it.
NewChunk(c, n, bytes) ==
  /\ chain' = Append(IF Alone THEN SubSeq(chain, 1, Len(chain) - 1) ELSE chain, c)
  /\ blocks' = (blocks \cup {c}) \ (IF Alone THEN {chunk} ELSE {})
  /\ object_base' = Contents(c)
  /\ next_free' = Contents(c) + object_size + n
  /\ maybe_empty_object' = FALSE
  /\ memory' = Written(Copied(c), Contents(c) + object_size, bytes)

-----------------------------------------------------------------------------
(* The object that grows *)

\* The macros that grow it by length first make room for it.
GrowBy(length, bytes) ==
  /\ state = "used"
  /\ \/ /\ room >= length
        /\ next_free' = next_free + length
        /\ memory' = Written(memory, next_free, bytes)
        /\ UNCHANGED <<chain, object_base, maybe_empty_object, blocks>>
     \/ /\ room < length
        /\ Fits(length)
        /\ \E c \in Malloc(NewSize(length)) : NewChunk(c, length, bytes)
  /\ UNCHANGED <<objects, state>>

\* malloc() may fail, and a size that wraps is not asked for.
CannotGrow(length) ==
  /\ state = "used"
  /\ room < length
  /\ Fail

\* obstack_blank(): what its client has not written yet is what was there.
Blank(length) == GrowBy(length, <<>>)

\* obstack_grow(), obstack_1grow() and their like.
Grow(length, byte) == GrowBy(length, [i \in 1..length |-> byte])

\* obstack_printf(): what is longer than buf comes from behind it; a length
\* of -1 is the greatest size_t.
Printf(length, byte) ==
  GrowBy(length, [i \in 1..length |-> IF i <= Buffer THEN byte ELSE Junk])

\* obstack_make_room()
MakeRoom(length) ==
  /\ state = "used"
  /\ room < length
  /\ Fits(length)
  /\ \E c \in Malloc(NewSize(length)) : NewChunk(c, 0, <<>>)
  /\ UNCHANGED <<objects, state>>

\* obstack_finish()
Finished_Unaligned == next_free

Finished == IF Align(next_free) > chunk.limit THEN chunk.limit ELSE Align(next_free)

Finish ==
  /\ state = "used"
  /\ Len(objects) < MaxObjects
  /\ objects' = Append(objects, [at |-> object_base, size |-> object_size,
                               depth |-> Len(chain)])
  /\ maybe_empty_object' = (maybe_empty_object \/ object_size = 0)
  /\ next_free' = Finished
  /\ object_base' = Finished
  /\ UNCHANGED <<chain, blocks, memory, state>>

-----------------------------------------------------------------------------
(* Freeing *)

\* The loop of _obstack_allocated_p(), and that of _obstack_free(): the chunks
\* passed over do not hold the object.
Above(c, object) == c.at >= object \/ c.limit < object

Found(object) == {i \in DOMAIN chain : ~Above(chain[i], object)}

AllocatedP(object) == Found(object) # {}

\* _obstack_free() of an object in the chain
FreeDownTo(i, object) ==
  LET gone == {chain[j] : j \in (i + 1)..Len(chain)} IN
  /\ chain' = SubSeq(chain, 1, i)
  /\ blocks' = blocks \ gone
  /\ memory' = Scribbled(memory, Span(gone) \cup Between(object, chain[i].limit))
  /\ object_base' = object /\ next_free' = object
  /\ maybe_empty_object' = (maybe_empty_object \/ i < Len(chain))
  /\ UNCHANGED state

Gone ==
  /\ blocks' = blocks \ {chain[j] : j \in DOMAIN chain}
  /\ memory' = Scribbled(memory, Span({chain[j] : j \in DOMAIN chain}))

\* ... of what is not: abort() once all chunks are freed
FreeNowhere ==
  /\ Gone
  /\ state' = "aborted"
  /\ UNCHANGED obstack

\* obstack_free(): straight away in the last chunk, through the chain if not.
Free(i) ==
  /\ state = "used"
  /\ i \in DOMAIN objects
  /\ LET object == objects[i].at
         inLast == object > chunk.at /\ object < chunk.limit
     IN  IF inLast THEN FreeDownTo(Len(chain), object)
         ELSE IF Found(object) = {} THEN FreeNowhere
         ELSE \E j \in Found(object) : (\A k \in Found(object) : k <= j) /\ FreeDownTo(j, object)
  /\ objects' = SubSeq(objects, 1, i - 1)

\* obstack_free() of NULL: the obstack must begin again, whatever is left in it.
FreeAll ==
  /\ state = "used"
  /\ Gone
  /\ chain' = <<>>
  /\ object_base' = 0 /\ next_free' = 0
  /\ maybe_empty_object' = FALSE
  /\ objects' = <<>>
  /\ state' = "unused"

-----------------------------------------------------------------------------

Next ==
  \/ Begin \/ CannotBegin
  \/ \E length \in Lengths :
       \/ Blank(length) \/ MakeRoom(length) \/ CannotGrow(length)
       \/ \E byte \in Byte : Grow(length, byte) \/ Printf(length, byte)
  \/ Finish
  \/ \E i \in DOMAIN objects : Free(i)
  \/ FreeAll

Spec == Init /\ [][Next]_vars

-----------------------------------------------------------------------------
(* Properties *)

\* The type invariant: among others, the object that grows lies in the last
\* chunk, behind its header, however long it was asked to become.
TypeOK ==
  /\ chain \in Seq([at : Addresses, limit : Low..High])
  /\ object_base \in Nat /\ next_free \in Nat
  /\ maybe_empty_object \in BOOLEAN
  /\ memory \in [Addresses -> Value]
  /\ objects \in Seq([at : Addresses \cup {High}, size : Nat, depth : Nat])
  /\ state \in {"unused", "used", "failed", "aborted"}
  /\ state = "used" =>
       /\ chain # <<>>
       /\ Contents(chunk) <= object_base
       /\ object_base <= next_free
       /\ next_free <= chunk.limit

\* What malloc() gave is in the chain until free() gets it back, and no longer:
\* nothing leaks, and nothing is used after it was freed.
ChainIsLive ==
  state \in {"unused", "used"} => blocks = {chain[i] : i \in DOMAIN chain}

\* A finished object, an empty one too, stays inside one chunk of the chain and
\* apart from the others, so that obstack_free() finds it and never aborts.
ObjectsLive ==
  /\ state # "aborted"
  /\ \A i \in DOMAIN objects :
       LET o == objects[i] IN
       /\ \E c \in blocks : Contents(c) <= o.at /\ o.at + o.size <= c.limit
       /\ AllocatedP(o.at)
       /\ \A j \in 1..(i - 1) :
            LET p == objects[j] IN o.at + o.size <= p.at \/ p.at + p.size <= o.at

\* Though obstack_finish() may leave next_free at an odd limit, every object
\* that has a byte begins aligned, and so does the one that grows.
Aligned ==
  /\ \A i \in DOMAIN objects : objects[i].size > 0 => objects[i].at % Alignment = 0
  /\ next_free > object_base => object_base % Alignment = 0

ContentsOf(at, size) == [i \in 1..size |-> memory[at + i - 1]]

Promised == INSTANCE ObjectStack WITH
  stack <- [i \in DOMAIN objects |-> ContentsOf(objects[i].at, objects[i].size)],
  growing <- ContentsOf(object_base, object_size),
  usable <- chain # <<>>

\* os/obstack.h: "Once carved, an object never moves"; whatever is allocated, grown
\* or freed after it, it keeps its contents until it is freed itself, and the
\* object that grows keeps its own wherever it moves.
StackOfObjects == Promised!Spec
=============================================================================
