--------------------------- MODULE ReadFileProofs ---------------------------
(***************************************************************************)
(* read_file() keeps inside its object, and returns the file's bytes, for  *)
(* every chunk size, every length of the file and every way read() cuts it *)
(* up, while the file changes.                                             *)
(***************************************************************************)
EXTENDS ReadFile, TLAPS

\* Where the loop stands: a chunk is added before each read(), so len never
\* gets past the object, and the last read() found the chunk unused.
Loop ==
  /\ pc = "blank" => len <= size
  /\ pc = "read" => /\ start.place = place
                    /\ start.offset = len
                    /\ len + Chunk <= size
  /\ pc = "nul" => len + Chunk <= size

\* What is on the obstack and which descriptors are open.
Holds ==
  /\ pc = "path" => fds = 0 /\ pool = Below
  /\ pc = "open" => fds = 0 /\ pool = Below + 1 /\ pos = 0
  /\ pc \in {"blank", "read", "nul"} => fds = 1 /\ pool = Below
  /\ pc = "path" => pos = 0
  /\ text => pc = "done"

TypeInv == TypeOK /\ Loop /\ Holds

IInv == TypeInv /\ ReadsInOrder /\ TextIsFile /\ LeavesOnlyText

LEMMA Init_IInv == Init => IInv
<1> SUFFICES ASSUME Init
             PROVE  IInv
  OBVIOUS
<1>1. 0..(size - 1) = {}
  BY DEF Init
<1>2. bytes \in [0..(size - 1) -> Int]
  BY <1>1 DEF Init
<1>3. length \in 0..MaxLength /\ start \in [place : Nat, offset : Nat]
  BY DEF Init
<1>4. text \in BOOLEAN
  BY DEF Init
<1>5. TypeOK
  BY <1>2, <1>3, <1>4, ReadFileAssumption DEF Init, TypeOK
<1> QED
  BY <1>5 DEF Init, IInv, TypeInv, Loop, Holds, ReadsInOrder, TextIsFile, LeavesOnlyText

LEMMA StoreBytes ==
  ASSUME TypeInv, pc = "read", ReadsInOrder,
         NEW n \in 0..Chunk, Store(n)
  PROVE  /\ bytes' \in [0..(size - 1) -> Int]
         /\ \A i \in 0..(len + n - 1) : bytes'[i] = i
<1>1. /\ len \in Nat /\ size \in Nat /\ pos = len /\ Chunk \in Nat
      /\ len + Chunk <= size
      /\ bytes \in [0..(size - 1) -> Int]
      /\ \A i \in 0..(len - 1) : bytes[i] = i
  BY ReadFileAssumption DEF TypeInv, TypeOK, Loop, ReadsInOrder
<1>2. bytes' = [i \in 0..(size - 1) |->
                 IF i \in len..(len + n - 1) THEN pos + (i - len) ELSE bytes[i]]
  BY <1>1 DEF Store, TypeInv, TypeOK, Loop
<1>3. bytes' \in [0..(size - 1) -> Int]
  BY <1>1, <1>2
<1>4. ASSUME NEW i \in 0..(len + n - 1)
      PROVE  bytes'[i] = i
  <2>1. i \in 0..(size - 1)
    BY <1>1
  <2>2. CASE i \in 0..(len - 1)
    BY <1>1, <1>2, <2>1, <2>2
  <2>3. CASE i \notin 0..(len - 1)
    BY <1>1, <1>2, <2>1, <2>3
  <2> QED
    BY <2>2, <2>3
<1> QED
  BY <1>3, <1>4

LEMMA RoomBytes ==
  ASSUME TypeOK, Room
  PROVE  /\ size' = size + Chunk /\ size' \in Nat /\ place' \in Nat
         /\ bytes' \in [0..(size' - 1) -> Int]
         /\ \A i \in 0..(size - 1) : bytes'[i] = bytes[i]
<1>1. size \in Nat /\ Chunk \in Nat /\ bytes \in [0..(size - 1) -> Int] /\ place \in Nat
  BY ReadFileAssumption DEF TypeOK
<1>2. bytes' = [i \in 0..(size + Chunk - 1) |-> IF i < size THEN bytes[i] ELSE Garbage]
      /\ size' = size + Chunk
  BY DEF Room
<1>3. \A i \in 0..(size + Chunk - 1) : (IF i < size THEN bytes[i] ELSE Garbage) \in Int
  BY <1>1 DEF Garbage
<1> QED
  BY <1>1, <1>2, <1>3 DEF Room

LEMMA Step_IInv == IInv /\ [Next]_vars => IInv'
<1> SUFFICES ASSUME IInv, [Next]_vars
             PROVE  IInv'
  OBVIOUS
<1>0. TypeOK /\ TypeInv /\ ReadsInOrder
  BY DEF IInv, TypeInv
<1>1. CASE PathPush
  BY <1>1, ReadFileAssumption
  DEF PathPush, file, object, IInv, TypeInv, TypeOK, Loop, Holds, ReadsInOrder,
      TextIsFile, LeavesOnlyText
<1>2. CASE Open
  <2>1. /\ pc = "open" /\ pc' \in {"blank", "done"} /\ pool' = pool - 1
        /\ pc' = "blank" => fds' = fds + 1 /\ len' = 0 /\ text' = text
        /\ pc' = "done" => fds' = fds /\ len' = len /\ text' = FALSE
        /\ UNCHANGED <<length, pos, place, size, bytes, start>>
    BY <1>2 DEF Open, object
  <2>2. /\ fds = 0 /\ pool = Below + 1 /\ pos = 0 /\ text = FALSE
        /\ len \in Nat /\ size \in Nat /\ Below \in Nat
    BY <1>0, <2>1, ReadFileAssumption DEF TypeInv, TypeOK, Holds
  <2>3. TypeOK'
    <3>1. text' \in BOOLEAN
      BY <1>0, <2>1 DEF TypeOK
    <3>2. pool' \in Nat /\ len' \in Nat /\ fds' \in 0..1
      BY <2>1, <2>2
    <3> QED
      BY <1>0, <2>1, <3>1, <3>2 DEF TypeOK
  <2>4. Loop' /\ Holds' /\ LeavesOnlyText'
    BY <2>1, <2>2 DEF Loop, Holds, LeavesOnlyText
  <2>5. ReadsInOrder' /\ TextIsFile'
    BY <2>1, <2>2 DEF ReadsInOrder, TextIsFile
  <2> QED
    BY <2>3, <2>4, <2>5 DEF IInv, TypeInv
<1>3. CASE Blank
  <2>1. /\ size' = size + Chunk /\ size' \in Nat /\ place' \in Nat
        /\ bytes' \in [0..(size' - 1) -> Int]
        /\ \A i \in 0..(size - 1) : bytes'[i] = bytes[i]
    BY <1>0, <1>3, RoomBytes DEF Blank
  <2>2. /\ pc = "blank" /\ pc' = "read"
        /\ start' = [place |-> place', offset |-> len]
        /\ UNCHANGED <<length, pos, fds, pool, len, text>>
    BY <1>3 DEF Blank, file
  <2>3. TypeOK'
    BY <1>0, <2>1, <2>2 DEF TypeOK
  <2>4. Loop' /\ Holds'
    BY <1>0, <2>1, <2>2, ReadFileAssumption DEF TypeInv, TypeOK, Loop, Holds
  <2>5. ReadsInOrder'
    <3>1. len <= size /\ len \in Nat /\ size \in Nat
      BY <1>0, <2>2 DEF TypeInv, TypeOK, Loop
    <3>2. \A i \in 0..(len - 1) : bytes[i] = i
      BY <1>0, <2>2 DEF ReadsInOrder
    <3>3. \A i \in 0..(len - 1) : bytes'[i] = i
      BY <2>1, <3>1, <3>2
    <3> QED
      BY <1>0, <2>2, <3>3 DEF ReadsInOrder
  <2>6. TextIsFile' /\ LeavesOnlyText'
    BY <1>0, <2>2 DEF TypeInv, Holds, TextIsFile, LeavesOnlyText
  <2> QED
    BY <2>3, <2>4, <2>5, <2>6 DEF IInv, TypeInv
<1>4. CASE Read
  <2>1. PICK n \in 0..Chunk :
          /\ Store(n) /\ pos' = pos + n /\ len' = len + n
          /\ pc' = IF n = 0 THEN "nul" ELSE "blank"
    BY <1>4 DEF Read
  <2>2. /\ pc = "read"
        /\ UNCHANGED <<length, fds, pool, place, size, start, text>>
    BY <1>4 DEF Read
  <2>3. /\ bytes' \in [0..(size - 1) -> Int]
        /\ \A i \in 0..(len + n - 1) : bytes'[i] = i
    BY <1>0, <2>1, <2>2, StoreBytes
  <2>4. /\ len = pos /\ len \in Nat /\ n \in Nat /\ n <= Chunk
        /\ size \in Nat /\ Chunk \in Nat /\ len + Chunk <= size
    BY <1>0, <2>2, ReadFileAssumption DEF TypeInv, TypeOK, Loop, ReadsInOrder
  <2>5. TypeOK'
    BY <1>0, <2>1, <2>2, <2>3, <2>4 DEF TypeOK
  <2>6. Loop' /\ Holds'
    BY <1>0, <2>1, <2>2, <2>4 DEF TypeInv, Loop, Holds
  <2>7. ReadsInOrder'
    BY <2>1, <2>3, <2>4 DEF ReadsInOrder
  <2>8. TextIsFile' /\ LeavesOnlyText'
    BY <1>0, <2>1, <2>2 DEF TypeInv, Holds, TextIsFile, LeavesOnlyText
  <2> QED
    BY <2>5, <2>6, <2>7, <2>8 DEF IInv, TypeInv
<1>5. CASE ReadFails
  <2>1. /\ pc = "read" /\ pc' = "done" /\ fds' = fds - 1 /\ text' = FALSE
        /\ UNCHANGED <<length, pos, pool, place, size, bytes, start, len>>
    BY <1>5 DEF ReadFails, object
  <2>2. fds = 1 /\ pool = Below
    BY <1>0, <2>1 DEF TypeInv, Holds
  <2>3. TypeOK'
    <3>1. text' \in BOOLEAN
      BY <2>1
    <3>2. fds' \in 0..1
      BY <2>1, <2>2
    <3> QED
      BY <1>0, <2>1, <3>1, <3>2 DEF TypeOK
  <2> QED
    BY <2>1, <2>2, <2>3
    DEF IInv, TypeInv, Loop, Holds, ReadsInOrder, TextIsFile, LeavesOnlyText
<1>6. CASE Terminate
  <2>1. /\ pc = "nul" /\ pc' = "done" /\ pool' = pool + 1 /\ text' = TRUE
        /\ fds' = fds - 1 /\ bytes' = [bytes EXCEPT ![len] = Nul]
        /\ UNCHANGED <<length, pos, place, size, start, len>>
    BY <1>6 DEF Terminate
  <2>2. /\ len = pos /\ len \in Nat /\ size \in Nat /\ len < size
        /\ bytes \in [0..(size - 1) -> Int]
        /\ \A i \in 0..(len - 1) : bytes[i] = i
    BY <1>0, <2>1, ReadFileAssumption DEF TypeInv, TypeOK, Loop, ReadsInOrder
  <2>3. /\ bytes' \in [0..(size - 1) -> Int]
        /\ bytes'[len] = Nul
        /\ \A i \in 0..(len - 1) : bytes'[i] = i
    BY <2>1, <2>2 DEF Nul
  <2>4. TypeOK'
    BY <1>0, <2>1, <2>3 DEF TypeInv, TypeOK, Holds
  <2>5. Loop' /\ Holds' /\ ReadsInOrder'
    BY <2>1 DEF Loop, Holds, ReadsInOrder
  <2>6. TextIsFile'
    BY <2>1, <2>2, <2>3 DEF TextIsFile
  <2>7. LeavesOnlyText'
    BY <1>0, <2>1 DEF TypeInv, Holds, LeavesOnlyText
  <2> QED
    BY <2>4, <2>5, <2>6, <2>7 DEF IInv, TypeInv
<1>7. CASE Grow \/ Shrink
  <2>1. /\ length' \in 0..MaxLength
        /\ UNCHANGED <<pc, pos, fds, pool, object, start, len, text>>
    BY <1>0, <1>7, ReadFileAssumption DEF Grow, Shrink, TypeOK
  <2> QED
    BY <2>1 DEF object, IInv, TypeInv, TypeOK, Loop, Holds, ReadsInOrder,
                TextIsFile, LeavesOnlyText
<1>8. CASE UNCHANGED vars
  BY <1>8
  DEF vars, file, object, IInv, TypeInv, TypeOK, Loop, Holds, ReadsInOrder,
      TextIsFile, LeavesOnlyText
<1> QED
  BY <1>1, <1>2, <1>3, <1>4, <1>5, <1>6, <1>7, <1>8 DEF Next, ReadFile, Done

LEMMA Invariant == Spec => []IInv
BY Init_IInv, Step_IInv, PTL DEF Spec

\* The variables of read_file() keep their types, descriptors included.
THEOREM TypeCorrect == Spec => []TypeOK
<1>1. IInv => TypeOK
  BY DEF IInv, TypeInv
<1> QED
  BY <1>1, Invariant, PTL

\* Neither read() nor the final NUL is stored outside the growing object,
\* which may move whenever it grows.
THEOREM StoresInObject == Spec => []StaysInObject
<1>1. IInv => StaysInObject
  BY ReadFileAssumption DEF IInv, TypeInv, TypeOK, Loop, StaysInObject
<1> QED
  BY <1>1, Invariant, PTL

\* The text is the file from its first byte, without a hole, up to the NUL.
THEOREM ReturnsFile == Spec => [](ReadsInOrder /\ TextIsFile)
<1>1. IInv => ReadsInOrder /\ TextIsFile
  BY DEF IInv
<1> QED
  BY <1>1, Invariant, PTL

\* What LinuxTable takes read_file() for: one more object on the obstack, or
\* none.
THEOREM OneTextOrNone == Spec => []LeavesOnlyText
<1>1. IInv => LeavesOnlyText
  BY DEF IInv
<1> QED
  BY <1>1, Invariant, PTL

\* The loop ends only after a read() that found nothing behind its offset, so
\* nothing the file held then is missing from the text.
THEOREM ReadsAll == Spec => ReadsToEnd
<1>1. IInv /\ [Next]_vars => [pc = "read" /\ pc' = "nul" => pos >= length]_vars
  <2> SUFFICES ASSUME IInv, [Next]_vars, pc = "read", pc' = "nul"
               PROVE  pos >= length
    OBVIOUS
  <2>1. Read
    BY DEF Next, ReadFile, PathPush, Open, Blank, ReadFails, Terminate, Grow, Shrink,
           Done, vars
  <2>2. PICK n \in 0..Chunk :
          /\ IF length > pos THEN n > 0 /\ n <= length - pos ELSE n = 0
          /\ pc' = IF n = 0 THEN "nul" ELSE "blank"
    BY <2>1 DEF Read
  <2>3. n = 0 /\ pos \in Nat /\ length \in Nat
    BY <2>2 DEF IInv, TypeInv, TypeOK
  <2> QED
    BY <2>2, <2>3
<1> QED
  BY <1>1, Invariant, PTL DEF Spec, ReadsToEnd
=============================================================================
