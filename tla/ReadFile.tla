------------------------------ MODULE ReadFile ------------------------------
(***************************************************************************)
(* read_file() of os/Linux.c: a file of unknown length is read, a chunk at *)
(* a time, into an object that grows on top of the obstack.                *)
(*                                                                         *)
(* A byte of the object is the offset in the file it was read from, Nul or *)
(* Garbage.  The object moves when its chunk is full, so an address in it  *)
(* is the place where the object was and an offset; the object's bytes are *)
(* what is found at its place now.                                         *)
(***************************************************************************)
EXTENDS Integers

CONSTANTS
  Chunk,      \* bytes obstack_blank() adds and read() asks for: 1024
  MaxLength,  \* bound: the longest the file gets
  Below       \* objects on the obstack when read_file() is called

ASSUME ReadFileAssumption ==
  /\ Chunk \in Nat \ {0}
  /\ MaxLength \in Nat
  /\ Below \in Nat

VARIABLES
  pc,
  length,  \* bytes in the file now
  pos,     \* the descriptor's offset
  fds,     \* descriptors open
  pool,    \* finished objects on the obstack
  place,   \* how often the growing object has moved
  size,    \* its size
  bytes,   \* its contents
  start,   \* where read() stores: a place and an offset
  len,     \* *len
  text     \* the result: is it a text, or NULL?

file == <<length, pos, fds>>
object == <<place, size, bytes>>
vars == <<pc, file, pool, object, start, len, text>>

Nul == -1
Garbage == -2

Init ==
  /\ pc = "path"
  /\ length \in 0..MaxLength
  /\ pos = 0
  /\ fds = 0
  /\ pool = Below
  /\ place = 0
  /\ size = 0
  /\ bytes = [i \in {} |-> Garbage]
  /\ start = [place |-> 0, offset |-> 0]
  /\ len = 0
  /\ text = FALSE

-----------------------------------------------------------------------------
(* The file changes while it is read: environ and cmdline are a process's  *)
(* own memory.                                                             *)

Grow ==
  /\ pc # "done"
  /\ length < MaxLength
  /\ length' = length + 1
  /\ UNCHANGED <<pc, pos, fds, pool, object, start, len, text>>

Shrink ==
  /\ pc # "done"
  /\ length > 0
  /\ length' = length - 1
  /\ UNCHANGED <<pc, pos, fds, pool, object, start, len, text>>

-----------------------------------------------------------------------------

\* proc_pid_file() leaves the path on the obstack.
PathPush ==
  /\ pc = "path"
  /\ pool' = pool + 1
  /\ pc' = "open"
  /\ UNCHANGED <<file, object, start, len, text>>

\* open(); the path is freed whether it succeeds or not.
Open ==
  /\ pc = "open"
  /\ pool' = pool - 1
  /\ \/ fds' = fds + 1 /\ len' = 0 /\ pc' = "blank" /\ UNCHANGED text
     \/ text' = FALSE /\ pc' = "done" /\ UNCHANGED <<fds, len>>
  /\ UNCHANGED <<length, pos, object, start>>

\* obstack_blank() makes room, moving the object where there is not enough;
\* obstack_base() is taken afterwards.
Room ==
  /\ size' = size + Chunk
  /\ bytes' = [i \in 0..(size + Chunk - 1) |->
                 IF i < size THEN bytes[i] ELSE Garbage]
  /\ place' \in {place, place + 1}

Blank_BaseBefore ==
  /\ pc = "blank"
  /\ Room
  /\ start' = [place |-> place, offset |-> len]
  /\ pc' = "read"
  /\ UNCHANGED <<file, pool, len, text>>

Blank ==
  /\ pc = "blank"
  /\ Room
  /\ start' = [place |-> place', offset |-> len]
  /\ pc' = "read"
  /\ UNCHANGED <<file, pool, len, text>>

\* n bytes arrive at start: in the object if it still is where start says.
Store(n) ==
  bytes' = IF start.place = place
           THEN [i \in DOMAIN bytes |->
                   IF i \in start.offset..(start.offset + n - 1)
                   THEN pos + (i - start.offset) ELSE bytes[i]]
           ELSE bytes

\* read() returns some of what is left, at most Chunk; nothing at the end of
\* the file, and then the loop ends; or fails.
Read_StopsWhenShort ==
  /\ pc = "read"
  /\ \E n \in 0..Chunk :
       /\ IF length > pos THEN n > 0 /\ n <= length - pos ELSE n = 0
       /\ Store(n)
       /\ pos' = pos + n
       /\ len' = len + n
       /\ pc' = IF n < Chunk THEN "nul" ELSE "blank"
  /\ UNCHANGED <<length, fds, pool, place, size, start, text>>

Read_ForgetsLength ==
  /\ pc = "read"
  /\ \E n \in 0..Chunk :
       /\ IF length > pos THEN n > 0 /\ n <= length - pos ELSE n = 0
       /\ Store(n)
       /\ pos' = pos + n
       /\ len' = len + Chunk
       /\ pc' = IF n = 0 THEN "nul" ELSE "blank"
  /\ UNCHANGED <<length, fds, pool, place, size, start, text>>

Read ==
  /\ pc = "read"
  /\ \E n \in 0..Chunk :
       /\ IF length > pos THEN n > 0 /\ n <= length - pos ELSE n = 0
       /\ Store(n)
       /\ pos' = pos + n
       /\ len' = len + n
       /\ pc' = IF n = 0 THEN "nul" ELSE "blank"
  /\ UNCHANGED <<length, fds, pool, place, size, start, text>>

\* The object is finished only to be freed.
ReadFails_NoFree ==
  /\ pc = "read"
  /\ pool' = pool + 1
  /\ fds' = fds - 1
  /\ text' = FALSE
  /\ pc' = "done"
  /\ UNCHANGED <<length, pos, object, start, len>>

ReadFails_Unchecked ==
  /\ pc = "read"
  /\ len' = len - 1
  /\ pc' = "blank"
  /\ UNCHANGED <<file, pool, object, start, text>>

ReadFails ==
  /\ pc = "read"
  /\ fds' = fds - 1
  /\ text' = FALSE
  /\ pc' = "done"
  /\ UNCHANGED <<length, pos, pool, object, start, len>>

\* The text is terminated, finished, and the file closed.
Terminate ==
  /\ pc = "nul"
  /\ bytes' = [bytes EXCEPT ![len] = Nul]
  /\ pool' = pool + 1
  /\ text' = TRUE
  /\ fds' = fds - 1
  /\ pc' = "done"
  /\ UNCHANGED <<length, pos, place, size, start, len>>

-----------------------------------------------------------------------------

ReadFile == PathPush \/ Open \/ Blank \/ Read \/ ReadFails \/ Terminate

Done == pc = "done" /\ UNCHANGED vars

Next == ReadFile \/ Grow \/ Shrink \/ Done

Spec == Init /\ [][Next]_vars

-----------------------------------------------------------------------------
(* Properties *)

\* The type invariant.
TypeOK ==
  /\ pc \in {"path", "open", "blank", "read", "nul", "done"}
  /\ length \in 0..MaxLength
  /\ pos \in Nat
  /\ fds \in 0..1
  /\ pool \in Nat
  /\ place \in Nat
  /\ size \in Nat
  /\ bytes \in [0..(size - 1) -> Int]
  /\ start \in [place : Nat, offset : Nat]
  /\ len \in Nat
  /\ text \in BOOLEAN

\* read() may store a whole chunk at start without leaving the object, and
\* there is a byte left for the NUL, also for a file that fills every chunk.
StaysInObject ==
  /\ pc = "read" => start.place = place /\ start.offset + Chunk <= size
  /\ pc = "nul" => len < size

\* What has been read is the file's bytes in order, without a hole, however
\* short the single reads are.
ReadsInOrder ==
  pc \in {"blank", "read", "nul"} =>
    /\ len = pos
    /\ \A i \in 0..(len - 1) : bytes[i] = i

\* A text is a prefix of the file and ends in a NUL that *len counts up to.
TextIsFile ==
  text =>
    /\ len = pos
    /\ bytes[len] = Nul
    /\ \A i \in 0..(len - 1) : bytes[i] = i

\* read_file() leaves the text and nothing else on the obstack, nothing when
\* it fails, and no descriptor open.
LeavesOnlyText ==
  pc = "done" => fds = 0 /\ pool = IF text THEN Below + 1 ELSE Below

\* A file that is not cut shorter than what was read is read to its end.
ReadsToEnd == [][pc = "read" /\ pc' = "nul" => pos >= length]_vars
=============================================================================
