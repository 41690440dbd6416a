---------------------------- MODULE CmdlineText ----------------------------
(***************************************************************************)
(* The two ways a process's command line becomes a value on Linux: the     *)
(* strings of cmdline, cut by case 'a' of bless_into_proc(), and cmndline, *)
(* joined by get_proc_cmndline().                                          *)
(*                                                                         *)
(* A text is a sequence of characters, Nul or not; read_file() puts one    *)
(* more Nul behind it.                                                     *)
(***************************************************************************)
EXTENDS Integers, Sequences, SequencesExt

CONSTANTS
  Chars,       \* the characters of a text
  MaxText      \* bound: characters of a text

VARIABLE text  \* /proc/${pid}/cmdline

Nul == "nul"
Blank == "blank"

Terminated(t) == Append(t, Nul)

\* The place of the first Nul from s on.
EndOfString(object, s) ==
  CHOOSE e \in s..Len(object) :
    object[e] = Nul /\ \A i \in s..(e - 1) : object[i] # Nul

CString(object) == SubSeq(object, 1, EndOfString(object, 1) - 1)

\* The loop of case 'a': the strings from s on.
Strings_StopsAtEmpty(t) ==
  LET object == Terminated(t)
      from[s \in 1..(Len(t) + 2)] ==
        IF s > Len(t) \/ object[s] = Nul THEN <<>>
        ELSE LET e == EndOfString(object, s)
             IN  <<SubSeq(object, s, e - 1)>> \o from[e + 1]
  IN  from[1]

Strings(t) ==
  LET object == Terminated(t)
      from[s \in 1..(Len(t) + 2)] ==
        IF s > Len(t) THEN <<>>
        ELSE LET e == EndOfString(object, s)
             IN  <<SubSeq(object, s, e - 1)>> \o from[e + 1]
  IN  from[1]

\* get_proc_cmndline(): every Nul but a last one becomes a blank, and the
\* value ends at the first Nul left.
Cmndline(t) ==
  CString([i \in 1..(Len(t) + 1) |->
             IF i < Len(t) /\ t[i] = Nul THEN Blank ELSE Terminated(t)[i]])

TextInit == text = <<>>

\* A process may have any command line.
Write ==
  /\ Len(text) < MaxText
  /\ \E c \in Chars : text' = Append(text, c)

TextSpec == TextInit /\ [][Write]_text

-----------------------------------------------------------------------------
(* Properties *)

\* The strings of an array are the text cut at its Nuls, empty ones included,
\* whether or not the text ends in one.
CutsAtNuls(t) ==
  LET strings == Strings(t)
      joined == FlattenSeq([i \in DOMAIN strings |-> Append(strings[i], Nul)])
  IN  /\ \A i \in DOMAIN strings : Nul \notin Range(strings[i])
      /\ joined = IF t = <<>> \/ Last(t) = Nul THEN t ELSE Append(t, Nul)

\* cmndline is the strings of cmdline with blanks between them.
JoinsStrings(t) ==
  LET strings == Strings(t)
  IN  Cmndline(t) = FlattenSeq([i \in DOMAIN strings |->
                         IF i = 1 THEN strings[i] ELSE <<Blank>> \o strings[i]])

\* case 'a' cuts every text at its Nuls, and the accessors cmndline and cmdline
\* agree on what it says, empty arguments and a missing last Nul included.
TextsSurvive == CutsAtNuls(text) /\ JoinsStrings(text)
=============================================================================
