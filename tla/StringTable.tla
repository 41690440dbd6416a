---------------------------- MODULE StringTable ----------------------------
(***************************************************************************)
(* strings[] of os/Linux.h and of os/Cygwin.h: texts one behind the other, *)
(* each ended by a Nul, and found again by offsets that were "generated    *)
(* with a perl script" once and are kept by hand since.                    *)
(***************************************************************************)
EXTENDS Integers, Sequences

\* The offset at which each text starts.
StartsOf(texts) ==
  LET start[i \in DOMAIN texts] ==
        IF i = 1 THEN 0 ELSE start[i - 1] + Len(texts[i - 1]) + 1
  IN  start

\* The C string at an offset: what is left of the text that lies there.
TextAt(texts, offset) ==
  LET first == StartsOf(texts)
      i == CHOOSE j \in DOMAIN texts : offset \in first[j]..(first[j] + Len(texts[j]))
  IN  SubSeq(texts[i], offset - first[i] + 1, Len(texts[i]))

\* The strings a table of offsets finds.
TextsAt(texts, offsets) == [i \in DOMAIN offsets |-> TextAt(texts, offsets[i])]

\* tolower() of a letter of a format.
LowerOf(letter) ==
  CASE letter = "I" -> "i" [] letter = "S" -> "s" [] letter = "L" -> "l"
    [] letter = "J" -> "j" [] letter = "P" -> "p" [] letter = "A" -> "a"
    [] OTHER -> letter
=============================================================================
