-------------------------------- MODULE Text --------------------------------
(***************************************************************************)
(* A text is the sequence of its parts, cut fine enough for one text to be *)
(* found inside another, as the programs find it.                          *)
(***************************************************************************)
EXTENDS Naturals, Sequences

NewLine == "\n"

\* strstr.
Contains(text, pattern) ==
    \E i \in 0 .. Len(text) - Len(pattern) :
        SubSeq(text, i + 1, i + Len(pattern)) = pattern

EndsInNewLine(text) == text # <<>> /\ text[Len(text)] = NewLine

\* What $(cat file) leaves of a text that ends in one newline at most.
Chomp(text) == IF EndsInNewLine(text) THEN SubSeq(text, 1, Len(text) - 1) ELSE text
=============================================================================
