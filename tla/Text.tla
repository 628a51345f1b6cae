-------------------------------- MODULE Text --------------------------------
(***************************************************************************)
(* Texts as sequences of tokens.                                           *)
(***************************************************************************)
EXTENDS Integers, SequencesExt

\* str::split, and every search for the first delimiter from the left.
Split(text, delimiter) ==
  LET d == Len(delimiter)
      found(i) == {j \in i..(Len(text) - d + 1) : SubSeq(text, j, j + d - 1) = delimiter}
      parts[i \in 1..(Len(text) + 1)] ==
        IF found(i) = {} THEN <<SubSeq(text, i, Len(text))>>
        ELSE <<SubSeq(text, i, Min(found(i)) - 1)>> \o parts[Min(found(i)) + d]
  IN  parts[1]

\* str::replace
Replaced(text, old, new) ==
  LET parts == Split(text, old)
  IN  FlattenSeq([i \in DOMAIN parts |-> IF i = 1 THEN parts[i] ELSE new \o parts[i]])
=============================================================================
