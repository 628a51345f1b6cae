------------------------------ MODULE CacheFile ------------------------------
(***************************************************************************)
(* The records of the discovery cache file: discovery/cache_file.rs.  The  *)
(* file is read in pieces as they come, each is searched for the delimiter *)
(* on its own.                                                             *)
(***************************************************************************)
EXTENDS Text

CONSTANT Delimiter   \* "\n%%%\n"

\* An empty record is passed over.
NonEmpty(records) == SelectSeq(records, LAMBDA record : record # <<>>)

\* What is before the first delimiter of a piece goes on with the record at hand.
Continued(records, texts) ==
  Front(records) \o <<Last(records) \o Head(texts)>> \o Tail(texts)

\* Each piece ends a record.
RecordsMutant(reads) ==
  LET held[i \in 0..Len(reads)] ==
        IF i = 0 THEN <<>> ELSE held[i - 1] \o Split(reads[i], Delimiter)
  IN  NonEmpty(held[Len(reads)])

\* CacheFileAnnouncementIterator, until the end of the file.
Records(reads) ==
  LET held[i \in 0..Len(reads)] ==
        IF i = 0 THEN <<<<>>>> ELSE Continued(held[i - 1], Split(reads[i], Delimiter))
  IN  NonEmpty(held[Len(reads)])

-----------------------------------------------------------------------------

\* No delimiter is cut through by the end of a read.
Apart(reads) ==
  LET file == FlattenSeq(reads)
  IN  \A k \in DOMAIN reads, i \in 1..(Len(file) - Len(Delimiter) + 1) :
        SubSeq(file, i, i + Len(Delimiter) - 1) = Delimiter
          => Len(FlattenSeq(SubSeq(reads, 1, k))) \notin i..(i + Len(Delimiter) - 2)

\* Such a file is always read as the texts between its delimiters.
ReadWhole(reads) ==
  Apart(reads) => Records(reads) = NonEmpty(Split(FlattenSeq(reads), Delimiter))
=============================================================================
