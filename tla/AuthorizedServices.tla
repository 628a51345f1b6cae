------------------------- MODULE AuthorizedServices -------------------------
(***************************************************************************)
(* Which certificate may announce which action:                            *)
(* auth/authorized_services.rs.                                            *)
(*                                                                         *)
(* A text is a sequence of letters, "." and ":" among them; a run of       *)
(* letters that matter only together is written as one.  A line of the     *)
(* file has its comment stripped: it is "blank", "bare" (a fingerprint     *)
(* alone), or an "entry".                                                  *)
(***************************************************************************)
EXTENDS Text

CONSTANT Lowercase   \* of the letters that are upper case

\* Of what a pattern is made of, only letters have a case.
ASSUME LettersAssumption ==
  {".", ":", "any"} \cap (DOMAIN Lowercase \cup Range(Lowercase)) = {}

Lower(text) ==
  [i \in DOMAIN text |-> IF text[i] \in DOMAIN Lowercase THEN Lowercase[text[i]] ELSE text[i]]

AllLetters == <<"A", "L", "L">>

\* ":ALL" becomes ":.*" wherever it stands, in upper case only, and whatever goes
\* on after it; without a colon the sector is main.
Pattern(token) ==
  IF ":" \in Range(token)
  THEN Replaced(token, <<":">> \o AllLetters, <<":", "any">>)
  ELSE <<"main", ":">> \o token

\* ^(?:pattern), whatever follows.
MatchesMutant(pattern, text) ==
  LET ends[i \in 0..Len(pattern)] ==
        IF i = 0 THEN {0}
        ELSE IF pattern[i] = "any" THEN {j \in 0..Len(text) : \E k \in ends[i - 1] : k <= j}
        ELSE {j \in 1..Len(text) : text[j] = pattern[i] /\ j - 1 \in ends[i - 1]}
  IN  ends[Len(pattern)] # {}

\* ^(?:pattern)(?:\.|$), by where the first i items of the pattern may end.
Matches(pattern, text) ==
  LET ends[i \in 0..Len(pattern)] ==
        IF i = 0 THEN {0}
        ELSE IF pattern[i] = "any" THEN {j \in 0..Len(text) : \E k \in ends[i - 1] : k <= j}
        ELSE {j \in 1..Len(text) : text[j] = pattern[i] /\ j - 1 \in ends[i - 1]}
  IN  \E n \in ends[Len(pattern)] : n < Len(text) => text[n + 1] = "."

\* parse_content: the last entry of a fingerprint replaces those before it.
Entries(content) ==
  LET of(fp) == {i \in DOMAIN content : content[i].is = "entry" /\ content[i].fingerprint = fp}
      all    == {content[i].fingerprint : i \in {j \in DOMAIN content : content[j].is = "entry"}}
  IN  [fp \in all |-> {Pattern(token) : token \in content[Max(of(fp))].tokens}]

\* is_authorized: the case is ignored, but not that of _meta.
IsAuthorized(entries, fingerprint, sector, action) ==
  \/ IsPrefix(<<"_meta", ".">>, action)
  \/ /\ ":" \notin Range(sector) \cup Range(action)
     /\ fingerprint \in DOMAIN entries
     /\ \E p \in entries[fingerprint] :
          Matches(Lower(p), Lower(sector \o <<":">> \o action))

-----------------------------------------------------------------------------

Segments(text) == Split(text, <<".">>)

\* An action begins, segment by segment, with a path.
Covers(path, action) == IsPrefix(Segments(Lower(path)), Segments(Lower(action)))

\* What a token names: in a sector an action with all below it, or, when the path
\* begins with ALL, each action that has, from anywhere on, what follows ALL.
Names(token, sector, action) ==
  LET parts == Split(token, <<":">>)
      path  == Last(parts)
  IN  /\ Len(parts) <= 2
      /\ Lower(sector) = Lower(IF Len(parts) = 1 THEN <<"main">> ELSE parts[1])
      /\ IF Len(parts) = 2 /\ IsPrefix(AllLetters, path)
         THEN \E k \in 1..(Len(action) + 1) :
                Covers(SubSeq(path, 4, Len(path)), SubSeq(action, k, Len(action)))
         ELSE Covers(path, action)

\* What the last line of a certificate in the file says of an action.
Meant(content, fingerprint, sector, action) ==
  LET mine == {i \in DOMAIN content : content[i].is = "entry" /\ content[i].fingerprint = fingerprint}
  IN  \/ Segments(action)[1] = <<"_meta">> /\ Len(Segments(action)) > 1
      \/ \E i \in mine : /\ \A j \in mine : j <= i
                        /\ \E token \in content[i].tokens : Names(token, sector, action)
=============================================================================
