------------------------------- MODULE HashMap -------------------------------
(***************************************************************************)
(* The std::collections::HashMap operations the program uses, on functions *)
(* whose domain is the set of keys present.  Every shared map of the       *)
(* transport (pending, outgoing, incoming) is changed under its Mutex, or  *)
(* is local to one task, so one operator application is one atomic step.   *)
(***************************************************************************)

\* The map with no entry.
EmptyMap == [k \in {} |-> k]

\* insert: adds the key, or replaces the value it had.
Insert(map, key, value) ==
  [k \in DOMAIN map \cup {key} |-> IF k = key THEN value ELSE map[k]]

\* remove: drops the key if it is present.
Without(map, key) == [k \in DOMAIN map \ {key} |-> map[k]]

\* f is a function, whatever its domain.
IsMap(f) == f = [k \in DOMAIN f |-> f[k]]
=============================================================================
