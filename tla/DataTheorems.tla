----------------------------- MODULE DataTheorems -----------------------------
(***************************************************************************)
(* What the proofs about the components have in common: facts about maps,  *)
(* about sets of numbers, about functions defined by recursion, and about  *)
(* sequences and texts.                                                    *)
(*                                                                         *)
(* Induction is over a set instead of a predicate, and a recursion is      *)
(* given by functions, so that the lemmas take no operator.                *)
(***************************************************************************)
EXTENDS HashMap, Integers, Text, WellFoundedInduction, TLAPS

-----------------------------------------------------------------------------
(* Maps.                                                                   *)

\* HashMap::insert: the key is present with the new value, and every other
\* entry is as it was.
LEMMA InsertFacts ==
  ASSUME NEW map, NEW key, NEW value
  PROVE  /\ IsMap(Insert(map, key, value))
         /\ DOMAIN Insert(map, key, value) = DOMAIN map \cup {key}
         /\ Insert(map, key, value)[key] = value
         /\ \A k \in DOMAIN map : k # key => Insert(map, key, value)[k] = map[k]
  BY DEF Insert, IsMap

\* HashMap::remove: the key is absent and every other entry is as it was.
LEMMA WithoutFacts ==
  ASSUME NEW map, NEW key
  PROVE  /\ IsMap(Without(map, key))
         /\ DOMAIN Without(map, key) = DOMAIN map \ {key}
         /\ \A k \in DOMAIN Without(map, key) : Without(map, key)[k] = map[k]
  BY DEF Without, IsMap

\* HashMap::new.
LEMMA EmptyMapFacts == IsMap(EmptyMap) /\ DOMAIN EmptyMap = {}
  BY DEF EmptyMap, IsMap

\* get_mut and an assignment through it keep a map a map.
LEMMA UpdateFacts ==
  ASSUME NEW map, NEW key, NEW value, IsMap(map)
  PROVE  /\ IsMap([map EXCEPT ![key] = value])
         /\ DOMAIN [map EXCEPT ![key] = value] = DOMAIN map
         /\ \A k \in DOMAIN map :
              [map EXCEPT ![key] = value][k] = IF k = key THEN value ELSE map[k]
  BY DEF IsMap

-----------------------------------------------------------------------------
(* Numbers.                                                                *)

\* Every set of natural numbers has a least.
LEMMA LeastExists ==
  ASSUME NEW T, T \subseteq Nat, T # {}
  PROVE  \E m \in T : \A n \in T : m <= n
<1> DEFINE R == {ss \in Nat \X Nat : ss[1] < ss[2]}
<1>1. IsWellFoundedOn(OpToRel(<, Nat), Nat)
  BY ONLY NatLessThanWellFounded, Zenon
<1>2. IsWellFoundedOn(R, Nat)
  BY ONLY <1>1, Zenon DEF OpToRel
<1>3. PICK m \in T : \A n \in T : ~ (<<n, m>> \in R)
  <2> HIDE DEF R
  <2> QED
    BY <1>2, WFMin, Zenon
<1>4. \A n \in T : ~(n < m)
  BY <1>3
<1> QED
  BY <1>4

\* And every set of numbers up to some number has a greatest.
LEMMA GreatestExists ==
  ASSUME NEW n \in Nat, NEW S, S \subseteq 1..n, S # {}
  PROVE  \E m \in S : \A i \in S : i <= m
<1> DEFINE T == {n - i : i \in S}
<1>1. T \subseteq Nat /\ T # {}
  <2>1. \A i \in S : n - i \in Nat
    OBVIOUS
  <2> QED BY <2>1
<1>2. PICK m \in T : \A k \in T : m <= k
  <2> HIDE DEF T
  <2> QED BY <1>1, LeastExists
<1>3. PICK i \in S : m = n - i
  OBVIOUS
<1>4. \A j \in S : j <= i
  BY <1>2, <1>3
<1> QED BY <1>4

\* What holds of 0, and of n + 1 if it holds of n, holds of all.
LEMMA Induction ==
  ASSUME NEW T, 0 \in T, \A n \in Nat : n \in T => n + 1 \in T
  PROVE  \A n \in Nat : n \in T
<1> DEFINE U == Nat \ T
<1> SUFFICES ASSUME U # {} PROVE FALSE
  OBVIOUS
<1>1. PICK m \in U : \A n \in U : m <= n
  <2>1. U \subseteq Nat
    OBVIOUS
  <2> HIDE DEF U
  <2> QED BY <2>1, LeastExists
<1>2. m \in Nat /\ m # 0
  OBVIOUS
<1>3. m - 1 \in Nat /\ m - 1 \notin U
  BY <1>1, <1>2
<1>4. (m - 1) + 1 = m
  BY <1>2
<1> QED BY <1>1, <1>3, <1>4

\* What holds of n + 1, and of any number below if it holds of all between, holds
\* of all.
LEMMA DownwardInduction ==
  ASSUME NEW T, NEW n \in Nat, n + 1 \in T,
         \A i \in 1..n : (\A j \in (i + 1)..(n + 1) : j \in T) => i \in T
  PROVE  \A i \in 1..(n + 1) : i \in T
<1> DEFINE U == {k \in Nat : \A j \in 1..(n + 1) : (n + 1) - k <= j => j \in T}
<1>1. 0 \in U
  OBVIOUS
<1>2. ASSUME NEW k \in Nat, k \in U PROVE k + 1 \in U
  <2> SUFFICES ASSUME NEW j \in 1..(n + 1), (n + 1) - (k + 1) <= j PROVE j \in T
    OBVIOUS
  <2>1. CASE (n + 1) - k <= j
    BY <1>2, <2>1
  <2>2. CASE ~((n + 1) - k <= j)
    <3>1. j \in 1..n /\ \A i \in (j + 1)..(n + 1) : i \in 1..(n + 1) /\ (n + 1) - k <= i
      BY <2>2
    <3> QED BY <1>2, <3>1
  <2> QED BY <2>1, <2>2
<1>3. n \in U
  <2> HIDE DEF U
  <2> QED BY <1>1, <1>2, Induction
<1> QED BY <1>3

-----------------------------------------------------------------------------
(* Recursion.                                                              *)

\* The functions that take the value base at n + 1, and before it the value
\* step[i] makes of the one at next[i].
FromEnd(S, n, base, step, next) ==
  {f \in [1..(n + 1) -> S] : /\ f[n + 1] = base
                             /\ \A i \in 1..n : f[i] = step[i][f[next[i]]]}

\* A function may be defined from its end: each value by one further on.
LEMMA RecursionFromEnd ==
  ASSUME NEW S, NEW n \in Nat, NEW base \in S, NEW step \in [1..n -> [S -> S]],
         NEW next \in [1..n -> 1..(n + 1)], \A i \in 1..n : i < next[i]
  PROVE  FromEnd(S, n, base, step, next) # {}
<1> DEFINE Upon(k, f) == /\ f \in [1..(n + 1) -> S] /\ f[n + 1] = base
                         /\ \A i \in 1..n : n - k < i => f[i] = step[i][f[next[i]]]
           T == {k \in Nat : \E f : Upon(k, f)}
<1>1. 0 \in T
  <2> DEFINE f == [i \in 1..(n + 1) |-> base]
  <2>1. Upon(0, f)
    OBVIOUS
  <2> QED BY <2>1
<1>2. ASSUME NEW k \in Nat, k \in T PROVE k + 1 \in T
  <2>1. PICK f : Upon(k, f)
    BY <1>2
  <2>2. CASE n - k \in 1..n
    <3> DEFINE i == n - k
               g == [f EXCEPT ![i] = step[i][f[next[i]]]]
    <3>1. /\ g \in [1..(n + 1) -> S] /\ g[i] = step[i][f[next[i]]]
          /\ \A j \in 1..(n + 1) : j # i => g[j] = f[j]
      BY <2>1, <2>2
    <3>2. ASSUME NEW j \in 1..n, n - (k + 1) < j PROVE g[j] = step[j][g[next[j]]]
      <4>1. next[j] # i /\ next[j] \in 1..(n + 1)
        BY <2>2, <3>2
      <4>2. g[next[j]] = f[next[j]]
        BY <3>1, <4>1
      <4>3. CASE j = i
        BY <3>1, <4>2, <4>3
      <4>4. CASE j # i
        BY <2>1, <2>2, <3>1, <3>2, <4>2, <4>4
      <4> QED BY <4>3, <4>4
    <3>3. g[n + 1] = base
      BY <2>1, <2>2, <3>1
    <3> HIDE DEF g
    <3>4. Upon(k + 1, g)
      BY <3>1, <3>2, <3>3
    <3> QED BY <3>4
  <2>3. CASE n - k \notin 1..n
    <3>1. Upon(k + 1, f)
      BY <2>1, <2>3
    <3> QED BY <3>1
  <2> QED BY <2>2, <2>3
<1>3. n \in T
  <2> HIDE DEF T
  <2> QED BY <1>1, <1>2, Induction
<1>4. PICK f : Upon(n, f)
  BY <1>3
<1>5. f \in FromEnd(S, n, base, step, next)
  BY <1>4 DEF FromEnd
<1> QED BY <1>5

\* The functions that take the value base at 0, and after it the value
\* step[i] makes of the one before.
FromStart(S, n, base, step) ==
  {f \in [0..n -> S] : /\ f[0] = base
                       /\ \A i \in 1..n : f[i] = step[i][f[i - 1]]}

\* Or from its beginning, each value by the one before.
LEMMA RecursionFromStart ==
  ASSUME NEW S, NEW n \in Nat, NEW base \in S, NEW step \in [1..n -> [S -> S]]
  PROVE  FromStart(S, n, base, step) # {}
<1> DEFINE r == [i \in 1..n |-> step[n + 1 - i]]
           next == [i \in 1..n |-> i + 1]
<1>1. r \in [1..n -> [S -> S]] /\ next \in [1..n -> 1..(n + 1)] /\ \A i \in 1..n : i < next[i]
  OBVIOUS
<1>2. \A i \in 1..n : r[i] = step[n + 1 - i] /\ next[i] = i + 1
  OBVIOUS
<1> HIDE DEF r, next
<1>0. FromEnd(S, n, base, r, next) # {}
  BY <1>1, RecursionFromEnd
<1>3. PICK g \in [1..(n + 1) -> S] :
        g[n + 1] = base /\ \A i \in 1..n : g[i] = r[i][g[next[i]]]
  BY <1>0 DEF FromEnd
<1> DEFINE f == [i \in 0..n |-> g[n + 1 - i]]
<1>4. f \in [0..n -> S] /\ f[0] = base
  <2>1. n + 1 - 0 = n + 1 /\ \A i \in 0..n : n + 1 - i \in 1..(n + 1)
    OBVIOUS
  <2> QED BY <1>3, <2>1
<1>5. ASSUME NEW i \in 1..n PROVE f[i] = step[i][f[i - 1]]
  <2>1. n + 1 - i \in 1..n /\ n + 1 - (n + 1 - i) = i /\ i - 1 \in 0..n
        /\ n + 1 - (i - 1) = (n + 1 - i) + 1
    OBVIOUS
  <2>2. f[i] = g[n + 1 - i] /\ f[i - 1] = g[(n + 1 - i) + 1]
    BY <2>1
  <2>3. PICK k \in 1..n : k = n + 1 - i
    BY <2>1
  <2>4. g[k] = r[k][g[next[k]]] /\ r[k] = step[n + 1 - k] /\ next[k] = k + 1
    BY <1>2, <1>3, <2>3
  <2>5. n + 1 - k = i
    BY <2>1, <2>3
  <2> QED BY <2>2, <2>3, <2>4, <2>5
<1>6. f \in FromStart(S, n, base, step)
  BY <1>4, <1>5 DEF FromStart
<1> QED BY <1>6

-----------------------------------------------------------------------------
(* Sequences.                                                              *)

\* What the first of some sequences make together.
Partial(T, seqs) ==
  {f \in [0..Len(seqs) -> Seq(T)] : /\ f[0] = <<>>
                                    /\ \A i \in 1..Len(seqs) : f[i] = f[i - 1] \o seqs[i]}

\* FlattenSeq joins its sequences one after the other.
LEMMA FlattenFacts ==
  ASSUME NEW T, NEW seqs \in Seq(Seq(T))
  PROVE  \E f \in Partial(T, seqs) : FlattenSeq(seqs) = f[Len(seqs)]
<1> DEFINE n == Len(seqs)
           upon(g, i) == IF i = 1 THEN seqs[i] ELSE g[i - 1] \o seqs[i]
           flatten == CHOOSE g : g = [i \in 1..n |-> upon(g, i)]
           step == [i \in 1..n |-> [s \in Seq(T) |-> IF i = 1 THEN seqs[i] ELSE s \o seqs[i]]]
<1>1. n \in Nat /\ <<>> \in Seq(T) /\ \A i \in 1..n : seqs[i] \in Seq(T)
  OBVIOUS
<1>2. \A s, t : s \in Seq(T) /\ t \in Seq(T) => s \o t \in Seq(T) /\ <<>> \o t = t
  OBVIOUS
<1>3. step \in [1..n -> [Seq(T) -> Seq(T)]]
  <2>1. \A i \in 1..n, s \in Seq(T) : s \o seqs[i] \in Seq(T)
    BY <1>1, <1>2
  <2> HIDE DEF n
  <2> QED BY <1>1, <2>1
<1>4. PICK f \in FromStart(Seq(T), n, <<>>, step) : TRUE
  <2>1. PICK S, base : S = Seq(T) /\ base = <<>>
    OBVIOUS
  <2> HIDE DEF step, n
  <2>2. base \in S /\ step \in [1..n -> [S -> S]] /\ n \in Nat
    BY <1>1, <1>3, <2>1
  <2>3. FromStart(S, n, base, step) # {}
    BY ONLY <2>2, RecursionFromStart
  <2> QED BY <2>1, <2>3
<1> DEFINE h == [i \in 1..n |-> f[i]]
<1>5. h = [i \in 1..n |-> upon(h, i)]
  <2>1. f \in [0..n -> Seq(T)] /\ \A i \in 1..n : f[i] = step[i][f[i - 1]]
    BY <1>4 DEF FromStart
  <2>2. ASSUME NEW i \in 1..n PROVE h[i] = upon(h, i)
    <3>1. i - 1 \in 0..n /\ (i # 1 => i - 1 \in 1..n)
      BY <1>1
    <3>2. f[i - 1] \in Seq(T) /\ f[i] = step[i][f[i - 1]]
      BY <2>1, <3>1
    <3>3. f[i] = IF i = 1 THEN seqs[i] ELSE f[i - 1] \o seqs[i]
      BY <3>2
    <3> HIDE DEF step, n
    <3> QED BY <3>1, <3>3
  <2> HIDE DEF upon, n, step
  <2> QED BY <2>2
<1>6. flatten = [i \in 1..n |-> upon(flatten, i)]
  <2> HIDE DEF upon, n, h
  <2> QED BY <1>5
<1> DEFINE g == [i \in 0..n |-> IF i = 0 THEN <<>> ELSE flatten[i]]
           K == {i \in Nat : i <= n => g[i] \in Seq(T)}
<1> HIDE DEF flatten, step, h, n
<1>7. g[0] = <<>> /\ \A i \in 1..n : g[i] = flatten[i]
  BY <1>1
<1>8. ASSUME NEW i \in 1..n, g[i - 1] \in Seq(T) PROVE g[i] = g[i - 1] \o seqs[i]
  <2>1. CASE i = 1
    BY <1>1, <1>2, <1>6, <1>7, <2>1
  <2>2. CASE i # 1
    <3>1. i - 1 \in 1..n
      BY <1>1, <2>2
    <3> QED BY <1>6, <1>7, <2>2, <3>1
  <2> QED BY <2>1, <2>2
<1>9. \A i \in 0..n : g[i] \in Seq(T)
  <2>1. 0 \in K
    BY <1>1, <1>7
  <2>2. ASSUME NEW i \in Nat, i \in K PROVE i + 1 \in K
    <3> HIDE DEF g
    <3> SUFFICES ASSUME i + 1 <= n PROVE g[i + 1] \in Seq(T)
      OBVIOUS
    <3>1. i + 1 \in 1..n /\ (i + 1) - 1 = i /\ g[i] \in Seq(T)
      BY <1>1, <2>2
    <3>2. g[i + 1] = g[i] \o seqs[i + 1]
      BY <1>8, <3>1
    <3> QED BY <1>1, <1>2, <3>1, <3>2
  <2>3. \A i \in Nat : i \in K
    <3> HIDE DEF K
    <3> QED BY <2>1, <2>2, Induction
  <2> HIDE DEF g
  <2> QED BY <1>1, <2>3
<1>10. g \in Partial(T, seqs)
  <2>1. g \in [0..n -> Seq(T)]
    BY <1>9
  <2>2. ASSUME NEW i \in 1..n PROVE g[i] = g[i - 1] \o seqs[i]
    <3>1. i - 1 \in 0..n
      BY <1>1
    <3> QED BY <1>8, <1>9, <3>1
  <2> HIDE DEF g
  <2> QED BY <1>7, <2>1, <2>2 DEF Partial, n
<1>11. FlattenSeq(seqs) = g[n]
  <2>1. CASE n = 0
    <3>1. seqs = <<>>
      BY <2>1 DEF n
    <3> QED BY <1>7, <2>1, <3>1 DEF FlattenSeq, n
  <2>2. CASE n # 0
    <3>1. n \in 1..n
      BY <1>1, <2>2
    <3>2. FlattenSeq(seqs) = flatten[n]
      BY <2>2 DEF FlattenSeq, flatten, n
    <3> QED BY <1>7, <3>1, <3>2
  <2> QED BY <2>1, <2>2
<1> HIDE DEF g
<1> QED BY <1>10, <1>11 DEF n

LEMMA FlattenTyped ==
  ASSUME NEW T, NEW seqs \in Seq(Seq(T))
  PROVE  FlattenSeq(seqs) \in Seq(T)
<1>1. PICK f \in Partial(T, seqs) : FlattenSeq(seqs) = f[Len(seqs)]
  BY FlattenFacts
<1>2. Len(seqs) \in 0..Len(seqs)
  OBVIOUS
<1> QED BY <1>1, <1>2 DEF Partial

\* A sequence over some items is one over more of them.
LEMMA SeqWider ==
  ASSUME NEW A, NEW B, A \subseteq B, NEW s \in Seq(A)
  PROVE  s \in Seq(B)
OBVIOUS

\* Two texts that are the same item by item.
LEMMA SameItems ==
  ASSUME NEW T, NEW s \in Seq(T), NEW t \in Seq(T), Len(s) = Len(t),
         \A i \in 1..Len(s) : s[i] = t[i]
  PROVE  s = t
OBVIOUS

LEMMA ConcatAssociates ==
  ASSUME NEW T, NEW s \in Seq(T), NEW t \in Seq(T), NEW u \in Seq(T)
  PROVE  (s \o t) \o u = s \o (t \o u)
OBVIOUS

LEMMA ConcatEmpty ==
  ASSUME NEW T, NEW s \in Seq(T)
  PROVE  s \o <<>> = s /\ <<>> \o s = s
OBVIOUS

\* A text is what its two parts are, item by item.
LEMMA ConcatTyped ==
  ASSUME NEW T, NEW a \in Seq(T), NEW b \in Seq(T)
  PROVE  /\ a \o b \in Seq(T) /\ Len(a \o b) = Len(a) + Len(b)
         /\ DOMAIN (a \o b) = 1..(Len(a) + Len(b))
OBVIOUS

LEMMA ConcatLeft ==
  ASSUME NEW T, NEW a \in Seq(T), NEW b \in Seq(T), NEW i \in 1..Len(a)
  PROVE  (a \o b)[i] = a[i]
OBVIOUS

LEMMA ConcatRight ==
  ASSUME NEW T, NEW a \in Seq(T), NEW b \in Seq(T), NEW i \in 1..Len(b)
  PROVE  (a \o b)[Len(a) + i] = b[i]
OBVIOUS

LEMMA ConcatParts ==
  ASSUME NEW T, NEW a \in Seq(T), NEW b \in Seq(T), NEW u, u = a \o b
  PROVE  /\ u \in Seq(T) /\ Len(u) = Len(a) + Len(b)
         /\ DOMAIN u = 1..(Len(a) + Len(b))
         /\ \A i \in 1..Len(a) : u[i] = a[i]
         /\ \A i \in 1..Len(b) : u[Len(a) + i] = b[i]
BY ConcatTyped, ConcatLeft, ConcatRight

LEMMA ConcatIs ==
  ASSUME NEW T, NEW a \in Seq(T), NEW b \in Seq(T), NEW c \in Seq(T),
         Len(c) = Len(a) + Len(b), \A i \in 1..Len(a) : c[i] = a[i],
         \A i \in 1..Len(b) : c[Len(a) + i] = b[i]
  PROVE  c = a \o b
<1>1. PICK d : d = a \o b
  OBVIOUS
<1>2. /\ d \in Seq(T) /\ Len(d) = Len(a) + Len(b)
      /\ \A i \in 1..Len(a) : d[i] = a[i]
      /\ \A i \in 1..Len(b) : d[Len(a) + i] = b[i]
  <2>1. /\ a \o b \in Seq(T) /\ Len(a \o b) = Len(a) + Len(b)
        /\ \A i \in 1..Len(a) : (a \o b)[i] = a[i]
        /\ \A i \in 1..Len(b) : (a \o b)[Len(a) + i] = b[i]
    BY ONLY a \in Seq(T), b \in Seq(T)
  <2> QED BY ONLY <1>1, <2>1, Zenon
<1>3. PICK m, n \in Nat : m = Len(a) /\ n = Len(b)
  OBVIOUS
<1>4. /\ Len(c) = m + n /\ Len(d) = m + n
      /\ \A i \in 1..m : c[i] = d[i]
      /\ \A i \in 1..n : c[m + i] = d[m + i]
  BY ONLY Len(c) = Len(a) + Len(b), \A i \in 1..Len(a) : c[i] = a[i],
          \A i \in 1..Len(b) : c[Len(a) + i] = b[i], <1>2, <1>3, Zenon
<1>5. ASSUME NEW i \in 1..(m + n) PROVE c[i] = d[i]
  <2>1. CASE i <= m
    <3>1. i \in 1..m
      BY <2>1
    <3> QED BY <1>4, <3>1, Zenon
  <2>2. CASE i > m
    <3>1. PICK j \in 1..n : i = m + j
      <4>1. i - m \in 1..n /\ i = m + (i - m)
        BY <2>2
      <4> QED BY ONLY <4>1
    <3>2. c[m + j] = d[m + j]
      BY <1>4, Zenon
    <3> QED BY ONLY <3>1, <3>2, Zenon
  <2> QED BY <2>1, <2>2
<1>6. c = d
  <2>1. \A v, w \in Seq(T) : Len(v) = Len(w) /\ (\A i \in 1..Len(v) : v[i] = w[i]) => v = w
    OBVIOUS
  <2>2. Len(c) = Len(d) /\ \A i \in 1..Len(c) : c[i] = d[i]
    BY ONLY <1>4, <1>5, Zenon
  <2> QED BY ONLY c \in Seq(T), <1>2, <2>1, <2>2, Zenon
<1> QED BY <1>1, <1>6

\* A text of two parts behind a head, each part ended twice: as it is written,
\* and as it is read.
TwoWritten(h, b, c, l) == h \o (b \o l) \o l \o (c \o l) \o l
TwoRead(h, b, c, l)    == h \o ((b \o (l \o l)) \o (c \o (l \o l)))

LEMMA EndedTwice ==
  ASSUME NEW T, NEW a \in Seq(T), NEW b \in Seq(T), NEW c \in Seq(T), NEW l \in Seq(T)
  PROVE  TwoWritten(a, b, c, l) = TwoRead(a, b, c, l)
<1> DEFINE p == b \o (l \o l)
           q == c \o (l \o l)
           r == a \o p
<1>1. (a \o (b \o l)) \o l = r
  BY ONLY a \in Seq(T), b \in Seq(T), l \in Seq(T)
<1>2. p \in Seq(T)
  BY ONLY b \in Seq(T), l \in Seq(T)
<1>3. q \in Seq(T)
  BY ONLY c \in Seq(T), l \in Seq(T)
<1> HIDE DEF p
<1>4. r \in Seq(T)
  BY ONLY a \in Seq(T), <1>2
<1>5. r \o q = a \o (p \o q)
  <2> HIDE DEF q
  <2> QED BY ONLY a \in Seq(T), <1>2, <1>3
<1> HIDE DEF r
<1>6. (r \o (c \o l)) \o l = r \o q
  <2> DEFINE s == c \o l
  <2>1. s \in Seq(T)
    BY ONLY c \in Seq(T), l \in Seq(T)
  <2>2. s \o l = q
    BY ONLY c \in Seq(T), l \in Seq(T)
  <2> HIDE DEF q, s
  <2>3. (r \o s) \o l = r \o (s \o l)
    BY ONLY l \in Seq(T), <1>4, <2>1
  <2>4. (r \o s) \o l = r \o q
    BY ONLY <2>2, <2>3, Zenon
  <2> QED BY ONLY <2>4, Zenon DEF s
<1>7. a \o (b \o l) \o l \o (c \o l) \o l = r \o q
  BY ONLY <1>1, <1>6, Zenon
<1> QED BY <1>5, <1>7, Zenon DEF TwoWritten, TwoRead, p, q

\* A sequence of two, one by one.
LEMMA TwoParts ==
  ASSUME NEW T, NEW z \in T, NEW o \in T
  PROVE  <<z, o>> = <<z>> \o <<o>>
<1>1. <<z>> \in Seq(T) /\ <<o>> \in Seq(T) /\ <<z, o>> \in Seq(T)
  OBVIOUS
<1>2. Len(<<z, o>>) = Len(<<z>>) + Len(<<o>>)
  OBVIOUS
<1>3. \A i \in 1..Len(<<z>>) : <<z, o>>[i] = <<z>>[i]
  OBVIOUS
<1>4. \A i \in 1..Len(<<o>>) : <<z, o>>[Len(<<z>>) + i] = <<o>>[i]
  OBVIOUS
<1> QED BY ONLY <1>1, <1>2, <1>3, <1>4, ConcatIs, Zenon

\* A sequence of four, one by one.
LEMMA FourParts ==
  ASSUME NEW T, NEW x \in T, NEW y \in T, NEW z \in T, NEW o \in T
  PROVE  <<x>> \o (<<y>> \o (<<z>> \o <<o>>)) = <<x, y, z, o>>
<1>1. <<z, o>> = <<z>> \o <<o>>
  BY TwoParts
<1>2. <<y, z, o>> = <<y>> \o <<z, o>>
  <2>1. /\ <<y>> \in Seq(T) /\ <<z, o>> \in Seq(T) /\ <<y, z, o>> \in Seq(T)
        /\ Len(<<y, z, o>>) = Len(<<y>>) + Len(<<z, o>>)
        /\ \A i \in 1..Len(<<y>>) : <<y, z, o>>[i] = <<y>>[i]
        /\ \A i \in 1..Len(<<z, o>>) : <<y, z, o>>[Len(<<y>>) + i] = <<z, o>>[i]
    OBVIOUS
  <2> QED BY ONLY <2>1, ConcatIs, Zenon
<1>3. <<x, y, z, o>> = <<x>> \o <<y, z, o>>
  <2>1. /\ <<x>> \in Seq(T) /\ <<y, z, o>> \in Seq(T) /\ <<x, y, z, o>> \in Seq(T)
        /\ Len(<<x, y, z, o>>) = Len(<<x>>) + Len(<<y, z, o>>)
        /\ \A i \in 1..Len(<<x>>) : <<x, y, z, o>>[i] = <<x>>[i]
        /\ \A i \in 1..Len(<<y, z, o>>) : <<x, y, z, o>>[Len(<<x>>) + i] = <<y, z, o>>[i]
    OBVIOUS
  <2> QED BY ONLY <2>1, ConcatIs, Zenon
<1> QED BY ONLY <1>1, <1>2, <1>3, Zenon

\* A text is its beginning and its end, and a longer beginning has one item more.
LEMMA Halves ==
  ASSUME NEW T, NEW s \in Seq(T), NEW k \in 0..Len(s)
  PROVE  /\ SubSeq(s, 1, k) \in Seq(T) /\ SubSeq(s, k + 1, Len(s)) \in Seq(T)
         /\ Len(SubSeq(s, 1, k)) = k /\ Len(SubSeq(s, k + 1, Len(s))) = Len(s) - k
         /\ s = SubSeq(s, 1, k) \o SubSeq(s, k + 1, Len(s))
<1>1. PICK a \in Seq(T) : /\ a = SubSeq(s, 1, k) /\ Len(a) = k
                          /\ \A i \in 1..k : s[i] = a[i]
  <2>1. SubSeq(s, 1, k) \in Seq(T) /\ Len(SubSeq(s, 1, k)) = k
        /\ \A i \in 1..k : s[i] = SubSeq(s, 1, k)[i]
    OBVIOUS
  <2> QED BY <2>1
<1>2. PICK b \in Seq(T) : /\ b = SubSeq(s, k + 1, Len(s)) /\ Len(b) = Len(s) - k
                          /\ \A i \in 1..(Len(s) - k) : s[k + i] = b[i]
  <2>1. SubSeq(s, k + 1, Len(s)) \in Seq(T) /\ Len(SubSeq(s, k + 1, Len(s))) = Len(s) - k
        /\ \A i \in 1..(Len(s) - k) : s[k + i] = SubSeq(s, k + 1, Len(s))[i]
    OBVIOUS
  <2> QED BY <2>1
<1>3. Len(s) = k + (Len(s) - k)
  OBVIOUS
<1>4. /\ Len(s) = Len(a) + Len(b) /\ \A i \in 1..Len(a) : s[i] = a[i]
      /\ \A i \in 1..Len(b) : s[Len(a) + i] = b[i]
  BY ONLY <1>1, <1>2, <1>3, Zenon
<1>5. s = a \o b
  BY ONLY s \in Seq(T), a \in Seq(T), b \in Seq(T), <1>4, ConcatIs, Zenon
<1> QED BY ONLY a \in Seq(T), b \in Seq(T), <1>1, <1>2, <1>5, Zenon

LEMMA LongerHalf ==
  ASSUME NEW T, NEW s \in Seq(T), NEW k \in 0..Len(s), k < Len(s)
  PROVE  SubSeq(s, 1, k + 1) = SubSeq(s, 1, k) \o <<s[k + 1]>>
OBVIOUS

\* The sequences of a list come before those of another.
LEMMA FlattenConcat ==
  ASSUME NEW T, NEW first \in Seq(Seq(T)), NEW seqs \in Seq(Seq(T))
  PROVE  FlattenSeq(first \o seqs) = FlattenSeq(first) \o FlattenSeq(seqs)
<1> DEFINE n == Len(seqs)
           m == Len(first)
           all == first \o seqs
<1>1. /\ n \in Nat /\ m \in Nat /\ all \in Seq(Seq(T)) /\ Len(all) = m + n
      /\ \A k \in 1..m : all[k] = first[k] /\ first[k] \in Seq(T)
      /\ \A k \in 1..n : all[m + k] = seqs[k] /\ seqs[k] \in Seq(T)
  OBVIOUS
<1> HIDE DEF all, n, m
<1>2. PICK g \in Partial(T, seqs) : FlattenSeq(seqs) = g[n]
  BY FlattenFacts DEF n
<1>3. PICK e \in Partial(T, first) : FlattenSeq(first) = e[m]
  BY FlattenFacts DEF m
<1>4. PICK f \in Partial(T, all) : FlattenSeq(all) = f[m + n]
  BY <1>1, FlattenFacts
<1>5. /\ f[0] = <<>> /\ \A i \in 1..(m + n) : f[i] = f[i - 1] \o all[i]
      /\ g[0] = <<>> /\ \A i \in 1..n : g[i] = g[i - 1] \o seqs[i]
      /\ e[0] = <<>> /\ \A i \in 1..m : e[i] = e[i - 1] \o first[i]
      /\ \A i \in 0..n : g[i] \in Seq(T)
      /\ \A i \in 0..m : e[i] \in Seq(T)
  BY <1>1 DEF Partial, n, m
<1> DEFINE L == {k \in Nat : k <= m => f[k] = e[k]}
           after(k) == e[m] \o g[k]
           K == {k \in Nat : k <= n => f[m + k] = after(k)}
<1>6. f[m] = e[m]
  <2>1. 0 \in L
    BY <1>5
  <2>2. ASSUME NEW k \in Nat, k \in L PROVE k + 1 \in L
    <3> SUFFICES ASSUME k + 1 <= m PROVE f[k + 1] = e[k + 1]
      OBVIOUS
    <3>1. k + 1 \in 1..m /\ k + 1 \in 1..(m + n) /\ (k + 1) - 1 = k /\ k <= m
      BY <1>1
    <3>2. f[k + 1] = f[k] \o first[k + 1] /\ e[k + 1] = e[k] \o first[k + 1]
      BY <1>1, <1>5, <3>1
    <3> QED BY <2>2, <3>1, <3>2
  <2>3. m \in L
    <3> HIDE DEF L
    <3> QED BY <1>1, <2>1, <2>2, Induction
  <2> QED BY <1>1, <2>3
<1> HIDE DEF L, after
<1>7. 0 \in K
  <2>1. PICK x \in Seq(T) : x = e[m]
    BY <1>1, <1>5
  <2>2. x \o <<>> = x
    BY ConcatEmpty
  <2>3. m + 0 = m
    BY <1>1
  <2> QED BY <1>5, <1>6, <2>1, <2>2, <2>3 DEF after
<1>8. ASSUME NEW k \in Nat, k \in K PROVE k + 1 \in K
  <2> SUFFICES ASSUME k + 1 <= n PROVE f[m + (k + 1)] = after(k + 1)
    OBVIOUS
  <2>1. /\ k + 1 \in 1..n /\ m + (k + 1) \in 1..(m + n) /\ k \in 0..n /\ m \in 0..m
        /\ (k + 1) - 1 = k /\ (m + (k + 1)) - 1 = m + k /\ k <= n
    BY <1>1
  <2>2. f[m + k] = after(k)
    BY <1>8, <2>1
  <2>3. f[m + (k + 1)] = f[m + k] \o seqs[k + 1]
    BY <1>1, <1>5, <2>1
  <2>4. g[k + 1] = g[k] \o seqs[k + 1]
    BY <1>5, <2>1
  <2>5. (e[m] \o g[k]) \o seqs[k + 1] = e[m] \o (g[k] \o seqs[k + 1])
    <3>1. PICK r, t, u \in Seq(T) : r = e[m] /\ t = g[k] /\ u = seqs[k + 1]
      BY <1>1, <1>5, <2>1
    <3>2. (r \o t) \o u = r \o (t \o u)
      BY ONLY r \in Seq(T), t \in Seq(T), u \in Seq(T), ConcatAssociates
    <3> QED BY <3>1, <3>2
  <2> QED BY <2>2, <2>3, <2>4, <2>5 DEF after
<1>9. n \in K
  <2> HIDE DEF K
  <2> QED BY <1>1, <1>7, <1>8, Induction
<1>10. f[m + n] = after(n)
  BY <1>1, <1>9
<1> QED BY <1>2, <1>3, <1>4, <1>10 DEF all, after

\* A list of one sequence makes that sequence.
LEMMA FlattenOne ==
  ASSUME NEW T, NEW a \in Seq(T)
  PROVE  <<a>> \in Seq(Seq(T)) /\ FlattenSeq(<<a>>) = a
<1>1. <<a>> \in Seq(Seq(T)) /\ Len(<<a>>) = 1 /\ <<a>>[1] = a
  OBVIOUS
<1>2. PICK f \in Partial(T, <<a>>) : FlattenSeq(<<a>>) = f[1]
  BY <1>1, FlattenFacts
<1>3. f[0] = <<>> /\ f[1] = f[0] \o a
  <2>1. 1 \in 1..1 /\ 1 - 1 = 0
    OBVIOUS
  <2> QED BY <1>1, <2>1 DEF Partial
<1>4. <<>> \o a = a
  BY ConcatEmpty
<1> QED BY <1>1, <1>2, <1>3, <1>4

\* The first of some sequences comes first.
LEMMA FlattenFirst ==
  ASSUME NEW T, NEW a \in Seq(T), NEW seqs \in Seq(Seq(T))
  PROVE  FlattenSeq(<<a>> \o seqs) = a \o FlattenSeq(seqs)
<1>1. <<a>> \in Seq(Seq(T)) /\ FlattenSeq(<<a>>) = a
  BY FlattenOne
<1>2. FlattenSeq(<<a>> \o seqs) = FlattenSeq(<<a>>) \o FlattenSeq(seqs)
  BY ONLY <1>1, seqs \in Seq(Seq(T)), FlattenConcat, Zenon
<1> QED BY <1>1, <1>2

\* The least of some natural numbers.
LEMMA MinOf ==
  ASSUME NEW S, S \subseteq Nat, S # {}
  PROVE  Min(S) \in S /\ \A i \in S : Min(S) <= i
BY LeastExists DEF Min

\* The largest of some numbers up to n is one of them.
LEMMA MaxOf ==
  ASSUME NEW n \in Nat, NEW S, S \subseteq 1..n, S # {}
  PROVE  Max(S) \in S /\ \A i \in S : i <= Max(S)
<1>1. \E m \in S : \A i \in S : m >= i
  BY GreatestExists
<1> QED BY <1>1 DEF Max

-----------------------------------------------------------------------------
(* Texts.                                                                  *)

\* Where a text has a delimiter, from a place on.
Finds(text, delimiter, i) ==
  {j \in i..(Len(text) - Len(delimiter) + 1) :
     SubSeq(text, j, j + Len(delimiter) - 1) = delimiter}

\* The parts of a text from a place on, g the parts from any later place.
SplitUpon(text, delimiter, g, i) ==
  IF Finds(text, delimiter, i) = {} THEN <<SubSeq(text, i, Len(text))>>
  ELSE <<SubSeq(text, i, Min(Finds(text, delimiter, i)) - 1)>>
       \o g[Min(Finds(text, delimiter, i)) + Len(delimiter)]

\* The parts of a text, from each of its places on.
Splits(T, text, delimiter) ==
  {g \in [1..(Len(text) + 1) -> Seq(Seq(T))] :
     \A i \in 1..(Len(text) + 1) : g[i] = SplitUpon(text, delimiter, g, i)}

\* The next delimiter is in the text, and so is what is before it.
LEMMA FindsNext ==
  ASSUME NEW T, NEW text \in Seq(T), NEW delimiter \in Seq(T), delimiter # <<>>,
         NEW i \in 1..(Len(text) + 1), Finds(text, delimiter, i) # {},
         NEW m, m = Min(Finds(text, delimiter, i))
  PROVE  /\ m \in i..(Len(text) - Len(delimiter) + 1) /\ i \in 1..Len(text)
         /\ m + Len(delimiter) \in (i + 1)..(Len(text) + 1)
         /\ SubSeq(text, i, m - 1) \in Seq(T)
         /\ m \in Finds(text, delimiter, i) /\ \A j \in Finds(text, delimiter, i) : m <= j
<1> DEFINE n == Len(text)
           d == Len(delimiter)
<1>1. n \in Nat /\ d \in Nat /\ d >= 1
  OBVIOUS
<1>2. Finds(text, delimiter, i) \subseteq Nat
  BY <1>1 DEF Finds
<1>3. m \in Finds(text, delimiter, i) /\ \A j \in Finds(text, delimiter, i) : m <= j
  BY <1>2, MinOf
<1>4. m \in i..(n - d + 1)
  BY <1>3 DEF Finds
<1>5. i \in 1..n /\ m + d \in (i + 1)..(n + 1)
  <2> HIDE DEF n, d
  <2> QED BY <1>1, <1>4 DEF n
<1>6. SubSeq(text, i, m - 1) \in Seq(T)
  <2>1. \A j \in i..(m - 1) : j \in 1..n
    BY <1>1, <1>4
  <2> QED BY <2>1, <1>4, <1>1
<1> QED BY <1>3, <1>4, <1>5, <1>6

\* str::split takes the parts of a text from its beginning on.
LEMMA SplitRecursion ==
  ASSUME NEW T, NEW text \in Seq(T), NEW delimiter \in Seq(T), delimiter # <<>>
  PROVE  \E g \in Splits(T, text, delimiter) : Split(text, delimiter) = g[1]
<1> DEFINE n == Len(text)
           d == Len(delimiter)
           found(i) == Finds(text, delimiter, i)
           upon(g, i) == SplitUpon(text, delimiter, g, i)
           parts == CHOOSE g : g = [i \in 1..(n + 1) |-> upon(g, i)]
           next == [i \in 1..n |-> IF found(i) = {} THEN n + 1 ELSE Min(found(i)) + d]
           S == Seq(Seq(T))
           step == [i \in 1..n |-> [s \in S |->
                      IF found(i) = {} THEN <<SubSeq(text, i, n)>>
                      ELSE <<SubSeq(text, i, Min(found(i)) - 1)>> \o s]]
           base == <<SubSeq(text, n + 1, n)>>
<1>1. n \in Nat /\ d \in Nat /\ d >= 1
  OBVIOUS
<1>2. ASSUME NEW i \in 1..(n + 1), found(i) # {}
      PROVE  /\ Min(found(i)) \in i..(n - d + 1) /\ i \in 1..n
             /\ Min(found(i)) + d \in (i + 1)..(n + 1)
             /\ SubSeq(text, i, Min(found(i)) - 1) \in Seq(T)
  BY <1>2, FindsNext
<1>3. \A i \in 1..(n + 1) : SubSeq(text, i, n) \in Seq(T)
  OBVIOUS
<1>4. \A x \in Seq(T) : <<x>> \in S /\ <<x>>[1] = x
  OBVIOUS
<1>5. \A x \in Seq(T), s \in S : <<x>> \o s \in S /\ (<<x>> \o s)[1] = x
  OBVIOUS
<1> HIDE DEF found, n, d, S
<1>6. base \in S /\ step \in [1..n -> [S -> S]]
  <2>1. n + 1 \in 1..(n + 1) /\ \A i \in 1..n : i \in 1..(n + 1)
    BY <1>1
  <2>2. ASSUME NEW i \in 1..n
        PROVE  \A s \in S : (IF found(i) = {} THEN <<SubSeq(text, i, n)>>
                             ELSE <<SubSeq(text, i, Min(found(i)) - 1)>> \o s) \in S
    BY <1>4, <1>2, <1>3, <1>5, <2>1
  <2>3. base \in S
    <3>1. PICK x \in Seq(T) : x = SubSeq(text, n + 1, n)
      BY <1>3, <2>1
    <3>2. <<x>> \in S
      BY <1>4
    <3> QED BY <3>1, <3>2
  <2>4. step \in [1..n -> [S -> S]]
    BY <2>2
  <2> QED BY <2>3, <2>4
<1>7. next \in [1..n -> 1..(n + 1)] /\ \A i \in 1..n : i < next[i]
  <2>1. ASSUME NEW i \in 1..n
        PROVE  /\ (IF found(i) = {} THEN n + 1 ELSE Min(found(i)) + d) \in 1..(n + 1)
               /\ i < IF found(i) = {} THEN n + 1 ELSE Min(found(i)) + d
    <3>1. i \in 1..(n + 1)
      BY <1>1
    <3>2. CASE found(i) = {}
      BY <1>1, <3>2
    <3>3. CASE found(i) # {}
      <4>1. PICK m \in (i + 1)..(n + 1) : m = Min(found(i)) + d
        BY <1>2, <3>1, <3>3
      <4> QED BY <1>1, <3>3, <4>1
    <3> QED BY <3>2, <3>3
  <2> QED BY <2>1
<1>8. PICK f \in FromEnd(S, n, base, step, next) : TRUE
  <2>1. n \in Nat /\ base \in S /\ step \in [1..n -> [S -> S]]
        /\ next \in [1..n -> 1..(n + 1)] /\ \A i \in 1..n : i < next[i]
    BY <1>1, <1>6, <1>7
  <2> HIDE DEF base, step, next
  <2>2. FromEnd(S, n, base, step, next) # {}
    BY ONLY <2>1, RecursionFromEnd
  <2> QED BY <2>2
<1>9. f = [i \in 1..(n + 1) |-> upon(f, i)]
  <2>1. /\ f \in [1..(n + 1) -> S] /\ f[n + 1] = base
        /\ \A i \in 1..n : f[i] = step[i][f[next[i]]]
    BY <1>8 DEF FromEnd
  <2>2. ASSUME NEW i \in 1..(n + 1) PROVE f[i] = upon(f, i)
    <3>1. CASE i = n + 1
      <4>1. found(i) = {}
        BY <1>1, <1>2, <3>1
      <4> HIDE DEF step, next
      <4> QED BY <2>1, <3>1, <4>1 DEF SplitUpon, found, n
    <3>2. CASE i # n + 1
      <4>1. i \in 1..n
        BY <1>1, <3>2
      <4>2. next[i] \in 1..(n + 1) /\ f[i] = step[i][f[next[i]]]
        BY <1>7, <2>1, <4>1
      <4>3. f[next[i]] \in S
        BY <2>1, <4>2
      <4>4. next[i] = IF found(i) = {} THEN n + 1 ELSE Min(found(i)) + d
        BY <4>1
      <4>5. f[i] = IF found(i) = {} THEN <<SubSeq(text, i, n)>>
                   ELSE <<SubSeq(text, i, Min(found(i)) - 1)>> \o f[next[i]]
        <5> HIDE DEF next
        <5> QED BY <4>1, <4>2, <4>3
      <4> HIDE DEF next, step, base
      <4> QED BY <4>4, <4>5 DEF SplitUpon, found, n, d
    <3> QED BY <3>1, <3>2
  <2> HIDE DEF upon
  <2> QED BY <2>1, <2>2
<1>10. parts = [i \in 1..(n + 1) |-> upon(parts, i)]
  <2> HIDE DEF upon
  <2> QED BY <1>9
<1>11. f = parts
  <2>1. \A g : g = [i \in 1..(n + 1) |-> upon(g, i)] => \A i \in 1..(n + 1) : g[i] = upon(g, i)
    <3> HIDE DEF upon
    <3> QED OBVIOUS
  <2> DEFINE K == {i \in Nat : f[i] = parts[i]}
  <2> HIDE DEF parts, step, next, base
  <2>2. n + 1 \in K
    <3>1. n + 1 \in 1..(n + 1) /\ n + 1 \in Nat
      BY <1>1
    <3>2. found(n + 1) = {}
      BY <1>1, <1>2, <3>1
    <3>3. f[n + 1] = upon(f, n + 1) /\ parts[n + 1] = upon(parts, n + 1)
      BY <1>9, <1>10, <2>1, <3>1
    <3> QED BY <3>1, <3>2, <3>3 DEF SplitUpon, found
  <2>3. ASSUME NEW i \in 1..n, \A j \in (i + 1)..(n + 1) : j \in K PROVE i \in K
    <3>1. i \in 1..(n + 1) /\ i \in Nat
      BY <1>1
    <3>2. f[i] = upon(f, i) /\ parts[i] = upon(parts, i)
      BY <1>9, <1>10, <2>1, <3>1
    <3>3. CASE found(i) = {}
      BY <3>1, <3>2, <3>3 DEF SplitUpon, found
    <3>4. CASE found(i) # {}
      <4>1. PICK m : m = Min(found(i)) + d
        OBVIOUS
      <4>2. f[m] = parts[m]
        BY <1>2, <2>3, <3>1, <3>4, <4>1
      <4>3. upon(f, i) = upon(parts, i)
        BY <3>4, <4>1, <4>2 DEF SplitUpon, found, d
      <4> QED BY <3>1, <3>2, <4>3
    <3> QED BY <3>3, <3>4
  <2>4. \A i \in 1..(n + 1) : i \in K
    <3> HIDE DEF K
    <3> QED BY <1>1, <2>2, <2>3, DownwardInduction
  <2>5. \A i \in 1..(n + 1) : f[i] = parts[i]
    BY <2>4
  <2> QED BY <1>9, <1>10, <2>5
<1>12. Split(text, delimiter) = parts[1]
  BY DEF Split, parts, n, d, SplitUpon, Finds
<1>13. parts \in [1..(n + 1) -> S] /\ \A i \in 1..(n + 1) : parts[i] = upon(parts, i)
  <2>1. f \in [1..(n + 1) -> S]
    BY <1>8 DEF FromEnd
  <2>2. \A i \in 1..(n + 1) : f[i] = upon(f, i)
    <3> HIDE DEF upon
    <3> QED BY <1>9
  <2> HIDE DEF upon, parts
  <2> QED BY <1>11, <2>1, <2>2
<1>14. parts \in Splits(T, text, delimiter)
  <2> HIDE DEF parts
  <2> QED BY <1>13 DEF Splits, n, S
<1> QED BY <1>12, <1>14

\* What is before a place in a text, and what is after it.
LEMMA SubSeqLeft ==
  ASSUME NEW T, NEW s \in Seq(T), NEW t \in Seq(T), NEW i \in 1..(Len(s) + 1),
         NEW j \in (i - 1)..Len(s)
  PROVE  SubSeq(s \o t, i, j) = SubSeq(s, i, j)
OBVIOUS

LEMMA SubSeqRight ==
  ASSUME NEW T, NEW s \in Seq(T), NEW t \in Seq(T), NEW i \in 1..(Len(t) + 1),
         NEW j \in (i - 1)..Len(t)
  PROVE  SubSeq(s \o t, Len(s) + i, Len(s) + j) = SubSeq(t, i, j)
OBVIOUS

LEMMA SubSeqAll ==
  ASSUME NEW T, NEW s \in Seq(T)
  PROVE  SubSeq(s, 1, Len(s)) = s
OBVIOUS

\* A text without the delimiter is its only part.
LEMMA SplitWhole ==
  ASSUME NEW T, NEW text \in Seq(T), NEW delimiter \in Seq(T), delimiter # <<>>,
         Finds(text, delimiter, 1) = {}
  PROVE  Split(text, delimiter) = <<text>>
<1>1. PICK g \in Splits(T, text, delimiter) : Split(text, delimiter) = g[1]
  BY SplitRecursion
<1>2. 1 \in 1..(Len(text) + 1)
  OBVIOUS
<1>3. g[1] = <<SubSeq(text, 1, Len(text))>>
  BY <1>1, <1>2 DEF Splits, SplitUpon
<1> QED BY <1>1, <1>3, SubSeqAll

\* The first part of a text that is split is what it begins with.
LEMMA SplitBegins ==
  ASSUME NEW T, NEW text \in Seq(T), NEW delimiter \in Seq(T), delimiter # <<>>
  PROVE  /\ Split(text, delimiter) \in Seq(Seq(T))
         /\ \E k \in 0..Len(text) : Split(text, delimiter)[1] = SubSeq(text, 1, k)
<1>1. PICK g \in Splits(T, text, delimiter) : Split(text, delimiter) = g[1]
  BY SplitRecursion
<1>2. 1 \in 1..(Len(text) + 1) /\ Len(text) \in 0..Len(text)
  OBVIOUS
<1>3. g[1] \in Seq(Seq(T)) /\ g[1] = SplitUpon(text, delimiter, g, 1)
  BY <1>1, <1>2 DEF Splits
<1>4. CASE Finds(text, delimiter, 1) = {}
  <2>1. g[1] = <<SubSeq(text, 1, Len(text))>>
    BY <1>3, <1>4 DEF SplitUpon
  <2>2. g[1][1] = SubSeq(text, 1, Len(text))
    BY <2>1
  <2> QED BY <1>1, <1>2, <1>3, <2>2
<1>5. CASE Finds(text, delimiter, 1) # {}
  <2>1. PICK m : m = Min(Finds(text, delimiter, 1))
    OBVIOUS
  <2>2. /\ m \in 1..(Len(text) - Len(delimiter) + 1)
        /\ m + Len(delimiter) \in (1 + 1)..(Len(text) + 1)
        /\ SubSeq(text, 1, m - 1) \in Seq(T)
    BY <1>2, <1>5, <2>1, FindsNext
  <2>3. m - 1 \in 0..Len(text) /\ m + Len(delimiter) \in 1..(Len(text) + 1)
    BY <2>2
  <2>4. g[m + Len(delimiter)] \in Seq(Seq(T))
    BY <1>1, <2>3 DEF Splits
  <2>5. g[1] = <<SubSeq(text, 1, m - 1)>> \o g[m + Len(delimiter)]
    BY <1>3, <1>5, <2>1 DEF SplitUpon
  <2>6. PICK x \in Seq(T), r \in Seq(Seq(T)) :
          x = SubSeq(text, 1, m - 1) /\ r = g[m + Len(delimiter)]
    BY <2>2, <2>4
  <2>7. (<<x>> \o r)[1] = x
    OBVIOUS
  <2> QED BY <1>1, <1>3, <2>3, <2>5, <2>6, <2>7
<1> QED BY <1>4, <1>5

\* Up to the first delimiter is the first part, and the others are those of the rest.
LEMMA SplitFirst ==
  ASSUME NEW T, NEW a \in Seq(T), NEW delimiter \in Seq(T), delimiter # <<>>,
         NEW rest \in Seq(T), NEW text, text = (a \o delimiter) \o rest,
         \A j \in 1..Len(a) : SubSeq(text, j, j + Len(delimiter) - 1) # delimiter
  PROVE  Split(text, delimiter) = <<a>> \o Split(rest, delimiter)
<1>1. PICK p \in Seq(T) : p = a \o delimiter /\ Len(p) = Len(a) + Len(delimiter)
  <2>1. a \o delimiter \in Seq(T) /\ Len(a \o delimiter) = Len(a) + Len(delimiter)
    OBVIOUS
  <2> QED BY <2>1
<1>2. PICK n, d, e, k \in Nat :
        n = Len(rest) /\ d = Len(delimiter) /\ e = Len(a) /\ k = Len(p) /\ k = e + d /\ d >= 1
  BY <1>1
<1>3. text \in Seq(T) /\ Len(text) = k + n /\ text = p \o rest
  BY <1>1, <1>2
<1>4. PICK g \in Splits(T, text, delimiter) : Split(text, delimiter) = g[1]
  BY <1>3, SplitRecursion
<1>5. PICK h \in Splits(T, rest, delimiter) : Split(rest, delimiter) = h[1]
  BY SplitRecursion
<1>6. /\ \A i \in 1..(k + n + 1) : g[i] = SplitUpon(text, delimiter, g, i)
      /\ \A i \in 1..(n + 1) : h[i] = SplitUpon(rest, delimiter, h, i)
  BY <1>2, <1>3, <1>4, <1>5 DEF Splits
<1>7. \A i \in 1..(n + 1), j \in 0..n : j >= i - 1 =>
         SubSeq(text, k + i, k + j) = SubSeq(rest, i, j)
  <2> SUFFICES ASSUME NEW i \in 1..(n + 1), NEW j \in 0..n, j >= i - 1
               PROVE  SubSeq(text, k + i, k + j) = SubSeq(rest, i, j)
    OBVIOUS
  <2>1. i \in 1..(Len(rest) + 1) /\ j \in (i - 1)..Len(rest)
    BY <1>2
  <2>2. SubSeq(p \o rest, Len(p) + i, Len(p) + j) = SubSeq(rest, i, j)
    BY ONLY p \in Seq(T), rest \in Seq(T), <2>1, SubSeqRight, Zenon
  <2> QED BY ONLY <1>2, <1>3, <2>2, Zenon
<1>0. /\ \A i : Finds(text, delimiter, i)
               = {j \in i..(k + n - d + 1) : SubSeq(text, j, j + d - 1) = delimiter}
      /\ \A i : Finds(rest, delimiter, i)
               = {j \in i..(n - d + 1) : SubSeq(rest, j, j + d - 1) = delimiter}
  BY <1>2, <1>3 DEF Finds
<1>8. ASSUME NEW i \in 1..(n + 1)
      PROVE  /\ \A j \in Finds(rest, delimiter, i) : k + j \in Finds(text, delimiter, k + i)
             /\ \A j \in Finds(text, delimiter, k + i) : j - k \in Finds(rest, delimiter, i)
  <2>1. ASSUME NEW j \in i..(n - d + 1)
        PROVE  /\ SubSeq(text, k + j, k + j + d - 1) = SubSeq(rest, j, j + d - 1)
               /\ k + j \in (k + i)..(k + n - d + 1)
    <3>1. j \in 1..(n + 1) /\ j + d - 1 \in 0..n /\ j + d - 1 >= j - 1
          /\ k + (j + d - 1) = k + j + d - 1 /\ k + j \in (k + i)..(k + n - d + 1)
      BY <1>2, <2>1
    <3> QED BY <1>7, <3>1
  <2>2. \A j \in (k + i)..(k + n - d + 1) :
          j - k \in i..(n - d + 1) /\ k + (j - k) = j
    BY <1>2
  <2>3. ASSUME NEW j \in Finds(rest, delimiter, i) PROVE k + j \in Finds(text, delimiter, k + i)
    <3>1. j \in i..(n - d + 1) /\ SubSeq(rest, j, j + d - 1) = delimiter
      BY <1>0, <2>3
    <3> QED BY <1>0, <2>1, <3>1
  <2>4. ASSUME NEW j \in Finds(text, delimiter, k + i) PROVE j - k \in Finds(rest, delimiter, i)
    <3>1. j \in (k + i)..(k + n - d + 1) /\ SubSeq(text, j, j + d - 1) = delimiter
      BY <1>0, <2>4
    <3>2. PICK l \in i..(n - d + 1) : l = j - k /\ k + l = j
      BY <2>2, <3>1
    <3>3. SubSeq(text, k + l, k + l + d - 1) = SubSeq(rest, l, l + d - 1)
      BY ONLY <2>1, <3>2, Zenon
    <3>4. SubSeq(rest, l, l + d - 1) = delimiter
      BY ONLY <3>1, <3>2, <3>3, Zenon
    <3> QED BY ONLY <1>0, <3>2, <3>4, Zenon
  <2> QED BY <2>3, <2>4
<1> DEFINE K == {i \in Nat : g[k + i] = h[i]}
<1>9. ASSUME NEW i \in 1..(n + 1), \A j \in (i + 1)..(n + 1) : j \in K
      PROVE  i \in K
  <2>1. k + i \in 1..(k + n + 1) /\ i \in Nat /\ k + i \in 1..(Len(text) + 1)
        /\ i \in 1..(Len(rest) + 1)
    BY <1>2, <1>3
  <2>2. g[k + i] = SplitUpon(text, delimiter, g, k + i) /\ h[i] = SplitUpon(rest, delimiter, h, i)
    BY <1>6, <2>1
  <2>3. CASE Finds(rest, delimiter, i) = {}
    <3>1. Finds(text, delimiter, k + i) = {}
      BY <1>8, <2>3
    <3>2. SubSeq(text, k + i, k + n) = SubSeq(rest, i, n)
      <4>1. n \in 0..n /\ n >= i - 1
        BY <1>2
      <4> QED BY <1>7, <4>1
    <3> QED BY <1>2, <1>3, <2>1, <2>2, <2>3, <3>1, <3>2 DEF SplitUpon
  <2>4. CASE Finds(rest, delimiter, i) # {}
    <3>1. PICK m : m = Min(Finds(rest, delimiter, i))
      OBVIOUS
    <3>2. PICK o : o = Min(Finds(text, delimiter, k + i))
      OBVIOUS
    <3>3. /\ m \in i..(n - d + 1) /\ m + d \in (i + 1)..(n + 1)
          /\ m \in Finds(rest, delimiter, i) /\ \A j \in Finds(rest, delimiter, i) : m <= j
      BY <1>2, <2>1, <2>4, <3>1, FindsNext
    <3>4. Finds(text, delimiter, k + i) # {}
      BY <1>8, <3>3
    <3>5. /\ o \in (k + i)..(k + n - d + 1)
          /\ o \in Finds(text, delimiter, k + i) /\ \A j \in Finds(text, delimiter, k + i) : o <= j
      <4>1. /\ o \in Finds(text, delimiter, k + i)
            /\ \A j \in Finds(text, delimiter, k + i) : o <= j
        <5>1. text \in Seq(T) /\ delimiter \in Seq(T)
          BY <1>3
        <5> QED BY ONLY delimiter # <<>>, <2>1, <3>2, <3>4, <5>1, FindsNext
      <4> QED BY <1>0, <4>1
    <3>6. o <= k + m /\ m <= o - k
      <4>1. k + m \in Finds(text, delimiter, k + i) /\ o - k \in Finds(rest, delimiter, i)
        BY <1>8, <3>3, <3>5
      <4> QED BY <3>3, <3>5, <4>1
    <3>7. o = k + m
      <4>1. o \in Int /\ m \in Int
        BY <1>2, <3>3, <3>5
      <4> QED BY ONLY k \in Nat, <3>6, <4>1
    <3>8. g[k + i] = <<SubSeq(text, k + i, o - 1)>> \o g[o + d]
      BY <1>2, <2>2, <3>2, <3>4 DEF SplitUpon
    <3>9. h[i] = <<SubSeq(rest, i, m - 1)>> \o h[m + d]
      BY <1>2, <2>2, <2>4, <3>1 DEF SplitUpon
    <3>10. m - 1 \in 0..n /\ m - 1 >= i - 1 /\ k + (m - 1) = o - 1 /\ k + (m + d) = o + d
      BY <1>2, <3>3, <3>7
    <3>11. SubSeq(text, k + i, o - 1) = SubSeq(rest, i, m - 1)
      BY <1>7, <3>10
    <3>12. g[o + d] = h[m + d]
      BY <1>9, <3>3, <3>10
    <3> QED BY <2>1, <3>8, <3>9, <3>11, <3>12
  <2> QED BY <2>3, <2>4
<1>10. g[k + 1] = h[1]
  <2>1. n + 1 \in K
    <3>1. n + 1 \in 1..(n + 1) /\ \A j \in ((n + 1) + 1)..(n + 1) : FALSE
      BY <1>2
    <3> QED BY <1>9, <3>1
  <2>2. \A i \in 1..n : i \in 1..(n + 1)
    BY <1>2
  <2>3. \A i \in 1..(n + 1) : i \in K
    <3> HIDE DEF K
    <3> QED BY <1>2, <1>9, <2>1, <2>2, DownwardInduction
  <2>4. 1 \in 1..(n + 1)
    BY <1>2
  <2> QED BY <2>3, <2>4
<1>11. SubSeq(text, e + 1, e + d) = delimiter /\ SubSeq(text, 1, e) = a
  <2>1. /\ 1 \in 1..(Len(delimiter) + 1) /\ Len(delimiter) \in (1 - 1)..Len(delimiter)
        /\ e + 1 \in 1..(Len(p) + 1) /\ e + d \in (e + 1 - 1)..Len(p)
        /\ 1 \in 1..(Len(p) + 1) /\ e \in (1 - 1)..Len(p)
        /\ 1 \in 1..(Len(a) + 1) /\ e \in (1 - 1)..Len(a)
    BY <1>2
  <2>2. SubSeq(a \o delimiter, Len(a) + 1, Len(a) + Len(delimiter)) = delimiter
    <3>1. SubSeq(a \o delimiter, Len(a) + 1, Len(a) + Len(delimiter))
            = SubSeq(delimiter, 1, Len(delimiter))
      BY ONLY a \in Seq(T), delimiter \in Seq(T), <2>1, SubSeqRight, Zenon
    <3> QED BY ONLY <3>1, delimiter \in Seq(T), SubSeqAll, Zenon
  <2>3. SubSeq(p, e + 1, e + d) = delimiter
    BY ONLY <1>1, <1>2, <2>2, Zenon
  <2>4. SubSeq(p \o rest, e + 1, e + d) = SubSeq(p, e + 1, e + d)
    BY ONLY p \in Seq(T), rest \in Seq(T), <2>1, SubSeqLeft
  <2>5. SubSeq(p \o rest, 1, e) = SubSeq(p, 1, e)
    BY ONLY p \in Seq(T), rest \in Seq(T), <2>1, SubSeqLeft, Zenon
  <2>6. SubSeq(a \o delimiter, 1, e) = SubSeq(a, 1, e)
    BY ONLY a \in Seq(T), delimiter \in Seq(T), <2>1, SubSeqLeft, Zenon
  <2>7. SubSeq(a, 1, e) = a
    BY ONLY a \in Seq(T), <1>2, SubSeqAll, Zenon
  <2> QED BY ONLY <1>1, <1>3, <2>3, <2>4, <2>5, <2>6, <2>7, Zenon
<1>12. e + 1 \in Finds(text, delimiter, 1) /\ \A j \in Finds(text, delimiter, 1) : e + 1 <= j
  <2>1. e + 1 \in 1..(k + n - d + 1) /\ (e + 1) + d - 1 = e + d
    BY <1>2
  <2>2. ASSUME NEW j \in Finds(text, delimiter, 1) PROVE e + 1 <= j
    <3>1. j \in 1..(k + n - d + 1) /\ SubSeq(text, j, j + d - 1) = delimiter
      BY <1>0, <2>2
    <3>2. j \notin 1..e
      BY <1>2, <3>1
    <3> QED BY <1>2, <3>1, <3>2
  <2>3. e + 1 \in Finds(text, delimiter, 1)
    BY <1>0, <1>11, <2>1
  <2> QED BY <2>2, <2>3
<1>13. Min(Finds(text, delimiter, 1)) = e + 1
  <2>1. PICK m : m = Min(Finds(text, delimiter, 1))
    OBVIOUS
  <2>2. 1 \in 1..(Len(text) + 1)
    BY <1>3
  <2>3. /\ m \in 1..(Len(text) - Len(delimiter) + 1)
        /\ m \in Finds(text, delimiter, 1) /\ \A j \in Finds(text, delimiter, 1) : m <= j
    <3>1. Finds(text, delimiter, 1) # {}
      BY <1>12
    <3>2. text \in Seq(T) /\ delimiter \in Seq(T)
      BY <1>3
    <3> QED BY ONLY delimiter # <<>>, <2>1, <2>2, <3>1, <3>2, FindsNext
  <2>4. m <= e + 1 /\ e + 1 <= m
    BY <1>12, <2>3
  <2> QED BY <1>2, <2>1, <2>3, <2>4
<1>14. g[1] = <<SubSeq(text, 1, e)>> \o g[k + 1]
  <2>1. 1 \in 1..(k + n + 1) /\ (e + 1) - 1 = e /\ (e + 1) + d = k + 1
    BY <1>2
  <2>2. g[1] = SplitUpon(text, delimiter, g, 1)
    BY <1>6, <2>1
  <2> QED BY <1>2, <1>12, <1>13, <2>1, <2>2 DEF SplitUpon
<1> QED BY <1>4, <1>5, <1>10, <1>11, <1>14

LEMMA SubSeqOne ==
  ASSUME NEW T, NEW text \in Seq(T), NEW j \in 1..Len(text)
  PROVE  SubSeq(text, j, j)[1] = text[j]
OBVIOUS

\* A part without the token is a part for split.
LEMMA TokenFound ==
  ASSUME NEW T, NEW text \in Seq(T), NEW token \in T, NEW j \in 1..Len(text),
         SubSeq(text, j, j) = <<token>>
  PROVE  text[j] = token
<1>1. SubSeq(text, j, j)[1] = text[j]
  BY ONLY text \in Seq(T), j \in 1..Len(text), SubSeqOne, Zenon
<1>2. <<token>>[1] = token
  OBVIOUS
<1> QED BY <1>1, <1>2

LEMMA SplitAtToken ==
  ASSUME NEW T, NEW token \in T, NEW a \in Seq(T), NEW rest \in Seq(T),
         \A j \in 1..Len(a) : a[j] # token
  PROVE  Split((a \o <<token>>) \o rest, <<token>>) = <<a>> \o Split(rest, <<token>>)
<1>1. PICK d \in Seq(T) : d = <<token>> /\ d # <<>> /\ Len(d) = 1
  <2>1. <<token>> \in Seq(T) /\ <<token>> # <<>> /\ Len(<<token>>) = 1
    OBVIOUS
  <2> QED BY <2>1
<1>2. PICK b, text : b = a \o d /\ text = b \o rest
  OBVIOUS
<1>3. b \in Seq(T) /\ Len(b) = Len(a) + Len(d) /\ \A i \in 1..Len(a) : b[i] = a[i]
  BY ONLY a \in Seq(T), d \in Seq(T), <1>2, ConcatParts
<1>4. text \in Seq(T) /\ Len(text) = Len(b) + Len(rest) /\ \A i \in 1..Len(b) : text[i] = b[i]
  BY ONLY rest \in Seq(T), <1>2, <1>3, ConcatParts
<1>5. ASSUME NEW j \in 1..Len(a)
      PROVE  j \in 1..Len(text) /\ text[j] = a[j] /\ j + Len(d) - 1 = j
  <2>1. PICK n, m \in Nat : n = Len(a) /\ m = Len(rest)
    OBVIOUS
  <2>2. Len(b) = n + 1 /\ Len(text) = (n + 1) + m
    BY <1>1, <1>3, <1>4, <2>1
  <2>3. j \in 1..(n + 1) /\ j \in 1..((n + 1) + m) /\ j + 1 - 1 = j
    BY <2>1
  <2>4. b[j] = a[j]
    BY <1>3
  <2> QED BY <1>1, <1>4, <2>2, <2>3, <2>4
<1>6. \A j \in 1..Len(a) : SubSeq(text, j, j + Len(d) - 1) # d
  BY <1>1, <1>4, <1>5, TokenFound
<1>7. text = (a \o d) \o rest
  BY <1>2
<1>8. d # <<>>
  BY <1>1
<1>9. Split(text, d) = <<a>> \o Split(rest, d)
  BY ONLY a \in Seq(T), d \in Seq(T), rest \in Seq(T), <1>6, <1>7, <1>8, SplitFirst, Zenon
<1> QED BY <1>1, <1>7, <1>9

LEMMA SplitNowhere ==
  ASSUME NEW T, NEW token \in T, NEW a \in Seq(T), \A j \in 1..Len(a) : a[j] # token
  PROVE  Split(a, <<token>>) = <<a>>
<1>1. PICK d \in Seq(T) : d = <<token>> /\ d # <<>> /\ Len(d) = 1
  <2>1. <<token>> \in Seq(T) /\ <<token>> # <<>> /\ Len(<<token>>) = 1
    OBVIOUS
  <2> QED BY <2>1
<1>2. \A j \in 1..(Len(a) - Len(d) + 1) : j \in 1..Len(a) /\ j + Len(d) - 1 = j
  BY <1>1
<1>3. Finds(a, d, 1) = {}
  BY <1>1, <1>2, TokenFound DEF Finds
<1> QED BY <1>1, <1>3, SplitWhole
=============================================================================
