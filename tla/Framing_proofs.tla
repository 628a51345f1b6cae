---------------------------- MODULE Framing_proofs ----------------------------
(***************************************************************************)
(* Proofs about Framing: what is written is parsed as it was, and the      *)
(* reader's loop routes the packets that were written, however the stream  *)
(* is cut into reads.                                                      *)
(***************************************************************************)
EXTENDS Framing, DataTheorems, SequenceTheorems

-----------------------------------------------------------------------------
(* Numbers.                                                                *)

\* The ten digits, and what each counts.
LEMMA DigitFacts ==
  /\ ToSet(Digits) = {"0", "1", "2", "3", "4", "5", "6", "7", "8", "9"}
  /\ \A i \in 0..9 : Digits[i + 1] \in ToSet(Digits) /\ Digit(Digits[i + 1]) = i
  /\ \A d \in ToSet(Digits) : Digit(d) \in 0..9
<1>1. DOMAIN Digits = 1..10
  BY DEF Digits
<1>2. ToSet(Digits) = {"0", "1", "2", "3", "4", "5", "6", "7", "8", "9"}
  BY <1>1 DEF ToSet, Digits
<1>3. \A i \in 0..9 : Digits[i + 1] \in ToSet(Digits)
  BY <1>1 DEF ToSet
<1>4. \A i, j \in 0..9 : Digits[i + 1] = Digits[j + 1] => i = j
  BY DEF Digits
<1>5. \A i \in 0..9 : Digit(Digits[i + 1]) = i
  BY <1>4 DEF Digit
<1>6. \A d \in ToSet(Digits) : \E i \in 0..9 : d = Digits[i + 1]
  <2>1. \A i \in 1..10 : i - 1 \in 0..9 /\ (i - 1) + 1 = i
    OBVIOUS
  <2> QED BY <1>1, <2>1 DEF ToSet
<1> QED BY <1>2, <1>3, <1>5, <1>6

\* What the first digits of a text count.
Counted(text) ==
  {f \in [0..Len(text) -> Nat] : /\ f[0] = 0
                                 /\ \A i \in 1..Len(text) : f[i] = 10 * f[i - 1] + Digit(text[i])}

\* str::parse takes the digits one after the other.
LEMMA NumberFacts ==
  ASSUME NEW text \in Seq(ToSet(Digits))
  PROVE  \E f \in Counted(text) : Number(text) = f[Len(text)]
<1> DEFINE n == Len(text)
           upon(g, i) == IF i = 0 THEN 0 ELSE 10 * g[i - 1] + Digit(text[i])
           number == CHOOSE g : g = [i \in 0..n |-> upon(g, i)]
           step == [i \in 1..n |-> [k \in Nat |-> 10 * k + Digit(text[i])]]
<1>1. n \in Nat /\ \A i \in 1..n : Digit(text[i]) \in Nat
  <2>1. n \in Nat /\ \A i \in 1..n : text[i] \in ToSet(Digits)
    OBVIOUS
  <2>2. \A d \in ToSet(Digits) : Digit(d) \in Nat
    <3>1. \A k \in 0..9 : k \in Nat
      OBVIOUS
    <3> QED BY ONLY <3>1, DigitFacts
  <2> HIDE DEF n
  <2> QED BY ONLY <2>1, <2>2
<1>2. Number(text) = number[n]
  BY DEF Number
<1> HIDE DEF n
<1>3. PICK f : f \in FromStart(Nat, n, 0, step)
  <2>1. step \in [1..n -> [Nat -> Nat]]
    BY <1>1
  <2> HIDE DEF step
  <2>2. FromStart(Nat, n, 0, step) # {}
    BY ONLY <1>1, <2>1, 0 \in Nat, RecursionFromStart
  <2> QED BY <2>2
<1>4. /\ f \in [0..n -> Nat] /\ f[0] = 0
      /\ \A i \in 1..n : f[i] = 10 * f[i - 1] + Digit(text[i])
  <2>1. f \in [0..n -> Nat] /\ f[0] = 0 /\ \A i \in 1..n : f[i] = step[i][f[i - 1]]
    BY <1>3 DEF FromStart
  <2>2. \A i \in 1..n : i - 1 \in 0..n
    BY <1>1
  <2>3. \A i \in 1..n, k \in Nat : step[i][k] = 10 * k + Digit(text[i])
    OBVIOUS
  <2> HIDE DEF step
  <2>4. ASSUME NEW i \in 1..n PROVE f[i] = 10 * f[i - 1] + Digit(text[i])
    <3>1. f[i - 1] \in Nat
      BY <2>1, <2>2
    <3> QED BY <2>1, <2>3, <3>1
  <2> QED BY <2>1, <2>4
<1>5. f = [i \in 0..n |-> upon(f, i)]
  <2>1. \A i \in 0..n : i = 0 \/ i \in 1..n
    BY <1>1
  <2>2. \A i \in 0..n : f[i] = upon(f, i)
    BY <1>4, <2>1
  <2> HIDE DEF upon
  <2> QED BY <1>4, <2>2
<1>6. number = [i \in 0..n |-> upon(number, i)]
  <2> HIDE DEF upon
  <2> QED BY <1>5
<1> HIDE DEF step, number
<1>7. \A i \in 0..n : number[i] = upon(number, i)
  <2> HIDE DEF upon
  <2> QED BY <1>6
<1> DEFINE K == {i \in Nat : i <= n => number[i] = f[i]}
<1>8. 0 \in K
  BY <1>1, <1>4, <1>7
<1>9. ASSUME NEW i \in Nat, i \in K PROVE i + 1 \in K
  <2> SUFFICES ASSUME i + 1 <= n PROVE number[i + 1] = f[i + 1]
    OBVIOUS
  <2>1. i + 1 \in 0..n /\ i + 1 \in 1..n /\ i + 1 # 0 /\ (i + 1) - 1 = i /\ i <= n
    BY <1>1
  <2>2. number[i + 1] = 10 * number[i] + Digit(text[i + 1])
    BY <1>7, <2>1
  <2>3. number[i] = f[i]
    BY <1>9, <2>1
  <2> QED BY <1>4, <2>1, <2>2, <2>3
<1>10. n \in K
  <2> HIDE DEF K
  <2> QED BY <1>1, <1>8, <1>9, Induction
<1>11. number[n] = f[n]
  BY <1>1, <1>10
<1>12. f \in Counted(text)
  BY <1>4 DEF Counted, n
<1> QED BY <1>2, <1>11, <1>12 DEF n

LEMMA NumberTyped ==
  ASSUME NEW text \in Seq(ToSet(Digits))
  PROVE  Number(text) \in Nat
<1>1. Len(text) \in 0..Len(text)
  OBVIOUS
<1> QED BY <1>1, NumberFacts DEF Counted

\* A digit more makes ten times the number and what the digit counts.
LEMMA NumberLonger ==
  ASSUME NEW a \in Seq(ToSet(Digits)), NEW d \in ToSet(Digits)
  PROVE  a \o <<d>> \in Seq(ToSet(Digits)) /\ Number(a \o <<d>>) = 10 * Number(a) + Digit(d)
<1>1. PICK b \in Seq(ToSet(Digits)) :
        /\ b = a \o <<d>> /\ Len(b) = Len(a) + 1 /\ b[Len(a) + 1] = d
        /\ \A i \in 1..Len(a) : b[i] = a[i]
  <2>1. PICK D : D = ToSet(Digits)
    OBVIOUS
  <2>2. \A s \in Seq(D), x \in D :
          /\ s \o <<x>> \in Seq(D) /\ Len(s \o <<x>>) = Len(s) + 1
          /\ (s \o <<x>>)[Len(s) + 1] = x /\ \A i \in 1..Len(s) : (s \o <<x>>)[i] = s[i]
    OBVIOUS
  <2> QED BY <2>1, <2>2
<1>2. PICK n \in Nat : n = Len(a)
  OBVIOUS
<1>3. PICK f \in Counted(a) : Number(a) = f[n]
  BY <1>2, NumberFacts
<1>4. PICK g \in Counted(b) : Number(b) = g[n + 1]
  BY <1>1, <1>2, NumberFacts
<1>5. /\ f[0] = 0 /\ \A i \in 1..n : f[i] = 10 * f[i - 1] + Digit(a[i])
      /\ g[0] = 0 /\ \A i \in 1..(n + 1) : g[i] = 10 * g[i - 1] + Digit(b[i])
  BY <1>1, <1>2, <1>3, <1>4 DEF Counted
<1> DEFINE K == {i \in Nat : i <= n => g[i] = f[i]}
<1>6. 0 \in K
  BY <1>5
<1>7. ASSUME NEW i \in Nat, i \in K PROVE i + 1 \in K
  <2> SUFFICES ASSUME i + 1 <= n PROVE g[i + 1] = f[i + 1]
    OBVIOUS
  <2>1. i + 1 \in 1..n /\ i + 1 \in 1..(n + 1) /\ (i + 1) - 1 = i /\ i <= n
    OBVIOUS
  <2>2. g[i] = f[i] /\ b[i + 1] = a[i + 1]
    BY <1>1, <1>2, <1>7, <2>1
  <2> QED BY <1>5, <2>1, <2>2
<1>8. n \in K
  <2> HIDE DEF K
  <2> QED BY <1>6, <1>7, Induction
<1>9. g[n] = f[n] /\ n + 1 \in 1..(n + 1) /\ (n + 1) - 1 = n
  BY <1>8
<1> QED BY <1>1, <1>2, <1>3, <1>4, <1>5, <1>9

LEMMA NumberShort ==
  ASSUME NEW d \in ToSet(Digits)
  PROVE  <<d>> \in Seq(ToSet(Digits)) /\ <<d>> # <<>> /\ Number(<<d>>) = Digit(d)
<1>1. <<d>> \in Seq(ToSet(Digits)) /\ <<d>> # <<>> /\ Len(<<d>>) = 1 /\ <<d>>[1] = d
  OBVIOUS
<1>2. PICK f \in Counted(<<d>>) : Number(<<d>>) = f[1]
  BY <1>1, NumberFacts
<1>3. 1 \in 1..1 /\ 1 - 1 = 0
  OBVIOUS
<1>4. f[1] = 10 * f[0] + Digit(<<d>>[1]) /\ f[0] = 0
  BY <1>1, <1>2, <1>3 DEF Counted
<1> QED BY <1>1, <1>2, <1>4, DigitFacts

\* The rest of a number from ten on is less than it.
LEMMA TenthFacts ==
  ASSUME NEW k \in Nat
  PROVE  /\ k % 10 \in 0..9 /\ k \div 10 \in Nat /\ k = 10 * (k \div 10) + (k % 10)
         /\ k >= 1 => k \div 10 < k
         /\ k < 10 => k % 10 = k
OBVIOUS

\* A number as it is written is a number, and it is read as what it was.
LEMMA DecimalFacts ==
  ASSUME NEW n \in Nat
  PROVE  /\ Decimal(n) \in Seq(ToSet(Digits)) /\ Decimal(n) # <<>>
         /\ Number(Decimal(n)) = n
<1> DEFINE S == Seq(ToSet(Digits))
           last(k) == <<Digits[(k % 10) + 1]>>
           upon(g, k) == IF k < 10 THEN last(k) ELSE g[k \div 10] \o last(k)
           decimal == CHOOSE g : g = [k \in 0..n |-> upon(g, k)]
           step == [i \in 1..n |-> [s \in S |->
                      IF n + 1 - i < 10 THEN last(n + 1 - i) ELSE s \o last(n + 1 - i)]]
           next == [i \in 1..n |-> n + 1 - ((n + 1 - i) \div 10)]
<1>1. Decimal(n) = decimal[n]
  BY DEF Decimal
<1>2. ASSUME NEW k \in Nat
      PROVE  /\ last(k) \in S /\ last(k) # <<>>
             /\ \A s \in S : /\ s \o last(k) \in S /\ s \o last(k) # <<>>
                             /\ Number(s \o last(k)) = 10 * Number(s) + (k % 10)
             /\ k < 10 => Number(last(k)) = k
  <2>1. PICK r \in 0..9 : r = k % 10 /\ (k < 10 => r = k)
    BY TenthFacts
  <2>2. PICK d \in ToSet(Digits) : d = Digits[r + 1] /\ Digit(d) = r
    BY DigitFacts
  <2>3. last(k) = <<d>>
    BY <2>1, <2>2
  <2>4. ASSUME NEW s \in S PROVE s \o <<d>> # <<>>
    <3>1. Len(s \o <<d>>) = Len(s) + 1 /\ Len(s) \in Nat
      OBVIOUS
    <3>2. Len(<<>>) = 0
      OBVIOUS
    <3> QED BY ONLY <3>1, <3>2
  <2>5. <<d>> \in S /\ <<d>> # <<>> /\ Number(<<d>>) = r
    BY <2>2, NumberShort
  <2>6. \A s \in S : s \o <<d>> \in S /\ Number(s \o <<d>>) = 10 * Number(s) + r
    BY <2>2, NumberLonger
  <2> HIDE DEF last, S
  <2> QED BY ONLY <2>1, <2>3, <2>4, <2>5, <2>6
<1> HIDE DEF last, S
<1>3. PICK f : f \in FromEnd(S, n, last(0), step, next)
  <2>1. step \in [1..n -> [S -> S]]
    <3>1. \A i \in 1..n : n + 1 - i \in Nat
      OBVIOUS
    <3> QED BY <1>2, <3>1
  <2>2. next \in [1..n -> 1..(n + 1)] /\ \A i \in 1..n : i < next[i]
    <3>1. ASSUME NEW i \in 1..n
          PROVE  n + 1 - ((n + 1 - i) \div 10) \in 1..(n + 1) /\ i < n + 1 - ((n + 1 - i) \div 10)
      <4>1. PICK k \in Nat : k = n + 1 - i /\ k >= 1 /\ k <= n
        OBVIOUS
      <4>2. PICK q \in Nat : q = k \div 10 /\ q < k
        BY <4>1, TenthFacts
      <4>3. n + 1 - q \in 1..(n + 1) /\ i < n + 1 - q
        BY <4>1, <4>2
      <4> QED BY <4>1, <4>2, <4>3
    <3> QED BY <3>1
  <2>3. last(0) \in S
    BY <1>2
  <2> HIDE DEF step, next
  <2>4. FromEnd(S, n, last(0), step, next) # {}
    BY ONLY n \in Nat, <2>1, <2>2, <2>3, RecursionFromEnd
  <2> QED BY <2>4
<1>4. /\ f \in [1..(n + 1) -> S] /\ f[n + 1] = last(0)
      /\ \A i \in 1..n : f[i] = step[i][f[next[i]]]
  BY <1>3 DEF FromEnd
<1> DEFINE g == [k \in 0..n |-> f[n + 1 - k]]
<1>5. g \in [0..n -> S] /\ \A k \in 0..n : g[k] = upon(g, k)
  <2>1. \A k \in 0..n : n + 1 - k \in 1..(n + 1) /\ g[k] = f[n + 1 - k]
    OBVIOUS
  <2>2. g \in [0..n -> S]
    BY <1>4, <2>1
  <2>3. g[0] = last(0)
    <3>1. n + 1 - 0 = n + 1 /\ 0 \in 0..n
      OBVIOUS
    <3> QED BY <1>4, <2>1, <3>1
  <2>4. ASSUME NEW k \in 1..n PROVE g[k] = upon(g, k)
    <3>1. PICK i \in 1..n : i = n + 1 - k /\ n + 1 - i = k
      <4>1. n + 1 - k \in 1..n /\ n + 1 - (n + 1 - k) = k
        OBVIOUS
      <4> QED BY ONLY <4>1
    <3>2. PICK q \in 0..n : q = k \div 10
      <4>1. k \in Nat /\ k >= 1 /\ k <= n
        OBVIOUS
      <4>2. k \div 10 \in Nat /\ k \div 10 < k
        BY <4>1, TenthFacts
      <4> QED BY <4>1, <4>2
    <3>3. next[i] = n + 1 - q
      BY <3>1, <3>2
    <3>4. f[next[i]] = g[q] /\ g[q] \in S
      BY <2>1, <2>2, <3>2, <3>3
    <3>5. step[i][g[q]] = IF k < 10 THEN last(k) ELSE g[q] \o last(k)
      <4> HIDE DEF g
      <4> QED BY <3>1, <3>4
    <3>6. g[k] = step[i][f[next[i]]]
      <4>1. k \in 0..n
        OBVIOUS
      <4> QED BY <1>4, <2>1, <3>1, <4>1
    <3> HIDE DEF g, step, next
    <3> QED BY <3>2, <3>4, <3>5, <3>6
  <2>5. upon(g, 0) = last(0)
    OBVIOUS
  <2>6. \A k \in 0..n : k = 0 \/ k \in 1..n
    OBVIOUS
  <2> HIDE DEF g, upon
  <2> QED BY <2>2, <2>3, <2>4, <2>5, <2>6
<1>6. decimal = [k \in 0..n |-> upon(decimal, k)]
  <2> HIDE DEF g, upon
  <2>1. g = [k \in 0..n |-> upon(g, k)]
    BY <1>5
  <2> QED BY <2>1
<1>7. \A k \in 0..n : decimal[k] = upon(decimal, k)
  <2> HIDE DEF upon, decimal
  <2> QED BY <1>6
<1> DEFINE K == {m \in Nat : \A k \in 0..n : k <= m =>
                   decimal[k] \in S /\ decimal[k] # <<>> /\ Number(decimal[k]) = k}
<1> HIDE DEF decimal, step, next, g
<1>8. ASSUME NEW k \in 0..n, \A j \in 0..n : j < k => decimal[j] \in S /\ Number(decimal[j]) = j
      PROVE  decimal[k] \in S /\ decimal[k] # <<>> /\ Number(decimal[k]) = k
  <2>1. k \in Nat /\ decimal[k] = upon(decimal, k)
    BY <1>7
  <2>2. CASE k < 10
    BY <1>2, <2>1, <2>2
  <2>3. CASE ~(k < 10)
    <3>1. PICK q \in 0..n, r \in 0..9 : q = k \div 10 /\ r = k % 10 /\ k = 10 * q + r /\ q < k
      <4>1. k \in Nat /\ k >= 1 /\ k <= n
        BY <2>3
      <4>2. /\ k \div 10 \in Nat /\ k \div 10 < k /\ k % 10 \in 0..9
            /\ k = 10 * (k \div 10) + (k % 10)
        BY <4>1, TenthFacts
      <4>3. PICK q, r : q = k \div 10 /\ r = k % 10
        OBVIOUS
      <4>4. q \in Nat /\ q < k /\ r \in 0..9 /\ k = 10 * q + r
        BY ONLY <4>2, <4>3
      <4>5. q \in 0..n
        BY ONLY n \in Nat, <4>1, <4>4
      <4> QED BY ONLY <4>3, <4>4, <4>5
    <3>2. decimal[q] \in S /\ Number(decimal[q]) = q
      BY <1>8, <3>1
    <3>3. decimal[k] = decimal[q] \o last(k)
      BY <2>1, <2>3, <3>1
    <3>4. PICK s \in S : s = decimal[q]
      BY <3>2
    <3>5. s \o last(k) \in S /\ s \o last(k) # <<>> /\ Number(s \o last(k)) = 10 * Number(s) + r
      BY <1>2, <2>1, <3>1
    <3>6. decimal[k] \in S /\ decimal[k] # <<>> /\ Number(decimal[k]) = 10 * Number(s) + r
      BY ONLY <3>3, <3>4, <3>5
    <3> QED BY ONLY <3>1, <3>2, <3>4, <3>6
  <2> QED BY <2>2, <2>3
<1>9. 0 \in K
  <2>1. ~\E j \in 0..n : j < 0
    OBVIOUS
  <2>2. 0 \in 0..n /\ \A k \in 0..n : k <= 0 => k = 0
    OBVIOUS
  <2>3. decimal[0] \in S /\ decimal[0] # <<>> /\ Number(decimal[0]) = 0
    BY <1>8, <2>1, <2>2
  <2> QED BY <2>2, <2>3
<1>10. ASSUME NEW m \in Nat, m \in K PROVE m + 1 \in K
  <2> SUFFICES ASSUME NEW k \in 0..n, k <= m + 1
               PROVE  decimal[k] \in S /\ decimal[k] # <<>> /\ Number(decimal[k]) = k
    OBVIOUS
  <2>1. \A j \in 0..n : j < k => j <= m
    OBVIOUS
  <2> QED BY <1>8, <1>10, <2>1
<1>11. n \in K
  <2> HIDE DEF K
  <2> QED BY <1>9, <1>10, Induction
<1> QED BY <1>1, <1>11 DEF S

-----------------------------------------------------------------------------
(* The first line.                                                         *)

\* A sequence of three in two ways.
LEMMA ThreeParts ==
  ASSUME NEW S, NEW a \in S, NEW b \in S, NEW c \in S
  PROVE  <<a, b, c>> = <<a, b>> \o <<c>> /\ <<a, b, c>> = <<a>> \o <<b, c>>
<1>1. /\ <<a>> \in Seq(S) /\ <<c>> \in Seq(S) /\ <<a, b>> \in Seq(S) /\ <<b, c>> \in Seq(S)
      /\ <<a, b, c>> \in Seq(S)
  OBVIOUS
<1>2. /\ Len(<<a, b, c>>) = Len(<<a, b>>) + Len(<<c>>)
      /\ \A i \in 1..Len(<<a, b>>) : <<a, b, c>>[i] = <<a, b>>[i]
      /\ \A i \in 1..Len(<<c>>) : <<a, b, c>>[Len(<<a, b>>) + i] = <<c>>[i]
  OBVIOUS
<1>3. /\ Len(<<a, b, c>>) = Len(<<a>>) + Len(<<b, c>>)
      /\ \A i \in 1..Len(<<a>>) : <<a, b, c>>[i] = <<a>>[i]
      /\ \A i \in 1..Len(<<b, c>>) : <<a, b, c>>[Len(<<a>>) + i] = <<b, c>>[i]
  OBVIOUS
<1>4. <<a, b, c>> = <<a, b>> \o <<c>>
  BY ONLY <1>1, <1>2, ConcatIs, Zenon
<1>5. <<a, b, c>> = <<a>> \o <<b, c>>
  BY ONLY <1>1, <1>3, ConcatIs, Zenon
<1> QED BY ONLY <1>4, <1>5, Zenon

LEMMA FlattenThree ==
  ASSUME NEW S, NEW a \in S, NEW b \in S, NEW c \in S
  PROVE  FlattenSeq(<<<<a>>, <<b>>, <<c>>>>) = <<a, b, c>>
<1>1. PICK seqs \in Seq(Seq(S)) :
        seqs = <<<<a>>, <<b>>, <<c>>>> /\ Len(seqs) = 3
        /\ seqs[1] = <<a>> /\ seqs[2] = <<b>> /\ seqs[3] = <<c>>
  <2>1. /\ <<<<a>>, <<b>>, <<c>>>> \in Seq(Seq(S)) /\ Len(<<<<a>>, <<b>>, <<c>>>>) = 3
        /\ <<<<a>>, <<b>>, <<c>>>>[1] = <<a>> /\ <<<<a>>, <<b>>, <<c>>>>[2] = <<b>>
        /\ <<<<a>>, <<b>>, <<c>>>>[3] = <<c>>
    OBVIOUS
  <2> QED BY <2>1
<1>2. PICK f \in Partial(S, seqs) : FlattenSeq(seqs) = f[3]
  BY <1>1, FlattenFacts
<1>3. /\ f[0] = <<>> /\ f[1] = f[0] \o <<a>> /\ f[2] = f[1] \o <<b>> /\ f[3] = f[2] \o <<c>>
  <2>1. f[0] = <<>> /\ \A i \in 1..3 : f[i] = f[i - 1] \o seqs[i]
    BY <1>1, <1>2 DEF Partial
  <2>2. 1 \in 1..3 /\ 2 \in 1..3 /\ 3 \in 1..3 /\ 1 - 1 = 0 /\ 2 - 1 = 1 /\ 3 - 1 = 2
    OBVIOUS
  <2> QED BY <1>1, <2>1, <2>2
<1>4. f[1] = <<a>>
  BY <1>3
<1>5. f[2] = <<a, b>>
  <2>1. <<a, b>> = <<a>> \o <<b>>
    BY TwoParts
  <2> QED BY ONLY <1>3, <1>4, <2>1
<1>6. f[3] = <<a, b, c>>
  <2>1. <<a, b, c>> = <<a, b>> \o <<c>>
    BY ONLY a \in S, b \in S, c \in S, ThreeParts, Zenon
  <2> QED BY ONLY <1>3, <1>5, <2>1
<1> QED BY <1>1, <1>2, <1>6

\* split_whitespace finds three fields with a blank between each two.
LEMMA ThreeFields ==
  ASSUME NEW T, " " \in T, "\r" \notin T, "\n" \notin T,
         NEW a \in Seq(T), NEW b \in Seq(T), NEW c \in Seq(T),
         a # <<>>, b # <<>>, c # <<>>,
         \A j \in 1..Len(a) : a[j] # " ", \A j \in 1..Len(b) : b[j] # " ",
         \A j \in 1..Len(c) : c[j] # " "
  PROVE  Fields((a \o <<" ">>) \o ((b \o <<" ">>) \o c)) = <<a, b, c>>
<1>1. PICK space \in T : space = " "
  OBVIOUS
<1>2. <<space>> \in Seq(T)
  BY ONLY space \in T
<1>3. PICK rest : rest \in Seq(T) /\ rest = (b \o <<space>>) \o c
  <2>1. (b \o <<space>>) \o c \in Seq(T)
    BY <1>2, ConcatTyped
  <2> QED BY <2>1
<1>4. PICK line : line \in Seq(T) /\ line = (a \o <<space>>) \o rest
  <2>1. (a \o <<space>>) \o rest \in Seq(T)
    BY <1>2, <1>3, ConcatTyped
  <2> QED BY <2>1
<1> DEFINE spaced == [i \in DOMAIN line |-> IF line[i] \in {"\r", "\n"} THEN " " ELSE line[i]]
           pieces == Split(spaced, <<" ">>)
           found == [i \in DOMAIN pieces |-> IF pieces[i] = <<>> THEN <<>> ELSE <<pieces[i]>>]
<1>5. line \in Seq(T)
  BY <1>4
<1>6. spaced = line
  <2>1. \A i \in DOMAIN line : line[i] \in T
    BY ONLY <1>5
  <2>2. \A i \in DOMAIN line : line[i] \notin {"\r", "\n"}
    BY <2>1
  <2>3. line = [i \in DOMAIN line |-> line[i]]
    BY ONLY <1>5
  <2> QED BY <2>2, <2>3
<1>7. Split(line, <<space>>) = <<a>> \o Split(rest, <<space>>)
  <2>1. rest \in Seq(T) /\ \A j \in 1..Len(a) : a[j] # space
    BY <1>1, <1>3
  <2>2. Split((a \o <<space>>) \o rest, <<space>>) = <<a>> \o Split(rest, <<space>>)
    BY ONLY space \in T, a \in Seq(T), <2>1, SplitAtToken
  <2>3. line = (a \o <<space>>) \o rest
    BY <1>4
  <2> QED BY ONLY <2>2, <2>3, Zenon
<1>8. Split(rest, <<space>>) = <<b>> \o Split(c, <<space>>)
  BY <1>1, <1>3, SplitAtToken
<1>9. Split(c, <<space>>) = <<c>>
  BY <1>1, SplitNowhere
<1>10. pieces = <<a, b, c>>
  <2>1. <<b, c>> = <<b>> \o <<c>> /\ <<a, b, c>> = <<a>> \o <<b, c>>
    <3>1. PICK S : S = Seq(T)
      OBVIOUS
    <3>2. a \in S /\ b \in S /\ c \in S
      BY <3>1
    <3>3. <<b, c>> = <<b>> \o <<c>>
      BY ONLY <3>2, TwoParts, Zenon
    <3>4. <<a, b, c>> = <<a>> \o <<b, c>>
      BY ONLY <3>2, ThreeParts, Zenon
    <3> QED BY ONLY <3>3, <3>4, Zenon
  <2>2. pieces = Split(line, <<space>>)
    BY <1>1, <1>6
  <2> HIDE DEF pieces
  <2> QED BY ONLY <1>7, <1>8, <1>9, <2>1, <2>2
<1> HIDE DEF pieces
<1>11. found = <<<<a>>, <<b>>, <<c>>>>
  <2>1. DOMAIN pieces = 1..3 /\ pieces[1] = a /\ pieces[2] = b /\ pieces[3] = c
    BY ONLY <1>10
  <2>2. found = [i \in 1..3 |-> <<pieces[i]>>]
    <3>1. \A i \in 1..3 : i = 1 \/ i = 2 \/ i = 3
      BY ONLY SMT
    <3>2. \A i \in 1..3 : pieces[i] # <<>>
      BY <2>1, <3>1
    <3> QED BY <2>1, <3>2
  <2> QED BY ONLY <2>1, <2>2
<1> HIDE DEF found
<1>12. FlattenSeq(found) = <<a, b, c>>
  BY <1>11, FlattenThree
<1>13. Fields(line) = FlattenSeq(found)
  BY DEF Fields, found, pieces
<1> QED BY <1>1, <1>3, <1>4, <1>12, <1>13

\* The tokens of a first line, and those of what is around a body.
LineTokens == Types \cup {" "} \cup ToSet(Digits)
Marks == {"\r", "\n", "E", "N", "D"}

LEMMA LineTokenFacts == "\r" \notin LineTokens /\ "\n" \notin LineTokens /\ "bad" \notin LineTokens
BY DigitFacts DEF LineTokens, Types

LEMMA DigitTokens ==
  ASSUME NEW s \in Seq(ToSet(Digits))
  PROVE  /\ s \in Seq(LineTokens) /\ \A j \in 1..Len(s) : s[j] # " "
         /\ s # <<>> => IsNumber(s) /\ Value(s) = Number(s)
<1>1. ToSet(Digits) \subseteq LineTokens
  BY DEF LineTokens
<1>2. " " \notin ToSet(Digits) /\ "+" \notin ToSet(Digits)
  BY DigitFacts
<1>3. \A j \in 1..Len(s) : s[j] \in ToSet(Digits)
  OBVIOUS
<1>4. s \in Seq(LineTokens)
  BY <1>1
<1>6. Unsigned(s) = s
  <2>1. s # <<>> => 1 \in 1..Len(s)
    OBVIOUS
  <2> QED BY ONLY <1>2, <1>3, <2>1 DEF Unsigned
<1>5. ToSet(s) \subseteq ToSet(Digits)
  <2>1. DOMAIN s = 1..Len(s)
    OBVIOUS
  <2> QED BY <1>3, <2>1 DEF ToSet
<1> QED BY <1>2, <1>3, <1>4, <1>5, <1>6 DEF IsNumber, Value

\* The first line that is written has the three fields.
LEMMA FirstLineFacts ==
  ASSUME NEW p, Writable(p)
  PROVE  /\ FirstLine(p) \in Seq(LineTokens)
         /\ Fields(FirstLine(p)) = <<<<p.type>>, Decimal(p.msgno), Decimal(Len(p.body))>>
<1>1. p.type \in Types /\ p.msgno \in Nat /\ Len(p.body) \in Nat
  BY DEF Writable
<1>2. PICK T : T = LineTokens
  OBVIOUS
<1>3. " " \in T /\ "\r" \notin T /\ "\n" \notin T
  BY <1>2, LineTokenFacts DEF LineTokens
<1>4. PICK a \in Seq(T) : a = <<p.type>> /\ a # <<>> /\ \A j \in 1..Len(a) : a[j] # " "
  <2>1. PICK t \in T : t = p.type /\ t # " "
    BY <1>1, <1>2 DEF LineTokens, Types
  <2>2. <<t>> \in Seq(T) /\ <<t>> # <<>> /\ \A j \in 1..Len(<<t>>) : <<t>>[j] = t
    BY ONLY t \in T
  <2>3. PICK s : s = <<t>>
    OBVIOUS
  <2>4. s \in Seq(T) /\ s # <<>> /\ \A j \in 1..Len(s) : s[j] # " "
    BY ONLY <2>1, <2>2, <2>3
  <2>5. s = <<p.type>>
    BY <2>1, <2>3
  <2> QED BY ONLY <2>4, <2>5, Zenon
<1>5. PICK b, c : b = Decimal(p.msgno) /\ c = Decimal(Len(p.body))
  OBVIOUS
<1>6. b \in Seq(ToSet(Digits)) /\ b # <<>> /\ c \in Seq(ToSet(Digits)) /\ c # <<>>
  BY <1>1, <1>5, DecimalFacts
<1>7. /\ b \in Seq(T) /\ b # <<>> /\ \A j \in 1..Len(b) : b[j] # " "
      /\ c \in Seq(T) /\ c # <<>> /\ \A j \in 1..Len(c) : c[j] # " "
  BY <1>2, <1>6, DigitTokens
<1>8. Fields((a \o <<" ">>) \o ((b \o <<" ">>) \o c)) = <<a, b, c>>
  BY ONLY <1>3, <1>4, <1>7, ThreeFields
<1>9. (a \o <<" ">>) \o ((b \o <<" ">>) \o c) \in Seq(T)
  <2>1. PICK d \in Seq(T) : d = <<" ">>
    <3>1. PICK x \in T : x = " "
      BY <1>3
    <3>2. <<x>> \in Seq(T)
      BY ONLY x \in T
    <3> QED BY <3>1, <3>2
  <2>2. (a \o d) \o ((b \o d) \o c) \in Seq(T)
    BY ONLY a \in Seq(T), <1>7, d \in Seq(T), ConcatTyped
  <2> QED BY <2>1, <2>2
<1>10. FirstLine(p) = (a \o <<" ">>) \o ((b \o <<" ">>) \o c)
  BY <1>4, <1>5 DEF FirstLine
<1> QED BY ONLY <1>2, <1>4, <1>5, <1>8, <1>9, <1>10, Zenon

\* And they are good.
LEMMA WrittenFieldsOk ==
  ASSUME NEW p, Writable(p)
  PROVE  LET fields == <<<<p.type>>, Decimal(p.msgno), Decimal(Len(p.body))>>
         IN  /\ FieldsOk(fields) /\ fields[1] = <<p.type>>
             /\ Value(fields[2]) = p.msgno /\ Value(fields[3]) = Len(p.body)
<1>1. /\ p.msgno \in Nat /\ p.msgno <= MaxU64
      /\ Len(p.body) \in Nat /\ Len(p.body) <= MaxPacketSize
  BY DEF Writable
<1>2. PICK a, b, c : a = <<p.type>> /\ b = Decimal(p.msgno) /\ c = Decimal(Len(p.body))
  OBVIOUS
<1>3. IsNumber(b) /\ Value(b) = p.msgno /\ IsNumber(c) /\ Value(c) = Len(p.body)
  BY <1>1, <1>2, DecimalFacts, DigitTokens
<1>4. Len(<<a, b, c>>) = 3 /\ <<a, b, c>>[1] = a /\ <<a, b, c>>[2] = b /\ <<a, b, c>>[3] = c
  BY ONLY SMT
<1>5. FieldsOk(<<a, b, c>>)
  BY <1>1, <1>3, <1>4 DEF FieldsOk
<1> QED BY <1>2, <1>3, <1>4, <1>5

-----------------------------------------------------------------------------
(* Packets.                                                                *)

LEMMA TrailerFacts ==
  ASSUME NEW T, Marks \subseteq T
  PROVE  Trailer \in Seq(T) /\ Len(Trailer) = 5
<1>1. PICK crlf \in Seq(T) : crlf = CRLF /\ Len(crlf) = 2
  <2>1. CRLF \in Seq(T)
    BY DEF CRLF, Marks
  <2>2. Len(CRLF) = 2
    BY DEF CRLF
  <2> QED BY <2>1, <2>2
<1>2. PICK e \in Seq(T) : e = <<"E", "N", "D">> /\ Len(e) = 3
  <2>1. <<"E", "N", "D">> \in Seq(T)
    BY DEF Marks
  <2>2. Len(<<"E", "N", "D">>) = 3
    OBVIOUS
  <2> QED BY <2>1, <2>2
<1>3. PICK t : t = e \o crlf
  OBVIOUS
<1>4. t \in Seq(T) /\ Len(t) = 3 + 2
  <2>1. Len(crlf) = 2 /\ Len(e) = 3
    BY <1>1, <1>2
  <2>2. t \in Seq(T) /\ Len(t) = Len(e) + Len(crlf)
    BY ONLY e \in Seq(T), crlf \in Seq(T), <1>3, ConcatParts
  <2> QED BY ONLY <2>1, <2>2, Zenon
<1>5. t = Trailer
  BY <1>1, <1>2, <1>3 DEF Trailer
<1> QED BY ONLY <1>4, <1>5

\* A packet of these tokens.
WritableIn(T, p) ==
  /\ LineTokens \subseteq T /\ Marks \subseteq T
  /\ Writable(p) /\ p.body \in Seq(T)

\* A packet's bytes, one by one: a first line of f, the end of the line, a body of
\* b, and the trailer.
Laid(T, p, f, b) ==
  /\ f \in Nat /\ f = Len(FirstLine(p)) /\ f + 2 <= LineMax
  /\ b \in Nat /\ b = Len(p.body)
  /\ Bytes(p) \in Seq(T) /\ Len(Bytes(p)) = f + b + 7
  /\ \A i \in 1..f : Bytes(p)[i] = FirstLine(p)[i]
  /\ Bytes(p)[f + 1] = "\r" /\ Bytes(p)[f + 2] = "\n"
  /\ \A i \in 1..b : Bytes(p)[f + 2 + i] = p.body[i]
  /\ \A i \in 1..5 : Bytes(p)[f + 2 + b + i] = Trailer[i]

LEMMA BytesFacts ==
  ASSUME NEW T, NEW p, WritableIn(T, p)
  PROVE  \E f, b : Laid(T, p, f, b)
<1> PICK f : f = Len(FirstLine(p))
  OBVIOUS
<1> PICK b : b = Len(p.body)
  OBVIOUS
<1> LineTokens \subseteq T /\ Marks \subseteq T /\ Writable(p) /\ p.body \in Seq(T)
  BY DEF WritableIn
<1>1. PICK line \in Seq(T) : line = FirstLine(p)
  BY FirstLineFacts
<1>2. PICK crlf \in Seq(T) : crlf = CRLF /\ Len(crlf) = 2 /\ crlf[1] = "\r" /\ crlf[2] = "\n"
  <2>1. CRLF \in Seq(T)
    BY DEF CRLF, Marks
  <2>2. Len(CRLF) = 2 /\ CRLF[1] = "\r" /\ CRLF[2] = "\n"
    BY DEF CRLF
  <2> QED BY <2>1, <2>2
<1>3. PICK body \in Seq(T) : body = p.body /\ Len(body) = b
  OBVIOUS
<1>4. PICK end \in Seq(T) : end = Trailer /\ Len(end) = 5
  BY TrailerFacts
<1>5. PICK n, m \in Nat : n = f /\ m = b /\ Len(line) = n /\ Len(body) = m
  BY <1>1, <1>3
<1>6. PICK u : u = line \o crlf
  OBVIOUS
<1>7. PICK v : v = u \o body
  OBVIOUS
<1>8. PICK w : w = v \o end
  OBVIOUS
<1>9. /\ u \in Seq(T) /\ Len(u) = n + 2 /\ \A i \in 1..n : u[i] = line[i]
      /\ \A i \in 1..2 : u[n + i] = crlf[i]
  <2>1. /\ u \in Seq(T) /\ Len(u) = Len(line) + Len(crlf)
        /\ \A i \in 1..Len(line) : u[i] = line[i]
        /\ \A i \in 1..Len(crlf) : u[Len(line) + i] = crlf[i]
    BY ONLY line \in Seq(T), crlf \in Seq(T), <1>6, ConcatParts
  <2> QED BY ONLY <1>2, <1>5, <2>1, Zenon
<1>10. /\ v \in Seq(T) /\ Len(v) = (n + 2) + m /\ \A i \in 1..(n + 2) : v[i] = u[i]
       /\ \A i \in 1..m : v[(n + 2) + i] = body[i]
  <2>1. u \in Seq(T)
    BY <1>9
  <2>2. /\ v \in Seq(T) /\ Len(v) = Len(u) + Len(body)
        /\ \A i \in 1..Len(u) : v[i] = u[i]
        /\ \A i \in 1..Len(body) : v[Len(u) + i] = body[i]
    BY ONLY body \in Seq(T), <1>7, <2>1, ConcatParts
  <2> QED BY ONLY <1>5, <1>9, <2>2, Zenon
<1>11. /\ w \in Seq(T) /\ Len(w) = ((n + 2) + m) + 5 /\ \A i \in 1..((n + 2) + m) : w[i] = v[i]
       /\ \A i \in 1..5 : w[((n + 2) + m) + i] = end[i]
  <2>1. v \in Seq(T)
    BY <1>10
  <2>2. /\ w \in Seq(T) /\ Len(w) = Len(v) + Len(end)
        /\ \A i \in 1..Len(v) : w[i] = v[i]
        /\ \A i \in 1..Len(end) : w[Len(v) + i] = end[i]
    BY ONLY end \in Seq(T), <1>8, <2>1, ConcatParts
  <2> QED BY ONLY <1>4, <1>10, <2>2, Zenon
<1>12. Bytes(p) = w
  BY <1>1, <1>2, <1>3, <1>4, <1>6, <1>7, <1>8 DEF Bytes
<1>13. n + 2 <= LineMax
  <2>1. Len(FirstLine(p) \o CRLF) <= LineMax
    BY DEF Writable
  <2>2. FirstLine(p) \o CRLF = u
    BY <1>1, <1>2, <1>6
  <2> QED BY <1>9, <2>1, <2>2
<1>14. ASSUME NEW i \in 1..n PROVE w[i] = line[i]
  <2>1. i \in 1..(n + 2) /\ i \in 1..((n + 2) + m)
    OBVIOUS
  <2> QED BY ONLY i \in 1..n, <1>9, <1>10, <1>11, <2>1, Zenon
<1>15. w[n + 1] = "\r" /\ w[n + 2] = "\n"
  <2>1. 1 \in 1..2 /\ 2 \in 1..2
    OBVIOUS
  <2>2. /\ n + 1 \in 1..(n + 2) /\ n + 1 \in 1..((n + 2) + m)
        /\ n + 2 \in 1..(n + 2) /\ n + 2 \in 1..((n + 2) + m)
    OBVIOUS
  <2>3. u[n + 1] = crlf[1] /\ u[n + 2] = crlf[2]
    BY ONLY <1>9, <2>1, Zenon
  <2>4. \A i \in {n + 1, n + 2} : w[i] = v[i] /\ v[i] = u[i]
    BY ONLY <1>10, <1>11, <2>2, Zenon
  <2>5. w[n + 1] = u[n + 1] /\ w[n + 2] = u[n + 2]
    BY ONLY <2>4, Zenon
  <2> QED BY ONLY <1>2, <2>3, <2>5
<1>16. ASSUME NEW i \in 1..m PROVE w[n + 2 + i] = body[i]
  <2>1. (n + 2) + i \in 1..((n + 2) + m)
    OBVIOUS
  <2> QED BY ONLY i \in 1..m, <1>10, <1>11, <2>1, Zenon
<1>17. Len(w) = n + m + 7
  BY <1>11
<1>18. ASSUME NEW i \in 1..5 PROVE w[n + 2 + m + i] = end[i]
  BY ONLY i \in 1..5, <1>11, Zenon
<1>19. f = Len(FirstLine(p)) /\ b = Len(p.body)
  OBVIOUS
<1>20. Laid(T, p, f, b)
  BY ONLY <1>1, <1>3, <1>4, <1>5, <1>11, <1>12, <1>13, <1>14, <1>15, <1>16, <1>17, <1>18, <1>19,
          Zenon
     DEF Laid
<1> QED BY <1>20

\* A piece of a text.
LEMMA PieceFacts ==
  ASSUME NEW T, NEW s \in Seq(T), NEW i \in Nat, NEW n \in Nat, i + n <= Len(s)
  PROVE  /\ SubSeq(s, i + 1, i + n) \in Seq(T) /\ Len(SubSeq(s, i + 1, i + n)) = n
         /\ \A j \in 1..n : SubSeq(s, i + 1, i + n)[j] = s[i + j]
<1>1. \A j \in (i + 1)..(i + n) : s[j] \in T
  OBVIOUS
<1>2. /\ SubSeq(s, i + 1, i + n) \in Seq(T)
      /\ Len(SubSeq(s, i + 1, i + n)) = IF i + 1 <= i + n THEN i + n - (i + 1) + 1 ELSE 0
      /\ \A j \in 1..(i + n - (i + 1) + 1) : SubSeq(s, i + 1, i + n)[j] = s[i + 1 + j - 1]
  BY <1>1, SubSeqProperties
<1>3. i + n - (i + 1) + 1 = n /\ (i + 1 <= i + n \/ n = 0)
  OBVIOUS
<1>4. \A j \in 1..n : i + 1 + j - 1 = i + j
  OBVIOUS
<1> QED BY ONLY <1>2, <1>3, <1>4

\* A piece that is known item by item.
LEMMA PieceIs ==
  ASSUME NEW T, NEW s \in Seq(T), NEW i \in Nat, NEW t \in Seq(T), i + Len(t) <= Len(s),
         \A j \in 1..Len(t) : s[i + j] = t[j]
  PROVE  SubSeq(s, i + 1, i + Len(t)) = t
<1>1. PICK n \in Nat : n = Len(t)
  OBVIOUS
<1>2. PICK u : u = SubSeq(s, i + 1, i + n)
  OBVIOUS
<1>3. u \in Seq(T) /\ Len(u) = n /\ \A j \in 1..n : u[j] = s[i + j]
  BY <1>1, <1>2, PieceFacts
<1>4. Len(u) = Len(t) /\ \A j \in 1..Len(u) : u[j] = t[j]
  BY <1>1, <1>3
<1> QED BY <1>1, <1>2, <1>3, <1>4, SameItems

\* The part of the buffer in which parse looks for the first line.
Scan(bytes) == SubSeq(bytes, 1, Min({Len(bytes), LineMax}))

LEMMA ScanFacts ==
  ASSUME NEW T, NEW bytes \in Seq(T)
  PROVE  /\ Scan(bytes) \in Seq(T)
         /\ Len(Scan(bytes)) <= Len(bytes) /\ Len(Scan(bytes)) <= LineMax
         /\ Len(Scan(bytes)) = Len(bytes) \/ Len(Scan(bytes)) = LineMax
         /\ \A i \in 1..Len(Scan(bytes)) : Scan(bytes)[i] = bytes[i]
<1>1. LineMax \in Nat /\ Len(bytes) \in Nat
  BY FramingAssumption
<1>2. PICK n : n = Min({Len(bytes), LineMax})
  OBVIOUS
<1>3. n \in {Len(bytes), LineMax} /\ n <= Len(bytes) /\ n <= LineMax
  <2>1. {Len(bytes), LineMax} \subseteq Nat /\ {Len(bytes), LineMax} # {}
    BY <1>1
  <2> QED BY <1>2, <2>1, MinOf
<1>4. n \in Nat /\ 0 + n <= Len(bytes) /\ 0 + 1 = 1 /\ 0 + n = n /\ \A i \in 1..n : 0 + i = i
  BY <1>1, <1>3
<1>5. /\ SubSeq(bytes, 1, n) \in Seq(T) /\ Len(SubSeq(bytes, 1, n)) = n
      /\ \A i \in 1..n : SubSeq(bytes, 1, n)[i] = bytes[i]
  BY <1>4, PieceFacts
<1>6. Scan(bytes) = SubSeq(bytes, 1, n)
  BY <1>2 DEF Scan
<1> QED BY <1>3, <1>5, <1>6

\* A first line that is not whole yet is no error.
LEMMA LineUnfinished ==
  ASSUME NEW T, NEW p, WritableIn(T, p), NEW f, NEW b, Laid(T, p, f, b),
         NEW bytes \in Seq(T), Len(bytes) < f + 2,
         \A i \in 1..Len(bytes) : bytes[i] = Bytes(p)[i]
  PROVE  Parse(bytes) = More
<1>1. Writable(p) /\ LineTokens \subseteq T
  BY DEF WritableIn
<1>2. /\ f \in Nat /\ f = Len(FirstLine(p)) /\ f + 2 <= LineMax
      /\ \A i \in 1..f : Bytes(p)[i] = FirstLine(p)[i]
      /\ Bytes(p)[f + 1] = "\r"
  BY DEF Laid
<1>3. PICK s : s = Scan(bytes)
  OBVIOUS
<1>4. LineMax \in Nat /\ Len(bytes) \in Nat
  BY FramingAssumption
<1>5. /\ s \in Seq(T) /\ Len(s) = Len(bytes) /\ Len(s) < LineMax
      /\ \A i \in 1..Len(s) : s[i] = bytes[i]
  <2>1. /\ s \in Seq(T) /\ Len(s) <= Len(bytes)
        /\ Len(s) = Len(bytes) \/ Len(s) = LineMax
        /\ \A i \in 1..Len(s) : s[i] = bytes[i]
    BY <1>3, ScanFacts
  <2> QED BY <1>2, <1>4, <2>1
<1>6. \A i \in 1..f : s[i] = bytes[i] /\ i <= Len(s) => s[i] # "\r" /\ s[i] # "\n"
  <2>1. \A i \in 1..f : FirstLine(p)[i] \in LineTokens
    BY <1>1, <1>2, FirstLineFacts
  <2> QED BY <1>2, <1>4, <1>5, <2>1, LineTokenFacts
<1>7. \A i \in 1..Len(s) : i \in 1..f \/ i = f + 1
  BY <1>2, <1>4, <1>5
<1>8. LineEnds(s) = {}
  <2>1. \A i \in 1..(Len(s) - 1) : i \in 1..f /\ i \in 1..Len(s) /\ i <= Len(s)
    BY <1>2, <1>4, <1>5
  <2> QED BY <1>5, <1>6, <2>1 DEF LineEnds
<1>9. "\n" \notin ToSet(s)
  <2>1. DOMAIN s = 1..Len(s)
    BY <1>5
  <2>2. \A i \in 1..Len(s) : s[i] # "\n"
    <3>1. \A i \in 1..Len(s) : i <= Len(s)
      BY <1>4, <1>5
    <3>2. "\r" # "\n"
      OBVIOUS
    <3> QED BY <1>2, <1>5, <1>6, <1>7, <3>1, <3>2
  <2> QED BY <2>1, <2>2 DEF ToSet
<1>10. ~(Len(s) >= LineMax)
  BY <1>4, <1>5
<1> QED BY ONLY <1>3, <1>8, <1>9, <1>10 DEF Parse, Scan

\* A whole first line is found, and its fields are good.
LEMMA LineParsed ==
  ASSUME NEW T, NEW p, WritableIn(T, p), NEW f, NEW b, Laid(T, p, f, b),
         NEW bytes \in Seq(T), f + 2 <= Len(bytes),
         \A i \in 1..(f + 2) : bytes[i] = Bytes(p)[i]
  PROVE  Parse(bytes)
           = ParseBody(bytes, <<<<p.type>>, Decimal(p.msgno), Decimal(Len(p.body))>>, f + 2)
<1>1. Writable(p) /\ LineTokens \subseteq T
  BY DEF WritableIn
<1>2. /\ f \in Nat /\ f = Len(FirstLine(p)) /\ f + 2 <= LineMax
      /\ \A i \in 1..f : Bytes(p)[i] = FirstLine(p)[i]
      /\ Bytes(p)[f + 1] = "\r" /\ Bytes(p)[f + 2] = "\n"
  BY DEF Laid
<1>3. PICK s : s = Scan(bytes)
  OBVIOUS
<1>4. LineMax \in Nat /\ Len(bytes) \in Nat
  BY FramingAssumption
<1>5. /\ s \in Seq(T) /\ f + 2 <= Len(s) /\ Len(s) \in Nat
      /\ \A i \in 1..Len(s) : s[i] = bytes[i]
  <2>1. /\ s \in Seq(T) /\ Len(s) \in Nat
        /\ Len(s) = Len(bytes) \/ Len(s) = LineMax
        /\ \A i \in 1..Len(s) : s[i] = bytes[i]
    BY <1>3, ScanFacts
  <2> QED BY <1>2, <1>4, <2>1
<1>6. \A i \in 1..(f + 2) : i \in 1..Len(s) /\ s[i] = Bytes(p)[i]
  BY <1>2, <1>5
<1>7. \A i \in 1..f : s[i] # "\r"
  <2>1. \A i \in 1..f : FirstLine(p)[i] \in LineTokens /\ i \in 1..(f + 2)
    BY <1>1, <1>2, FirstLineFacts
  <2> QED BY <1>2, <1>6, <2>1, LineTokenFacts
<1>8. f + 1 \in LineEnds(s)
  <2>1. /\ f + 1 \in 1..(Len(s) - 1) /\ f + 1 \in 1..(f + 2) /\ f + 2 \in 1..(f + 2)
        /\ (f + 1) + 1 = f + 2
    BY <1>2, <1>5
  <2>2. s[f + 1] = "\r" /\ s[f + 2] = "\n"
    BY <1>2, <1>6, <2>1
  <2> QED BY <2>1, <2>2 DEF LineEnds
<1>9. Min(LineEnds(s)) = f + 1
  <2>1. LineEnds(s) \subseteq Nat /\ \A i \in LineEnds(s) : i \notin 1..f
    BY <1>5, <1>7 DEF LineEnds
  <2>2. Min(LineEnds(s)) \in LineEnds(s) /\ \A i \in LineEnds(s) : Min(LineEnds(s)) <= i
    BY <1>8, <2>1, MinOf
  <2>3. PICK m : m = Min(LineEnds(s))
    OBVIOUS
  <2>4. m \in LineEnds(s) /\ m <= f + 1
    BY ONLY <1>8, <2>2, <2>3
  <2>5. m \in Nat /\ m >= 1 /\ m \notin 1..f
    BY <2>1, <2>4 DEF LineEnds
  <2>6. f \in Nat
    BY <1>2
  <2> QED BY ONLY <2>3, <2>4, <2>5, <2>6
<1>10. SubSeq(bytes, 1, f) = FirstLine(p)
  <2>1. PICK line \in Seq(T) : line = FirstLine(p) /\ Len(line) = f
    <3>1. FirstLine(p) \in Seq(T)
      BY <1>1, FirstLineFacts
    <3> QED BY <1>2, <3>1
  <2>2. /\ 0 + Len(line) <= Len(bytes) /\ 0 + 1 = 1 /\ 0 + Len(line) = f
        /\ \A j \in 1..Len(line) : 0 + j = j /\ j \in 1..(f + 2)
    BY <1>2, <1>4, <2>1
  <2>3. \A j \in 1..Len(line) : bytes[0 + j] = line[j]
    BY <1>2, <2>1, <2>2
  <2>4. SubSeq(bytes, 0 + 1, 0 + Len(line)) = line
    BY <2>2, <2>3, PieceIs
  <2> QED BY <2>1, <2>2, <2>4
<1>11. "bad" \notin ToSet(FirstLine(p))
  <2>1. /\ DOMAIN FirstLine(p) = 1..Len(FirstLine(p))
        /\ \A i \in DOMAIN FirstLine(p) : FirstLine(p)[i] \in LineTokens
    BY <1>1, FirstLineFacts
  <2> QED BY <2>1, LineTokenFacts DEF ToSet
<1>12. PICK fields : fields = <<<<p.type>>, Decimal(p.msgno), Decimal(Len(p.body))>>
  OBVIOUS
<1>13. Fields(FirstLine(p)) = fields /\ FieldsOk(fields)
  BY <1>1, <1>12, FirstLineFacts, WrittenFieldsOk
<1>14. (f + 1) - 1 = f
  BY <1>2
<1>15. LineEnds(s) # {}
  BY <1>8
<1>16. Parse(bytes) = ParseBody(bytes, fields, f + 2)
  BY ONLY <1>3, <1>9, <1>10, <1>11, <1>13, <1>14, <1>15 DEF Parse, Scan
<1> QED BY <1>12, <1>16

\* A packet that is whole is read as it was written, whatever follows it.
LEMMA ParseWhole ==
  ASSUME NEW T, NEW p, WritableIn(T, p), NEW f, NEW b, Laid(T, p, f, b),
         NEW bytes \in Seq(T), f + b + 7 <= Len(bytes),
         \A i \in 1..(f + b + 7) : bytes[i] = Bytes(p)[i]
  PROVE  Parse(bytes) = [is |-> "packet", used |-> f + b + 7, packet |-> p]
<1>1. /\ Writable(p) /\ p.body \in Seq(T) /\ Marks \subseteq T
  BY DEF WritableIn
<1>2. /\ f \in Nat /\ b \in Nat /\ b = Len(p.body)
      /\ \A i \in 1..b : Bytes(p)[f + 2 + i] = p.body[i]
      /\ \A i \in 1..5 : Bytes(p)[f + 2 + b + i] = Trailer[i]
  BY DEF Laid
<1>3. f \in Nat /\ b \in Nat
  BY <1>2
<1>4. Len(bytes) \in Nat /\ f + b + 7 <= Len(bytes)
  OBVIOUS
<1>5. PICK fields : fields = <<<<p.type>>, Decimal(p.msgno), Decimal(Len(p.body))>>
  OBVIOUS
<1>6. Parse(bytes) = ParseBody(bytes, fields, f + 2)
  <2>1. f + 2 <= Len(bytes) /\ \A i \in 1..(f + 2) : i \in 1..(f + b + 7)
    BY ONLY <1>3, <1>4
  <2>2. \A i \in 1..(f + 2) : bytes[i] = Bytes(p)[i]
    BY <2>1
  <2> QED BY <1>5, <2>1, <2>2, LineParsed
<1>7. fields[1] = <<p.type>> /\ Value(fields[2]) = p.msgno /\ Value(fields[3]) = b
  BY <1>1, <1>2, <1>5, WrittenFieldsOk
<1>8. SubSeq(bytes, (f + 2) + 1, (f + 2) + b) = p.body
  <2>1. PICK body \in Seq(T) : body = p.body /\ Len(body) = b
    BY <1>1, <1>2
  <2>2. f + 2 \in Nat /\ (f + 2) + Len(body) <= Len(bytes)
    <3>1. Len(body) = b
      BY <2>1
    <3> QED BY ONLY <1>3, <1>4, <3>1
  <2>3. \A j \in 1..Len(body) : (f + 2) + j \in 1..(f + b + 7) /\ (f + 2) + j = f + 2 + j
    BY <1>2, <2>1
  <2>4. \A j \in 1..Len(body) : bytes[(f + 2) + j] = body[j]
    BY <1>2, <2>1, <2>3
  <2>5. SubSeq(bytes, (f + 2) + 1, (f + 2) + Len(body)) = body
    BY ONLY bytes \in Seq(T), body \in Seq(T), <2>2, <2>4, PieceIs
  <2> QED BY <2>1, <2>5
<1>9. SubSeq(bytes, (f + 2 + b) + 1, (f + 2 + b) + 5) = Trailer
  <2>1. PICK end \in Seq(T) : end = Trailer /\ Len(end) = 5
    BY <1>1, TrailerFacts
  <2>2. Len(end) = 5
    BY <2>1
  <2>3. f + 2 + b \in Nat /\ (f + 2 + b) + Len(end) <= Len(bytes)
    BY ONLY <1>3, <1>4, <2>2
  <2>4. \A j \in 1..Len(end) : (f + 2 + b) + j \in 1..(f + b + 7)
    BY ONLY <1>3, <2>2
  <2>5. \A j \in 1..Len(end) : bytes[(f + 2 + b) + j] = end[j]
    BY <1>2, <2>1, <2>4
  <2>6. SubSeq(bytes, (f + 2 + b) + 1, (f + 2 + b) + Len(end)) = end
    BY ONLY bytes \in Seq(T), end \in Seq(T), <2>3, <2>5, PieceIs
  <2> QED BY <2>1, <2>6
<1>10. p.type \in Types /\ (p.type = "HEADER" => IsJson(p.body))
      /\ p = [type |-> p.type, msgno |-> p.msgno, body |-> p.body]
  BY <1>1 DEF Writable
<1>11. <<p.type>> \in {<<t>> : t \in Types} /\ <<p.type>>[1] = p.type
      /\ (<<p.type>> = <<"HEADER">> => p.type = "HEADER")
  <2>1. PICK t \in Types : t = p.type
    BY <1>10
  <2>2. <<t>>[1] = t /\ (<<t>> = <<"HEADER">> => t = "HEADER")
    OBVIOUS
  <2> QED BY <2>1, <2>2
<1>12. PacketOk(fields[1], p.body, Trailer)
  BY <1>7, <1>10, <1>11 DEF PacketOk
<1>13. (f + 2) + b = f + 2 + b /\ ~((f + 2) + b + 5 > Len(bytes)) /\ (f + 2) + b + 5 = f + b + 7
       /\ (f + 2) + b + 1 = (f + 2 + b) + 1 /\ (f + 2) + b + 5 = (f + 2 + b) + 5
  BY ONLY <1>3, <1>4
<1>14. ParseBody(bytes, fields, f + 2)
         = [is |-> "packet", used |-> f + b + 7,
            packet |-> [type |-> p.type, msgno |-> p.msgno, body |-> p.body]]
  BY ONLY <1>7, <1>8, <1>9, <1>11, <1>12, <1>13 DEF ParseBody
<1> QED BY <1>6, <1>10, <1>14

\* A packet that is not whole is waited for.
LEMMA ParsePart ==
  ASSUME NEW T, NEW p, WritableIn(T, p), NEW f, NEW b, Laid(T, p, f, b),
         NEW bytes \in Seq(T), Len(bytes) < f + b + 7,
         \A i \in 1..Len(bytes) : bytes[i] = Bytes(p)[i]
  PROVE  Parse(bytes) = More
<1>1. Writable(p) /\ f \in Nat /\ b \in Nat /\ b = Len(p.body)
  BY DEF WritableIn, Laid
<1>2. CASE Len(bytes) < f + 2
  BY <1>2, LineUnfinished
<1>3. CASE f + 2 <= Len(bytes)
  <2>1. PICK fields : fields = <<<<p.type>>, Decimal(p.msgno), Decimal(Len(p.body))>>
    OBVIOUS
  <2>2. \A i \in 1..(f + 2) : bytes[i] = Bytes(p)[i]
    <3>1. \A i \in 1..(f + 2) : i \in 1..Len(bytes)
      BY <1>1, <1>3
    <3> QED BY <3>1
  <2>3. Parse(bytes) = ParseBody(bytes, fields, f + 2)
    BY <1>3, <2>1, <2>2, LineParsed
  <2>4. Value(fields[3]) = b
    BY <1>1, <2>1, WrittenFieldsOk
  <2>5. (f + 2) + b + 5 > Len(bytes)
    <3>1. f \in Nat /\ b \in Nat
      BY <1>1
    <3>2. Len(bytes) \in Nat /\ Len(bytes) < f + b + 7
      OBVIOUS
    <3> QED BY ONLY <3>1, <3>2
  <2>6. ParseBody(bytes, fields, f + 2) = More
    BY ONLY <2>4, <2>5 DEF ParseBody
  <2> QED BY <2>3, <2>6
<1>4. Len(bytes) \in Nat
  OBVIOUS
<1> QED BY <1>1, <1>2, <1>3, <1>4

\* split_whitespace makes texts of a text.
LEMMA FieldsTyped ==
  ASSUME NEW T, " " \in T, NEW line \in Seq(T)
  PROVE  Fields(line) \in Seq(Seq(T))
<1> DEFINE spaced == [i \in DOMAIN line |-> IF line[i] \in {"\r", "\n"} THEN " " ELSE line[i]]
           pieces == Split(spaced, <<" ">>)
           found == [i \in DOMAIN pieces |-> IF pieces[i] = <<>> THEN <<>> ELSE <<pieces[i]>>]
<1>1. spaced \in Seq(T)
  <2>1. DOMAIN line = 1..Len(line) /\ Len(line) \in Nat /\ \A i \in 1..Len(line) : line[i] \in T
    BY ONLY line \in Seq(T)
  <2>2. spaced \in [1..Len(line) -> T]
    BY <2>1
  <2>3. Len(line) \in Nat
    BY <2>1
  <2> HIDE DEF spaced
  <2> QED BY ONLY <2>2, <2>3
<1>2. pieces \in Seq(Seq(T))
  <2>1. PICK d \in Seq(T) : d = <<" ">> /\ d # <<>>
    <3>1. PICK x \in T : x = " "
      OBVIOUS
    <3>2. <<x>> \in Seq(T) /\ <<x>> # <<>>
      BY ONLY x \in T
    <3> QED BY <3>1, <3>2
  <2>2. d # <<>>
    BY <2>1
  <2> HIDE DEF spaced
  <2>3. Split(spaced, d) \in Seq(Seq(T))
    BY ONLY <1>1, d \in Seq(T), <2>2, SplitBegins
  <2> QED BY <2>1, <2>3
<1> HIDE DEF pieces
<1>3. found \in Seq(Seq(Seq(T)))
  <2>1. DOMAIN pieces = 1..Len(pieces) /\ Len(pieces) \in Nat
        /\ \A i \in 1..Len(pieces) : pieces[i] \in Seq(T)
    BY ONLY <1>2
  <2>2. <<>> \in Seq(Seq(T)) /\ \A x \in Seq(T) : <<x>> \in Seq(Seq(T))
    BY ONLY SMT
  <2>3. found \in [1..Len(pieces) -> Seq(Seq(T))]
    BY <2>1, <2>2
  <2>4. Len(pieces) \in Nat
    BY <2>1
  <2> HIDE DEF found
  <2> QED BY ONLY <2>3, <2>4
<1>4. Fields(line) = FlattenSeq(found)
  BY DEF Fields, found, pieces
<1> HIDE DEF found
<1> QED BY ONLY <1>3, <1>4, FlattenTyped

\* A packet that is found is not empty, and in the buffer.
LEMMA ParseUses ==
  ASSUME NEW T, LineTokens \subseteq T, NEW bytes \in Seq(T), Parse(bytes).is = "packet"
  PROVE  Parse(bytes).used \in 1..Len(bytes)
<1>1. PICK scan : scan = Scan(bytes)
  OBVIOUS
<1>2. PICK ends : ends = LineEnds(scan)
  OBVIOUS
<1>3. PICK cut : cut = Min(ends) - 1
  OBVIOUS
<1>4. PICK line : line = SubSeq(bytes, 1, cut)
  OBVIOUS
<1>5. PICK fields : fields = Fields(line)
  OBVIOUS
<1>6. PICK end : end = cut + 2 + Value(fields[3])
  OBVIOUS
<1>7. ends # {} /\ FieldsOk(fields) /\ Parse(bytes) = ParseBody(bytes, fields, cut + 2)
  <2>1. Parse(bytes)
          = IF ends = {} THEN IF "\n" \in ToSet(scan) \/ Len(scan) >= LineMax THEN Fatal ELSE More
            ELSE IF "bad" \notin ToSet(line) /\ FieldsOk(fields)
            THEN ParseBody(bytes, fields, cut + 2)
            ELSE Fatal
    BY <1>1, <1>2, <1>3, <1>4, <1>5 DEF Parse, Scan
  <2>2. More.is # "packet" /\ Fatal.is # "packet"
    BY DEF More, Fatal
  <2> QED BY <2>1, <2>2
<1>8. bytes \in Seq(T)
  OBVIOUS
<1>9. scan \in Seq(T) /\ Len(scan) <= Len(bytes) /\ Len(scan) \in Nat /\ Len(bytes) \in Nat
  <2>1. Scan(bytes) \in Seq(T) /\ Len(Scan(bytes)) <= Len(bytes)
    BY <1>8, ScanFacts
  <2> QED BY ONLY <1>1, <1>8, <2>1
<1>10. cut \in Nat /\ cut <= Len(bytes)
  <2>1. \A i \in ends : i \in 1..(Len(scan) - 1)
    BY <1>2 DEF LineEnds
  <2>2. ends \subseteq Nat
    BY ONLY <2>1
  <2>3. PICK m : m = Min(ends)
    OBVIOUS
  <2>4. m \in ends
    BY ONLY <1>7, <2>2, <2>3, MinOf
  <2> QED BY ONLY <1>3, <1>9, <2>1, <2>3, <2>4
<1>11. line \in Seq(T)
  <2>1. 0 \in Nat /\ 0 + cut <= Len(bytes) /\ 0 + 1 = 1 /\ 0 + cut = cut
    BY ONLY <1>10
  <2>2. SubSeq(bytes, 0 + 1, 0 + cut) \in Seq(T)
    BY ONLY <1>8, <1>10, <2>1, PieceFacts
  <2> QED BY ONLY <1>4, <2>1, <2>2
<1>12. fields \in Seq(Seq(T))
  <2>1. " " \in T
    BY DEF LineTokens
  <2> QED BY ONLY <1>5, <1>11, <2>1, FieldsTyped
<1>13. Value(fields[3]) \in Nat
  <2>1. Len(fields) = 3 /\ IsNumber(fields[3])
    BY <1>7 DEF FieldsOk
  <2>2. PICK s \in Seq(T) : s = fields[3]
    <3>1. DOMAIN fields = 1..Len(fields) /\ \A i \in DOMAIN fields : fields[i] \in Seq(T)
      <4>1. PICK S : S = Seq(T)
        OBVIOUS
      <4>2. fields \in Seq(S)
        BY <1>12, <4>1
      <4>3. DOMAIN fields = 1..Len(fields) /\ \A i \in DOMAIN fields : fields[i] \in S
        BY ONLY <4>2
      <4> QED BY ONLY <4>1, <4>3
    <3>2. 3 \in 1..3
      BY ONLY SMT
    <3>3. fields[3] \in Seq(T)
      BY ONLY <2>1, <3>1, <3>2
    <3> QED BY ONLY <3>3
  <2>3. PICK u \in Seq(T) : u = Unsigned(s)
    <3>1. s # <<>> => Tail(s) \in Seq(T)
      OBVIOUS
    <3> QED BY <3>1 DEF Unsigned
  <2>4. ToSet(u) \subseteq ToSet(Digits)
    BY <2>1, <2>2, <2>3 DEF IsNumber
  <2>5. u \in Seq(ToSet(Digits))
    <3>1. DOMAIN u = 1..Len(u) /\ Len(u) \in Nat /\ u = [i \in 1..Len(u) |-> u[i]]
      BY ONLY u \in Seq(T)
    <3>2. \A i \in 1..Len(u) : u[i] \in ToSet(Digits)
      BY <2>4, <3>1 DEF ToSet
    <3> QED BY ONLY <3>1, <3>2
  <2> QED BY <2>2, <2>3, <2>5, NumberTyped DEF Value
<1>14. Parse(bytes).used = end + 5 /\ ~(end + 5 > Len(bytes))
  <2>1. More.is # "packet" /\ Fatal.is # "packet"
    BY DEF More, Fatal
  <2>2. Parse(bytes).is = "packet" /\ Parse(bytes) = ParseBody(bytes, fields, cut + 2)
    BY <1>7
  <2> QED BY ONLY <1>6, <2>1, <2>2 DEF ParseBody
<1>15. end \in Nat
  BY ONLY <1>6, <1>10, <1>13
<1> QED BY ONLY <1>9, <1>14, <1>15

-----------------------------------------------------------------------------
(* The packets of a buffer.                                                *)

\* The packets of a buffer from a place on, f those from any later place.
PacketsUpon(bytes, f, at) ==
  LET first == Parse(SubSeq(bytes, at + 1, Len(bytes)))
  IN  IF first.is = "packet"
      THEN LET rest == f[at + first.used]
           IN  [rest EXCEPT !.packets = <<first.packet>> \o @]
      ELSE [packets |-> <<>>, used |-> at, is |-> first.is]

\* The loop takes one packet after the other.
LEMMA PacketsRecursion ==
  ASSUME NEW T, LineTokens \subseteq T, NEW bytes \in Seq(T)
  PROVE  \E f : /\ Packets(bytes) = f[0]
                /\ \A at \in 0..Len(bytes) : f[at] = PacketsUpon(bytes, f, at)
<1>1. PICK n \in Nat : n = Len(bytes)
  OBVIOUS
<1> DEFINE upon(f, at) == PacketsUpon(bytes, f, at)
           from == CHOOSE f : f = [at \in 0..n |-> upon(f, at)]
<1>2. Packets(bytes) = from[0]
  BY <1>1 DEF Packets, PacketsUpon
<1>3. PICK first : first = [i \in 1..(n + 1) |-> Parse(SubSeq(bytes, i, n))]
  OBVIOUS
<1>4. ASSUME NEW i \in 1..(n + 1), first[i].is = "packet"
      PROVE  i \in 1..n /\ first[i].used \in 1..(n - i + 1)
  <2>1. PICK s : s = SubSeq(bytes, i, n)
    OBVIOUS
  <2>2. s \in Seq(T) /\ Len(s) = n - i + 1
    <3>1. PICK k \in Nat : k = i - 1 /\ k + 1 = i /\ k <= n
      OBVIOUS
    <3>2. PICK m \in Nat : m = n - k /\ k + m = n /\ m = n - i + 1
      BY <3>1
    <3>3. bytes \in Seq(T) /\ k + m <= Len(bytes)
      BY <1>1, <3>2
    <3>4. SubSeq(bytes, k + 1, k + m) \in Seq(T) /\ Len(SubSeq(bytes, k + 1, k + m)) = m
      BY ONLY k \in Nat, m \in Nat, <3>3, PieceFacts
    <3> QED BY ONLY <2>1, <3>1, <3>2, <3>4
  <2>3. first[i] = Parse(s)
    BY <1>3, <2>1
  <2>4. Parse(s).used \in 1..Len(s)
    BY <1>4, <2>2, <2>3, ParseUses
  <2>5. first[i].used \in 1..(n - i + 1)
    BY ONLY <2>2, <2>3, <2>4
  <2> QED BY ONLY n \in Nat, i \in 1..(n + 1), <2>5
<1> DEFINE P == {first[i].packet : i \in 1..(n + 1)}
           I == {first[i].is : i \in 1..(n + 1)}
           S == [packets : Seq(P), used : 0..n, is : I]
           none(i) == [packets |-> <<>>, used |-> i - 1, is |-> first[i].is]
           more(i, r) == [r EXCEPT !.packets = <<first[i].packet>> \o @]
           step == [i \in 1..n |-> [r \in S |->
                      IF first[i].is = "packet" THEN more(i, r) ELSE none(i)]]
           next == [i \in 1..n |-> IF first[i].is = "packet" THEN i + first[i].used ELSE n + 1]
<1>5. ASSUME NEW i \in 1..(n + 1)
      PROVE  none(i) \in S /\ \A r \in S : more(i, r) \in S
  <2>1. first[i].packet \in P /\ first[i].is \in I /\ i - 1 \in 0..n
    OBVIOUS
  <2> HIDE DEF P, I
  <2>2. <<>> \in Seq(P) /\ \A s \in Seq(P) : <<first[i].packet>> \o s \in Seq(P)
    BY ONLY <2>1
  <2> QED BY <2>1, <2>2
<1> HIDE DEF S, none, more
<1>6. step \in [1..n -> [S -> S]]
  <2>1. \A i \in 1..n : i \in 1..(n + 1)
    OBVIOUS
  <2> QED BY <1>5, <2>1
<1>7. next \in [1..n -> 1..(n + 1)] /\ \A i \in 1..n : i < next[i]
  <2>1. ASSUME NEW i \in 1..n
        PROVE  /\ (IF first[i].is = "packet" THEN i + first[i].used ELSE n + 1) \in 1..(n + 1)
               /\ i < IF first[i].is = "packet" THEN i + first[i].used ELSE n + 1
    <3>1. i \in 1..(n + 1)
      OBVIOUS
    <3>2. CASE first[i].is = "packet"
      <4>1. first[i].used \in 1..(n - i + 1)
        BY <1>4, <3>1, <3>2
      <4>2. i + first[i].used \in 1..(n + 1) /\ i < i + first[i].used
        BY ONLY n \in Nat, i \in 1..n, <4>1
      <4> QED BY <3>2, <4>2
    <3>3. CASE first[i].is # "packet"
      <4>1. n + 1 \in 1..(n + 1) /\ i < n + 1
        OBVIOUS
      <4> QED BY <3>3, <4>1
    <3> QED BY <3>2, <3>3
  <2> QED BY <2>1
<1>8. n + 1 \in 1..(n + 1) /\ none(n + 1) \in S
  BY <1>5
<1>9. PICK f : f \in FromEnd(S, n, none(n + 1), step, next)
  <2> HIDE DEF step, next
  <2>1. FromEnd(S, n, none(n + 1), step, next) # {}
    BY ONLY n \in Nat, <1>6, <1>7, <1>8, RecursionFromEnd
  <2> QED BY <2>1
<1>10. /\ f \in [1..(n + 1) -> S] /\ f[n + 1] = none(n + 1)
       /\ \A i \in 1..n : f[i] = step[i][f[next[i]]]
  BY <1>9 DEF FromEnd
<1> DEFINE g == [at \in 0..n |-> f[at + 1]]
<1>11. ASSUME NEW i \in 1..(n + 1)
       PROVE  f[i] = IF first[i].is = "packet" THEN more(i, f[i + first[i].used]) ELSE none(i)
  <2>1. CASE i = n + 1
    <3>1. first[i].is # "packet"
      BY <1>4, <2>1
    <3> QED BY <1>10, <2>1, <3>1
  <2>2. CASE i # n + 1
    <3>1. i \in 1..n
      BY <2>2
    <3>2. next[i] \in 1..(n + 1) /\ f[i] = step[i][f[next[i]]]
      BY <1>7, <1>10, <3>1
    <3>3. f[next[i]] \in S
      BY <1>10, <3>2
    <3>4. step[i][f[next[i]]] = IF first[i].is = "packet" THEN more(i, f[next[i]]) ELSE none(i)
      <4> HIDE DEF next
      <4> QED BY <3>1, <3>3
    <3>5. first[i].is = "packet" => next[i] = i + first[i].used
      BY <3>1
    <3> HIDE DEF step, next
    <3> QED BY ONLY <3>2, <3>4, <3>5
  <2> QED BY <2>1, <2>2
<1> HIDE DEF step, next
<1>12. ASSUME NEW at \in 0..n PROVE g[at] = upon(g, at)
  <2>1. PICK i \in 1..(n + 1) : i = at + 1 /\ i - 1 = at
    <3>1. at + 1 \in 1..(n + 1) /\ (at + 1) - 1 = at
      OBVIOUS
    <3> QED BY ONLY <3>1
  <2>2. g[at] = f[i]
    BY <2>1
  <2>3. first[i] = Parse(SubSeq(bytes, at + 1, Len(bytes)))
    BY <1>1, <1>3, <2>1
  <2>4. CASE first[i].is = "packet"
    <3>1. first[i].used \in 1..(n - i + 1)
      BY <1>4, <2>4
    <3>2. at + first[i].used \in 0..n /\ (at + first[i].used) + 1 = i + first[i].used
      BY ONLY n \in Nat, at \in 0..n, <2>1, <3>1
    <3>3. g[at + first[i].used] = f[i + first[i].used]
      BY <3>2
    <3> HIDE DEF g
    <3>4. upon(g, at) = more(i, g[at + first[i].used])
      BY <2>3, <2>4 DEF PacketsUpon, more
    <3> QED BY <1>11, <2>2, <2>4, <3>3, <3>4
  <2>5. CASE first[i].is # "packet"
    <3> HIDE DEF g
    <3>1. upon(g, at) = none(i)
      BY <2>1, <2>3, <2>5 DEF PacketsUpon, none
    <3> QED BY <1>11, <2>2, <2>5, <3>1
  <2> QED BY <2>4, <2>5
<1> HIDE DEF upon
<1>13. g = [at \in 0..n |-> upon(g, at)]
  BY <1>12
<1> HIDE DEF g
<1>14. from = [at \in 0..n |-> upon(from, at)]
  BY <1>13
<1> HIDE DEF from
<1>15. \A at \in 0..n : from[at] = upon(from, at)
  BY <1>14
<1> QED BY ONLY <1>1, <1>2, <1>15 DEF upon

-----------------------------------------------------------------------------
(* The stream.                                                             *)

\* The packets of P are written in the bytes of T.
WrittenIn(T, P) == \A p \in P : Bytes(p) \in Seq(T)

\* The stream of some packets and of others after them.
LEMMA StreamConcat ==
  ASSUME NEW T, NEW P, WrittenIn(T, P), NEW s \in Seq(P), NEW t \in Seq(P)
  PROVE  /\ WireBytes(s) \in Seq(T) /\ WireBytes(t) \in Seq(T)
         /\ WireBytes(s \o t) = WireBytes(s) \o WireBytes(t)
<1> DEFINE all(u) == [i \in DOMAIN u |-> Bytes(u[i])]
<1>1. ASSUME NEW u \in Seq(P)
      PROVE  /\ all(u) \in Seq(Seq(T)) /\ Len(all(u)) = Len(u) /\ WireBytes(u) = FlattenSeq(all(u))
             /\ \A i \in 1..Len(u) : all(u)[i] = Bytes(u[i])
  <2>1. DOMAIN u = 1..Len(u) /\ Len(u) \in Nat /\ \A i \in 1..Len(u) : u[i] \in P
    BY ONLY u \in Seq(P)
  <2>2. all(u) \in [1..Len(u) -> Seq(T)] /\ \A i \in 1..Len(u) : all(u)[i] = Bytes(u[i])
    BY <2>1 DEF WrittenIn
  <2>3. WireBytes(u) = FlattenSeq(all(u))
    BY DEF WireBytes
  <2> HIDE DEF all
  <2>4. all(u) \in Seq(Seq(T)) /\ Len(all(u)) = Len(u)
    <3>1. PICK S, x, n : S = Seq(T) /\ x = all(u) /\ n = Len(u)
      OBVIOUS
    <3>2. x \in [1..n -> S] /\ n \in Nat
      BY ONLY <2>1, <2>2, <3>1
    <3>3. x \in Seq(S) /\ Len(x) = n
      BY ONLY <3>2
    <3> QED BY ONLY <3>1, <3>3
  <2>5. \A i \in 1..Len(u) : all(u)[i] = Bytes(u[i])
    BY ONLY <2>2
  <2> QED BY ONLY <2>3, <2>4, <2>5, Zenon
<1> HIDE DEF all
<1>2. PICK c : c = s \o t
  OBVIOUS
<1>3. /\ c \in Seq(P) /\ Len(c) = Len(s) + Len(t)
      /\ \A i \in 1..Len(s) : c[i] = s[i]
      /\ \A i \in 1..Len(t) : c[Len(s) + i] = t[i]
  BY ONLY s \in Seq(P), t \in Seq(P), <1>2, ConcatParts
<1>4. PICK m, n \in Nat : m = Len(s) /\ n = Len(t)
  OBVIOUS
<1>5. PICK x, y, z \in Seq(Seq(T)) : x = all(s) /\ y = all(t) /\ z = all(c)
  BY <1>1, <1>3
<1>6. /\ Len(x) = m /\ Len(y) = n /\ Len(z) = m + n
      /\ \A i \in 1..m : x[i] = Bytes(s[i])
      /\ \A i \in 1..n : y[i] = Bytes(t[i])
      /\ \A i \in 1..(m + n) : z[i] = Bytes(c[i])
  BY ONLY s \in Seq(P), t \in Seq(P), <1>1, <1>3, <1>4, <1>5
<1>7. ASSUME NEW i \in 1..m PROVE z[i] = x[i]
  <2>1. i \in 1..(m + n)
    OBVIOUS
  <2> QED BY <1>3, <1>4, <1>6, <2>1
<1>8. ASSUME NEW i \in 1..n PROVE z[m + i] = y[i]
  <2>1. m + i \in 1..(m + n)
    OBVIOUS
  <2> QED BY <1>3, <1>4, <1>6, <2>1
<1>9. z = x \o y
  <2>1. PICK S : S = Seq(T)
    OBVIOUS
  <2>2. x \in Seq(S) /\ y \in Seq(S) /\ z \in Seq(S)
    BY <2>1
  <2>3. /\ Len(z) = Len(x) + Len(y)
        /\ \A i \in 1..Len(x) : z[i] = x[i]
        /\ \A i \in 1..Len(y) : z[Len(x) + i] = y[i]
    BY <1>6, <1>7, <1>8
  <2> QED BY ONLY <2>2, <2>3, ConcatIs
<1>10. FlattenSeq(z) = FlattenSeq(x) \o FlattenSeq(y)
  BY ONLY x \in Seq(Seq(T)), y \in Seq(Seq(T)), <1>9, FlattenConcat
<1>11. WireBytes(s) = FlattenSeq(x) /\ WireBytes(t) = FlattenSeq(y) /\ WireBytes(c) = FlattenSeq(z)
  BY <1>1, <1>3, <1>5
<1>12. FlattenSeq(x) \in Seq(T) /\ FlattenSeq(y) \in Seq(T)
  BY FlattenTyped
<1> QED BY ONLY <1>2, <1>10, <1>11, <1>12

LEMMA StreamOne ==
  ASSUME NEW T, NEW p, Bytes(p) \in Seq(T)
  PROVE  WireBytes(<<p>>) = Bytes(p)
<1>1. [i \in DOMAIN <<p>> |-> Bytes(<<p>>[i])] = <<Bytes(p)>>
  <2>1. DOMAIN <<p>> = 1..1 /\ <<p>>[1] = p
    OBVIOUS
  <2> QED BY <2>1
<1>2. WireBytes(<<p>>) = FlattenSeq(<<Bytes(p)>>)
  BY <1>1 DEF WireBytes
<1> QED BY <1>2, FlattenOne

\* Where the first packets of a stream end.
Ends(packets) == [k \in 0..Len(packets) |-> Len(WireBytes(SubSeq(packets, 1, k)))]

\* A stream of packets and what follows them, cut at their ends e.
Streamed(T, whole, packets, garbage, e) ==
  LET n == Len(packets)
  IN  /\ whole \in Seq(T) /\ e \in [0..n -> Nat] /\ e[0] = 0
      /\ \A k \in 0..(n - 1) :
           /\ e[k + 1] = e[k] + Len(Bytes(packets[k + 1]))
           /\ \A j \in 1..Len(Bytes(packets[k + 1])) : whole[e[k] + j] = Bytes(packets[k + 1])[j]
      /\ e[n] + Len(garbage) = Len(whole)
      /\ \A j \in 1..Len(garbage) : whole[e[n] + j] = garbage[j]
      /\ \A k \in 0..n :
           /\ WireBytes(SubSeq(packets, k + 1, n)) \in Seq(T)
           /\ e[k] + Len(WireBytes(SubSeq(packets, k + 1, n))) = e[n]
           /\ \A j \in 1..Len(WireBytes(SubSeq(packets, k + 1, n))) :
                whole[e[k] + j] = WireBytes(SubSeq(packets, k + 1, n))[j]

LEMMA StreamCut ==
  ASSUME NEW T, NEW P, WrittenIn(T, P), NEW packets \in Seq(P),
         NEW garbage \in Seq(T), NEW whole, whole = WireBytes(packets) \o garbage
  PROVE  Streamed(T, whole, packets, garbage, Ends(packets))
<1>1. PICK n \in Nat : n = Len(packets)
  OBVIOUS
<1>2. PICK e : e = Ends(packets)
  OBVIOUS
<1>3. PICK all : all = WireBytes(packets)
  OBVIOUS
<1>4. ASSUME NEW k \in 0..n
      PROVE  \E before, after :
               /\ before = WireBytes(SubSeq(packets, 1, k)) /\ after = WireBytes(SubSeq(packets, k + 1, n))
               /\ before \in Seq(T) /\ after \in Seq(T) /\ all = before \o after /\ e[k] = Len(before)
  <2>1. PICK a, b \in Seq(P) :
          a = SubSeq(packets, 1, k) /\ b = SubSeq(packets, k + 1, n) /\ packets = a \o b
    <3>1. k \in 0..Len(packets)
      BY <1>1
    <3>2. /\ SubSeq(packets, 1, k) \in Seq(P) /\ SubSeq(packets, k + 1, Len(packets)) \in Seq(P)
          /\ packets = SubSeq(packets, 1, k) \o SubSeq(packets, k + 1, Len(packets))
      BY ONLY packets \in Seq(P), <3>1, Halves
    <3> QED BY ONLY <1>1, <3>2
  <2>2. WireBytes(a) \in Seq(T) /\ WireBytes(b) \in Seq(T) /\ WireBytes(a \o b) = WireBytes(a) \o WireBytes(b)
    BY ONLY WrittenIn(T, P), a \in Seq(P), b \in Seq(P), StreamConcat
  <2>3. e[k] = Len(WireBytes(SubSeq(packets, 1, k)))
    BY <1>1, <1>2 DEF Ends
  <2>4. all = WireBytes(a \o b)
    BY <1>3, <2>1
  <2> QED BY ONLY <2>1, <2>2, <2>3, <2>4
<1>5. all \in Seq(T) /\ e[n] = Len(all)
  <2>1. n \in 0..n
    OBVIOUS
  <2>2. SubSeq(packets, 1, n) = packets
    BY <1>1, SubSeqAll
  <2> QED BY <1>3, <1>4, <2>1, <2>2
<1>6. e[0] = 0
  <2>1. SubSeq(packets, 1, 0) = <<>> /\ 0 \in 0..n
    OBVIOUS
  <2>2. WireBytes(<<>>) = <<>>
    <3>1. [i \in DOMAIN <<>> |-> Bytes(<<>>[i])] = <<>>
      OBVIOUS
    <3>2. FlattenSeq(<<>>) = <<>>
      BY DEF FlattenSeq
    <3> QED BY <3>1, <3>2 DEF WireBytes
  <2>3. e[0] = Len(WireBytes(SubSeq(packets, 1, 0)))
    BY <1>1, <1>2, <2>1 DEF Ends
  <2>4. Len(<<>>) = 0
    OBVIOUS
  <2> QED BY ONLY <2>1, <2>2, <2>3, <2>4, Zenon
<1>7. e \in [0..n -> Nat]
  <2>1. \A k \in 0..n : e[k] \in Nat
    <3> SUFFICES ASSUME NEW k \in 0..n PROVE e[k] \in Nat
      OBVIOUS
    <3>1. PICK before \in Seq(T) : e[k] = Len(before)
      BY <1>4
    <3> QED BY <3>1
  <2>2. e = [k \in 0..n |-> e[k]]
    BY <1>1, <1>2 DEF Ends
  <2> QED BY <2>1, <2>2
<1>8. /\ whole \in Seq(T) /\ Len(whole) = e[n] + Len(garbage)
      /\ \A j \in 1..e[n] : whole[j] = all[j]
      /\ \A j \in 1..Len(garbage) : whole[e[n] + j] = garbage[j]
  <2>1. whole = all \o garbage
    BY <1>3
  <2>2. /\ whole \in Seq(T) /\ Len(whole) = Len(all) + Len(garbage)
        /\ \A j \in 1..Len(all) : whole[j] = all[j]
        /\ \A j \in 1..Len(garbage) : whole[Len(all) + j] = garbage[j]
    BY ONLY <1>5, garbage \in Seq(T), <2>1, ConcatParts
  <2> QED BY ONLY <1>5, <2>2
<1>9. ASSUME NEW k \in 0..n
      PROVE  /\ WireBytes(SubSeq(packets, k + 1, n)) \in Seq(T)
             /\ e[k] + Len(WireBytes(SubSeq(packets, k + 1, n))) = e[n]
             /\ \A j \in 1..Len(WireBytes(SubSeq(packets, k + 1, n))) :
                  whole[e[k] + j] = WireBytes(SubSeq(packets, k + 1, n))[j]
  <2>1. PICK before, after \in Seq(T) :
          /\ after = WireBytes(SubSeq(packets, k + 1, n))
          /\ all = before \o after /\ e[k] = Len(before)
    BY <1>4
  <2>2. /\ Len(all) = e[k] + Len(after)
        /\ \A j \in 1..Len(after) : all[e[k] + j] = after[j]
    <3>1. all = before \o after
      BY <2>1
    <3>2. /\ Len(all) = Len(before) + Len(after)
          /\ \A j \in 1..Len(after) : all[Len(before) + j] = after[j]
      BY ONLY before \in Seq(T), after \in Seq(T), <3>1, ConcatParts
    <3> QED BY ONLY <2>1, <3>2
  <2>3. PICK l, c, d \in Nat : l = Len(after) /\ c = e[k] /\ d = e[n]
    <3>1. n \in 0..n
      OBVIOUS
    <3> QED BY <1>7, <3>1
  <2>4. c + l = d
    BY ONLY <1>5, <2>2, <2>3
  <2>5. \A j \in 1..l : c + j \in 1..d
    BY ONLY c \in Nat, l \in Nat, d \in Nat, <2>4
  <2> QED BY ONLY after \in Seq(T), <1>8, <2>1, <2>2, <2>3, <2>4, <2>5
<1>10. ASSUME NEW k \in 0..(n - 1)
       PROVE  /\ e[k + 1] = e[k] + Len(Bytes(packets[k + 1]))
              /\ \A j \in 1..Len(Bytes(packets[k + 1])) :
                   whole[e[k] + j] = Bytes(packets[k + 1])[j]
  <2>1. k \in 0..n /\ k + 1 \in 0..n /\ k < n /\ n \in 0..n
    OBVIOUS
  <2>2. PICK b : b = Bytes(packets[k + 1])
    OBVIOUS
  <2>3. packets[k + 1] \in P /\ b \in Seq(T)
    <3>1. k + 1 \in 1..Len(packets)
      BY <1>1, <2>1
    <3>2. packets[k + 1] \in P
      BY ONLY packets \in Seq(P), <3>1
    <3> QED BY <2>2, <3>2 DEF WrittenIn
  <2>4. PICK before \in Seq(T) : before = WireBytes(SubSeq(packets, 1, k)) /\ e[k] = Len(before)
    BY <1>4, <2>1
  <2>5. PICK longer, after \in Seq(T) : /\ longer = WireBytes(SubSeq(packets, 1, k + 1))
                                        /\ all = longer \o after /\ e[k + 1] = Len(longer)
    BY <1>4, <2>1
  <2>6. longer = before \o b
    <3>1. PICK a, o \in Seq(P) : a = SubSeq(packets, 1, k) /\ o = <<packets[k + 1]>>
      <4>1. SubSeq(packets, 1, k) \in Seq(P)
        <5>1. k \in 0..Len(packets)
          BY <1>1, <2>1
        <5> QED BY ONLY packets \in Seq(P), <5>1, Halves
      <4>2. <<packets[k + 1]>> \in Seq(P)
        BY <2>3
      <4> QED BY <4>1, <4>2
    <3>2. SubSeq(packets, 1, k + 1) = a \o o
      <4>1. k \in 0..Len(packets) /\ k < Len(packets)
        BY <1>1, <2>1
      <4>2. SubSeq(packets, 1, k + 1) = SubSeq(packets, 1, k) \o <<packets[k + 1]>>
        BY ONLY packets \in Seq(P), <4>1, LongerHalf
      <4> QED BY ONLY <3>1, <4>2
    <3>3. WireBytes(a \o o) = WireBytes(a) \o WireBytes(o)
      BY ONLY WrittenIn(T, P), a \in Seq(P), o \in Seq(P), StreamConcat
    <3>4. WireBytes(o) = b
      BY <2>2, <2>3, <3>1, StreamOne
    <3> QED BY ONLY <2>4, <2>5, <3>1, <3>2, <3>3, <3>4
  <2>7. /\ Len(longer) = Len(before) + Len(b)
        /\ \A j \in 1..Len(b) : longer[Len(before) + j] = b[j]
    BY ONLY before \in Seq(T), <2>3, <2>6, ConcatParts
  <2>8. /\ Len(all) = Len(longer) + Len(after)
        /\ \A j \in 1..Len(longer) : all[j] = longer[j]
    BY ONLY longer \in Seq(T), after \in Seq(T), <2>5, ConcatParts
  <2>9. PICK c, d, l, m \in Nat : c = e[k] /\ d = e[n] /\ l = Len(b) /\ m = Len(after)
    BY <1>7, <2>1, <2>3
  <2>10. e[k + 1] = c + l /\ d = (c + l) + m
    BY ONLY <1>5, <2>4, <2>5, <2>7, <2>8, <2>9
  <2>11. \A j \in 1..l : c + j \in 1..d /\ c + j \in 1..(c + l)
    BY ONLY c \in Nat, l \in Nat, m \in Nat, <2>10
  <2>12. ASSUME NEW j \in 1..l PROVE whole[c + j] = b[j]
    <3>1. whole[c + j] = all[c + j]
      BY ONLY <1>8, <2>9, <2>11, j \in 1..l
    <3>2. all[c + j] = longer[c + j]
      BY ONLY <2>5, <2>8, <2>10, <2>11, j \in 1..l
    <3>3. longer[c + j] = b[j]
      BY ONLY <2>4, <2>7, <2>9, j \in 1..l
    <3> QED BY ONLY <3>1, <3>2, <3>3
  <2> QED BY ONLY <2>2, <2>9, <2>10, <2>12
<1>11. Streamed(T, whole, packets, garbage, e)
  BY ONLY <1>1, <1>6, <1>7, <1>8, <1>9, <1>10 DEF Streamed
<1> QED BY <1>2, <1>11

-----------------------------------------------------------------------------
(* Pieces of a sequence, by the places they begin and end at.              *)

\* The items of s after the first a, up to the one at b.
LEMMA Between ==
  ASSUME NEW T, NEW s \in Seq(T), NEW a \in Nat, NEW b \in Nat, a <= b, b <= Len(s)
  PROVE  /\ SubSeq(s, a + 1, b) \in Seq(T) /\ Len(SubSeq(s, a + 1, b)) = b - a
         /\ \A j \in 1..(b - a) : SubSeq(s, a + 1, b)[j] = s[a + j]
<1>1. PICK n \in Nat : n = b - a /\ a + n = b
  OBVIOUS
<1>2. a + n <= Len(s)
  BY <1>1
<1>3. /\ SubSeq(s, a + 1, a + n) \in Seq(T) /\ Len(SubSeq(s, a + 1, a + n)) = n
      /\ \A j \in 1..n : SubSeq(s, a + 1, a + n)[j] = s[a + j]
  BY ONLY s \in Seq(T), a \in Nat, n \in Nat, <1>2, PieceFacts
<1> QED BY ONLY <1>1, <1>3

\* A piece of a piece.
LEMMA BetweenTwice ==
  ASSUME NEW T, NEW s \in Seq(T), NEW a \in Nat, NEW b \in Nat, NEW c \in Nat, NEW d \in Nat,
         a <= b, b <= c, c <= d, d <= Len(s)
  PROVE  SubSeq(SubSeq(s, a + 1, d), (b - a) + 1, c - a) = SubSeq(s, b + 1, c)
<1>1. PICK t : t = SubSeq(s, a + 1, d)
  OBVIOUS
<1>2. a <= d /\ b <= Len(s) /\ c <= Len(s)
  BY ONLY a \in Nat, b \in Nat, c \in Nat, d \in Nat, a <= b, b <= c, c <= d, d <= Len(s),
          s \in Seq(T)
<1>3. t \in Seq(T) /\ Len(t) = d - a /\ \A j \in 1..(d - a) : t[j] = s[a + j]
  BY ONLY s \in Seq(T), a \in Nat, d \in Nat, d <= Len(s), <1>1, <1>2, Between
<1>4. PICK u : u = SubSeq(s, b + 1, c)
  OBVIOUS
<1>5. u \in Seq(T) /\ Len(u) = c - b /\ \A j \in 1..(c - b) : u[j] = s[b + j]
  BY ONLY s \in Seq(T), b \in Nat, c \in Nat, b <= c, <1>2, <1>4, Between
<1>6. PICK i \in Nat : i = b - a
  OBVIOUS
<1>7. i + Len(u) <= Len(t) /\ i + Len(u) = c - a
  BY ONLY a \in Nat, b \in Nat, c \in Nat, d \in Nat, c <= d, <1>3, <1>5, <1>6
<1>8. ASSUME NEW j \in 1..Len(u) PROVE t[i + j] = u[j]
  <2>1. j \in 1..(c - b) /\ i + j \in 1..(d - a) /\ a + (i + j) = b + j
    BY ONLY a \in Nat, b \in Nat, c \in Nat, d \in Nat, c <= d, <1>5, <1>6, j \in 1..Len(u)
  <2> QED BY ONLY <1>3, <1>5, <2>1
<1>9. SubSeq(t, i + 1, i + Len(u)) = u
  <2>1. t \in Seq(T) /\ u \in Seq(T) /\ i + Len(u) <= Len(t)
    BY <1>3, <1>5, <1>7
  <2> QED BY ONLY i \in Nat, <1>8, <2>1, PieceIs
<1> QED BY ONLY <1>1, <1>4, <1>6, <1>7, <1>9

\* A piece and the one after it.
LEMMA BetweenJoined ==
  ASSUME NEW T, NEW s \in Seq(T), NEW a \in Nat, NEW b \in Nat, NEW c \in Nat,
         a <= b, b <= c, c <= Len(s)
  PROVE  SubSeq(s, a + 1, b) \o SubSeq(s, b + 1, c) = SubSeq(s, a + 1, c)
<1>1. PICK t, u, v : /\ t = SubSeq(s, a + 1, b) /\ u = SubSeq(s, b + 1, c)
                     /\ v = SubSeq(s, a + 1, c)
  OBVIOUS
<1>2. a <= c /\ b <= Len(s)
  BY ONLY a \in Nat, b \in Nat, c \in Nat, a <= b, b <= c, c <= Len(s), s \in Seq(T)
<1>3. t \in Seq(T) /\ Len(t) = b - a /\ \A j \in 1..(b - a) : t[j] = s[a + j]
  BY ONLY s \in Seq(T), a \in Nat, b \in Nat, a <= b, <1>1, <1>2, Between
<1>4. u \in Seq(T) /\ Len(u) = c - b /\ \A j \in 1..(c - b) : u[j] = s[b + j]
  BY ONLY s \in Seq(T), b \in Nat, c \in Nat, b <= c, c <= Len(s), <1>1, Between
<1>5. v \in Seq(T) /\ Len(v) = c - a /\ \A j \in 1..(c - a) : v[j] = s[a + j]
  BY ONLY s \in Seq(T), a \in Nat, c \in Nat, c <= Len(s), <1>1, <1>2, Between
<1>6. Len(v) = Len(t) + Len(u)
  BY ONLY a \in Nat, b \in Nat, c \in Nat, <1>3, <1>4, <1>5
<1>7. ASSUME NEW j \in 1..Len(t) PROVE v[j] = t[j]
  <2>1. j \in 1..(b - a) /\ j \in 1..(c - a)
    BY ONLY a \in Nat, b \in Nat, c \in Nat, b <= c, <1>3, j \in 1..Len(t)
  <2> QED BY ONLY <1>3, <1>5, <2>1
<1>8. ASSUME NEW j \in 1..Len(u) PROVE v[Len(t) + j] = u[j]
  <2>1. j \in 1..(c - b) /\ Len(t) + j \in 1..(c - a) /\ a + (Len(t) + j) = b + j
    BY ONLY a \in Nat, b \in Nat, c \in Nat, a <= b, <1>3, <1>4, j \in 1..Len(u)
  <2> QED BY ONLY <1>4, <1>5, <2>1
<1>9. t \in Seq(T) /\ u \in Seq(T) /\ v \in Seq(T)
  BY <1>3, <1>4, <1>5
<1>10. v = t \o u
  BY ONLY <1>6, <1>7, <1>8, <1>9, ConcatIs
<1> QED BY ONLY <1>1, <1>10

-----------------------------------------------------------------------------
(* The packets at the front of a piece of the stream.                      *)

\* A whole packet is found, the beginning of one is waited for.
LEMMA ParseBytes ==
  ASSUME NEW T, NEW p, WritableIn(T, p)
  PROVE  /\ Bytes(p) \in Seq(T) /\ Len(Bytes(p)) >= 1
         /\ \A bytes \in Seq(T) :
              /\ Len(Bytes(p)) <= Len(bytes) /\ (\A i \in 1..Len(Bytes(p)) : bytes[i] = Bytes(p)[i])
                   => Parse(bytes) = [is |-> "packet", used |-> Len(Bytes(p)), packet |-> p]
              /\ Len(bytes) < Len(Bytes(p)) /\ (\A i \in 1..Len(bytes) : bytes[i] = Bytes(p)[i])
                   => Parse(bytes) = More
<1>1. PICK f, b : Laid(T, p, f, b)
  BY BytesFacts
<1>2. f \in Nat /\ b \in Nat /\ Bytes(p) \in Seq(T) /\ Len(Bytes(p)) = f + b + 7
  BY ONLY <1>1 DEF Laid
<1>3. Len(Bytes(p)) >= 1
  BY ONLY <1>2
<1>4. ASSUME NEW bytes \in Seq(T), Len(Bytes(p)) <= Len(bytes),
             \A i \in 1..Len(Bytes(p)) : bytes[i] = Bytes(p)[i]
      PROVE  Parse(bytes) = [is |-> "packet", used |-> Len(Bytes(p)), packet |-> p]
  <2>1. f + b + 7 <= Len(bytes) /\ \A i \in 1..(f + b + 7) : bytes[i] = Bytes(p)[i]
    BY ONLY <1>2, <1>4
  <2>2. Parse(bytes) = [is |-> "packet", used |-> f + b + 7, packet |-> p]
    BY ONLY WritableIn(T, p), bytes \in Seq(T), FramingAssumption, <1>1, <2>1, ParseWhole
  <2> QED BY ONLY <1>2, <2>2
<1>5. ASSUME NEW bytes \in Seq(T), Len(bytes) < Len(Bytes(p)),
             \A i \in 1..Len(bytes) : bytes[i] = Bytes(p)[i]
      PROVE  Parse(bytes) = More
  <2>1. Len(bytes) < f + b + 7
    BY ONLY <1>2, <1>5
  <2> QED BY ONLY WritableIn(T, p), bytes \in Seq(T), FramingAssumption, <1>1, <1>5, <2>1, ParsePart
<1> QED BY ONLY <1>2, <1>3, <1>4, <1>5

\* A piece that begins with its first item.
LEMMA FirstOfPiece ==
  ASSUME NEW T, NEW s \in Seq(T), NEW a \in Nat, NEW b \in Nat, a < b, b <= Len(s)
  PROVE  SubSeq(s, a + 1, b) = <<s[a + 1]>> \o SubSeq(s, a + 2, b)
<1>1. PICK c \in Nat : c = a + 1 /\ c + 1 = a + 2 /\ a <= c /\ c <= b
  OBVIOUS
<1>2. SubSeq(s, a + 1, c) \o SubSeq(s, c + 1, b) = SubSeq(s, a + 1, b)
  BY ONLY s \in Seq(T), a \in Nat, b \in Nat, c \in Nat, b <= Len(s), <1>1, BetweenJoined
<1>3. SubSeq(s, a + 1, c) = <<s[a + 1]>>
  <2>1. PICK t, u : t = SubSeq(s, a + 1, c) /\ u = <<s[a + 1]>>
    OBVIOUS
  <2>2. s[a + 1] \in T /\ c <= Len(s) /\ c - a = 1 /\ 1 \in 1..1
    BY <1>1
  <2>3. t \in Seq(T) /\ Len(t) = 1 /\ t[1] = s[a + 1]
    <3>1. t \in Seq(T) /\ Len(t) = c - a /\ \A j \in 1..(c - a) : t[j] = s[a + j]
      BY ONLY s \in Seq(T), a \in Nat, c \in Nat, <1>1, <2>1, <2>2, Between
    <3> QED BY ONLY <2>2, <3>1
  <2>4. u \in Seq(T) /\ Len(u) = 1 /\ u[1] = s[a + 1]
    BY ONLY <2>1, <2>2
  <2>5. Len(t) = Len(u) /\ \A j \in 1..Len(t) : t[j] = u[j]
    BY ONLY <2>3, <2>4
  <2>6. t \in Seq(T) /\ u \in Seq(T)
    BY ONLY <2>3, <2>4
  <2>7. t = u
    BY ONLY <2>5, <2>6, SameItems
  <2> QED BY ONLY <2>1, <2>7
<1> QED BY ONLY <1>1, <1>2, <1>3

\* What the buffer's packets are from a place on, when the stream's packet k + 1
\* begins there: those up to some j, and whether the next one is on its way.
Found(found, packets, e, r, k, j, start) ==
  /\ start <= e[j]
  /\ \E x : /\ found = [packets |-> SubSeq(packets, k + 1, j), used |-> e[j] - start, is |-> x]
            /\ j < Len(packets) => x = "more" /\ r < e[j + 1]

\* The packets of a buffer are those of the stream that are whole in it.
LEMMA PacketsCut ==
  ASSUME NEW T, NEW P, \A p \in P : WritableIn(T, p), NEW packets \in Seq(P),
         NEW garbage \in Seq(T), HoldsNoPacket(garbage), LineTokens \subseteq T,
         NEW whole, NEW e, Streamed(T, whole, packets, garbage, e),
         NEW begun \in 0..Len(packets), NEW r \in Nat, e[begun] <= r, r <= Len(whole)
  PROVE  \E j \in begun..Len(packets) :
           /\ e[j] <= r
           /\ Found(Packets(SubSeq(whole, e[begun] + 1, r)), packets, e, r, begun, j, e[begun])
<1>1. PICK n \in Nat : n = Len(packets)
  OBVIOUS
<1>2. /\ whole \in Seq(T) /\ e \in [0..n -> Nat]
      /\ \A k \in 0..(n - 1) :
           /\ e[k + 1] = e[k] + Len(Bytes(packets[k + 1]))
           /\ \A j \in 1..Len(Bytes(packets[k + 1])) : whole[e[k] + j] = Bytes(packets[k + 1])[j]
      /\ e[n] + Len(garbage) = Len(whole)
      /\ \A j \in 1..Len(garbage) : whole[e[n] + j] = garbage[j]
  BY ONLY Streamed(T, whole, packets, garbage, e), <1>1 DEF Streamed
<1>3. PICK start \in Nat : start = e[begun] /\ start <= r
  <2>1. e[begun] \in Nat
    BY <1>1, <1>2
  <2> QED BY <2>1
<1>4. PICK bytes : bytes = SubSeq(whole, start + 1, r)
  OBVIOUS
<1>5. bytes \in Seq(T) /\ Len(bytes) = r - start
  <2>1. whole \in Seq(T) /\ r <= Len(whole)
    BY <1>2
  <2>2. start <= r
    BY ONLY <1>3
  <2>3. SubSeq(whole, start + 1, r) \in Seq(T) /\ Len(SubSeq(whole, start + 1, r)) = r - start
    BY ONLY start \in Nat, r \in Nat, <2>1, <2>2, Between
  <2> QED BY ONLY <1>4, <2>3
<1>6. PICK f : /\ Packets(bytes) = f[0]
               /\ \A at \in 0..Len(bytes) : f[at] = PacketsUpon(bytes, f, at)
  <2>1. bytes \in Seq(T)
    BY <1>5
  <2> QED BY ONLY LineTokens \subseteq T, FramingAssumption, <2>1, PacketsRecursion
<1> DEFINE Good(k) == \E j \in k..n : e[j] <= r /\ Found(f[e[k] - start], packets, e, r, k, j, start)
           At(k) == begun <= k /\ start <= e[k] /\ e[k] <= r
           K == {i \in 1..(n + 1) : At(i - 1) => Good(i - 1)}
<1>7. ASSUME NEW k \in 0..n, At(k)
      PROVE  \E c, at \in Nat, rest \in Seq(T) :
               /\ c = e[k] /\ at = c - start /\ at \in 0..Len(bytes)
               /\ rest = SubSeq(bytes, at + 1, Len(bytes))
               /\ Len(rest) = r - c /\ \A i \in 1..(r - c) : rest[i] = whole[c + i]
               /\ f[at] = PacketsUpon(bytes, f, at)
  <2>1. PICK c \in Nat : c = e[k] /\ start <= c /\ c <= r
    <3>1. e[k] \in Nat
      BY <1>2
    <3> QED BY <1>7, <3>1
  <2>2. PICK at \in Nat : at = c - start /\ at \in 0..Len(bytes)
    <3>1. c - start \in Nat /\ c - start \in 0..(r - start)
      BY ONLY c \in Nat, start \in Nat, r \in Nat, <2>1
    <3> QED BY ONLY <1>5, <3>1
  <2>3. SubSeq(bytes, at + 1, Len(bytes)) = SubSeq(whole, c + 1, r)
    <3>1. whole \in Seq(T) /\ r <= Len(whole)
      BY <1>2
    <3>2. start <= c /\ c <= r /\ r <= r
      BY ONLY r \in Nat, <2>1
    <3>3. SubSeq(SubSeq(whole, start + 1, r), (c - start) + 1, r - start) = SubSeq(whole, c + 1, r)
      <4>1. \A w \in Seq(T) :
              r <= Len(w) => SubSeq(SubSeq(w, start + 1, r), (c - start) + 1, r - start)
                               = SubSeq(w, c + 1, r)
        BY ONLY start \in Nat, c \in Nat, r \in Nat, <3>2, BetweenTwice
      <4> QED BY ONLY <3>1, <4>1
    <3> QED BY ONLY <1>4, <1>5, <2>2, <3>3
  <2>4. PICK rest : rest = SubSeq(whole, c + 1, r)
    OBVIOUS
  <2>5. rest \in Seq(T) /\ Len(rest) = r - c /\ \A i \in 1..(r - c) : rest[i] = whole[c + i]
    <3>1. whole \in Seq(T) /\ r <= Len(whole)
      BY <1>2
    <3>2. c <= r
      BY ONLY <2>1
    <3>3. \A v \in Seq(T) :
            r <= Len(v) => /\ SubSeq(v, c + 1, r) \in Seq(T) /\ Len(SubSeq(v, c + 1, r)) = r - c
                           /\ \A i \in 1..(r - c) : SubSeq(v, c + 1, r)[i] = v[c + i]
      BY ONLY c \in Nat, r \in Nat, <3>2, Between
    <3> QED BY ONLY <2>4, <3>1, <3>3
  <2>6. f[at] = PacketsUpon(bytes, f, at)
    BY <1>6, <2>2
  <2> QED BY ONLY c \in Nat, at \in Nat, <2>1, <2>2, <2>3, <2>4, <2>5, <2>6
<1>8. At(n) => Good(n)
  <2> SUFFICES ASSUME At(n) PROVE Good(n)
    OBVIOUS
  <2>1. PICK c, at \in Nat, rest \in Seq(T) :
          /\ c = e[n] /\ at = c - start /\ at \in 0..Len(bytes)
          /\ rest = SubSeq(bytes, at + 1, Len(bytes))
          /\ Len(rest) = r - c /\ \A i \in 1..(r - c) : rest[i] = whole[c + i]
          /\ f[at] = PacketsUpon(bytes, f, at)
    <3>1. n \in 0..n
      OBVIOUS
    <3> HIDE DEF At, Good
    <3> QED BY <1>7, <3>1
  <2>2. PICK m \in 0..Len(garbage) : m = r - c
    <3>1. Len(garbage) \in Nat /\ c + Len(garbage) = Len(whole) /\ r <= Len(whole) /\ c <= r
      BY <1>2, <2>1
    <3>2. r - c \in 0..Len(garbage)
      BY ONLY c \in Nat, r \in Nat, <3>1
    <3> QED BY ONLY <3>2
  <2>3. rest = SubSeq(garbage, 1, m)
    <3>1. PICK t : t = SubSeq(garbage, 1, m)
      OBVIOUS
    <3>2. t \in Seq(T) /\ Len(t) = m /\ \A i \in 1..m : t[i] = garbage[i]
      BY <3>1
    <3>3. \A i \in 1..m : i \in 1..Len(garbage)
      OBVIOUS
    <3>4. \A i \in 1..Len(rest) : rest[i] = t[i]
      BY ONLY <1>2, <2>1, <2>2, <3>2, <3>3
    <3>5. t \in Seq(T) /\ Len(rest) = Len(t)
      BY ONLY <2>1, <2>2, <3>2
    <3>6. rest = t
      BY ONLY rest \in Seq(T), <3>4, <3>5, SameItems
    <3> QED BY <3>1, <3>6
  <2>4. Parse(rest).is # "packet"
    BY <2>2, <2>3 DEF HoldsNoPacket
  <2>5. f[at] = [packets |-> <<>>, used |-> at, is |-> Parse(rest).is]
    BY ONLY <2>1, <2>4 DEF PacketsUpon
  <2>6. SubSeq(packets, n + 1, n) = <<>> /\ n \in n..n /\ ~(n < n)
    BY <1>1
  <2>7. start <= c
    BY <2>1
  <2>8. Found(f[c - start], packets, e, r, n, n, start)
    BY ONLY <1>1, <2>1, <2>5, <2>6, <2>7 DEF Found
  <2> QED BY <2>1, <2>6, <2>8
<1>9. ASSUME NEW k \in 0..(n - 1), At(k), At(k + 1) => Good(k + 1) PROVE Good(k)
  <2>1. k \in 0..n /\ k + 1 \in 0..n /\ k < n /\ k \in k..n
    OBVIOUS
  <2>2. PICK c, at \in Nat, rest \in Seq(T) :
          /\ c = e[k] /\ at = c - start /\ at \in 0..Len(bytes)
          /\ rest = SubSeq(bytes, at + 1, Len(bytes))
          /\ Len(rest) = r - c /\ \A i \in 1..(r - c) : rest[i] = whole[c + i]
          /\ f[at] = PacketsUpon(bytes, f, at)
    <3> HIDE DEF At, Good
    <3> QED BY <1>7, <1>9, <2>1
  <2>3. PICK p \in P : p = packets[k + 1]
    <3>1. k + 1 \in 1..Len(packets)
      BY <1>1, <2>1
    <3>2. packets[k + 1] \in P
      BY ONLY packets \in Seq(P), <3>1
    <3> QED BY <3>2
  <2>4. WritableIn(T, p)
    BY ONLY p \in P, \A q \in P : WritableIn(T, q)
  <2>5. /\ Bytes(p) \in Seq(T) /\ Len(Bytes(p)) >= 1
        /\ \A x \in Seq(T) :
             /\ Len(Bytes(p)) <= Len(x) /\ (\A i \in 1..Len(Bytes(p)) : x[i] = Bytes(p)[i])
                  => Parse(x) = [is |-> "packet", used |-> Len(Bytes(p)), packet |-> p]
             /\ Len(x) < Len(Bytes(p)) /\ (\A i \in 1..Len(x) : x[i] = Bytes(p)[i])
                  => Parse(x) = More
    BY ONLY FramingAssumption, <2>4, ParseBytes
  <2>6. PICK l \in Nat : l = Len(Bytes(p)) /\ l >= 1
    BY ONLY <2>5
  <2>7. e[k + 1] = c + l /\ \A i \in 1..l : whole[c + i] = Bytes(p)[i]
    BY ONLY k \in 0..(n - 1), <1>2, <2>2, <2>3, <2>6
  <2>8. CASE c + l <= r
    <3>1. Parse(rest) = [is |-> "packet", used |-> l, packet |-> p]
      <4>1. l <= Len(rest) /\ \A i \in 1..l : i \in 1..(r - c)
        <5>1. Len(rest) = r - c
          BY ONLY <2>2
        <5> QED BY ONLY c \in Nat, l \in Nat, r \in Nat, <2>8, <5>1
      <4>2. \A i \in 1..l : rest[i] = Bytes(p)[i]
        BY ONLY <2>2, <2>7, <4>1
      <4> QED BY ONLY rest \in Seq(T), <2>5, <2>6, <4>1, <4>2
    <3>2. f[at] = [f[at + l] EXCEPT !.packets = <<p>> \o @]
      <4>1. PICK first : first = Parse(rest)
        OBVIOUS
      <4>2. first.is = "packet" /\ first.used = l /\ first.packet = p
        BY ONLY <3>1, <4>1
      <4>3. PacketsUpon(bytes, f, at)
              = IF first.is = "packet"
                THEN [f[at + first.used] EXCEPT !.packets = <<first.packet>> \o @]
                ELSE [packets |-> <<>>, used |-> at, is |-> first.is]
        BY ONLY <2>2, <4>1 DEF PacketsUpon
      <4>4. PacketsUpon(bytes, f, at) = [f[at + l] EXCEPT !.packets = <<p>> \o @]
        BY ONLY <4>2, <4>3
      <4> QED BY ONLY <2>2, <4>4
    <3>3. at + l = e[k + 1] - start
      BY ONLY c \in Nat, l \in Nat, start \in Nat, <2>2, <2>7
    <3>4. At(k + 1)
      <4>1. begun <= k /\ start <= c
        BY <1>9, <2>2
      <4>2. begun <= k + 1 /\ start <= c + l
        BY ONLY begun \in 0..Len(packets), k \in 0..(n - 1), c \in Nat, l \in Nat, start \in Nat,
                n \in Nat, <4>1, packets \in Seq(P)
      <4> QED BY <2>7, <2>8, <4>2
    <3>5. PICK j \in (k + 1)..n : e[j] <= r /\ Found(f[at + l], packets, e, r, k + 1, j, start)
      <4> HIDE DEF At
      <4> QED BY <1>9, <3>3, <3>4
    <3>6. PICK x : /\ f[at + l] = [packets |-> SubSeq(packets, (k + 1) + 1, j),
                                   used |-> e[j] - start, is |-> x]
                   /\ j < Len(packets) => x = "more" /\ r < e[j + 1]
      BY ONLY <3>5 DEF Found
    <3>7. <<p>> \o SubSeq(packets, (k + 1) + 1, j) = SubSeq(packets, k + 1, j)
      <4>1. k \in Nat /\ j \in Nat /\ k < j /\ j <= Len(packets) /\ (k + 1) + 1 = k + 2
        BY <1>1
      <4>2. SubSeq(packets, k + 1, j) = <<packets[k + 1]>> \o SubSeq(packets, k + 2, j)
        BY ONLY packets \in Seq(P), <4>1, FirstOfPiece
      <4> QED BY ONLY <2>3, <4>1, <4>2
    <3>8. f[at] = [packets |-> <<p>> \o SubSeq(packets, (k + 1) + 1, j),
                   used |-> e[j] - start, is |-> x]
      <4>1. PICK s, u : s = SubSeq(packets, (k + 1) + 1, j) /\ u = e[j] - start
        OBVIOUS
      <4>2. f[at + l] = [packets |-> s, used |-> u, is |-> x]
        BY ONLY <3>6, <4>1
      <4>3. f[at] = [packets |-> <<p>> \o s, used |-> u, is |-> x]
        <5>1. PICK a : a = f[at + l]
          OBVIOUS
        <5>2. [a EXCEPT !.packets = <<p>> \o @] = [packets |-> <<p>> \o s, used |-> u, is |-> x]
          <6>1. a = [packets |-> s, used |-> u, is |-> x]
            BY ONLY <4>2, <5>1
          <6>2. a.packets = s
            BY ONLY <6>1
          <6>3. PICK q : q = <<p>> \o s
            OBVIOUS
          <6>4. [a EXCEPT !.packets = q] = [packets |-> q, used |-> u, is |-> x]
            BY ONLY <6>1
          <6> QED BY ONLY <6>2, <6>3, <6>4
        <5> QED BY ONLY <3>2, <5>1, <5>2
      <4> QED BY ONLY <4>1, <4>3
    <3>9. Found(f[at], packets, e, r, k, j, start)
      <4>1. start <= e[j]
        BY ONLY <3>5 DEF Found
      <4> QED BY ONLY <3>6, <3>7, <3>8, <4>1 DEF Found
    <3>10. j \in k..n
      OBVIOUS
    <3> QED BY <2>2, <3>5, <3>9, <3>10
  <2>9. CASE ~(c + l <= r)
    <3>1. Parse(rest) = More
      <4>1. Len(rest) < l /\ \A i \in 1..(r - c) : i \in 1..l
        <5>1. Len(rest) = r - c
          BY ONLY <2>2
        <5> QED BY ONLY c \in Nat, l \in Nat, r \in Nat, <2>9, <5>1
      <4>2. \A i \in 1..Len(rest) : rest[i] = Bytes(p)[i]
        BY ONLY <2>2, <2>7, <4>1
      <4> QED BY ONLY rest \in Seq(T), <2>5, <2>6, <4>1, <4>2
    <3>2. f[at] = [packets |-> <<>>, used |-> at, is |-> "more"]
      <4>1. PICK first : first = Parse(rest)
        OBVIOUS
      <4>2. first.is = "more"
        BY ONLY <3>1, <4>1 DEF More
      <4>3. PacketsUpon(bytes, f, at)
              = IF first.is = "packet"
                THEN [f[at + first.used] EXCEPT !.packets = <<first.packet>> \o @]
                ELSE [packets |-> <<>>, used |-> at, is |-> first.is]
        BY ONLY <2>2, <4>1 DEF PacketsUpon
      <4>4. PacketsUpon(bytes, f, at) = [packets |-> <<>>, used |-> at, is |-> "more"]
        BY ONLY <4>2, <4>3
      <4> QED BY ONLY <2>2, <4>4
    <3>3. SubSeq(packets, k + 1, k) = <<>>
      OBVIOUS
    <3>4. r < e[k + 1]
      BY ONLY c \in Nat, l \in Nat, r \in Nat, <2>7, <2>9
    <3>5. Found(f[at], packets, e, r, k, k, start)
      <4>1. start <= e[k]
        BY <1>9
      <4> QED BY ONLY <2>2, <3>2, <3>3, <3>4, <4>1 DEF Found
    <3>6. e[k] <= r
      BY <1>9
    <3> QED BY <2>1, <2>2, <3>5, <3>6
  <2> QED BY <2>8, <2>9
<1> HIDE DEF Good, At
<1>10. n + 1 \in K
  <2>1. (n + 1) - 1 = n /\ n + 1 \in 1..(n + 1)
    OBVIOUS
  <2> QED BY <1>8, <2>1
<1>11. ASSUME NEW i \in 1..n, \A j \in (i + 1)..(n + 1) : j \in K PROVE i \in K
  <2>1. PICK k \in 0..(n - 1) : k = i - 1 /\ (i + 1) - 1 = k + 1
    <3>1. i - 1 \in 0..(n - 1) /\ (i + 1) - 1 = (i - 1) + 1
      OBVIOUS
    <3> QED BY ONLY <3>1
  <2>2. i + 1 \in (i + 1)..(n + 1) /\ i \in 1..(n + 1)
    OBVIOUS
  <2>3. At(k + 1) => Good(k + 1)
    BY <1>11, <2>1, <2>2
  <2>4. At(k) => Good(k)
    BY <1>9, <2>3
  <2> QED BY <2>1, <2>2, <2>4
<1> HIDE DEF K
<1>12. \A i \in 1..(n + 1) : i \in K
  BY ONLY n \in Nat, <1>10, <1>11, DownwardInduction
<1>13. At(begun) => Good(begun)
  <2>1. begun + 1 \in 1..(n + 1) /\ (begun + 1) - 1 = begun
    BY <1>1
  <2> QED BY <1>12, <2>1 DEF K
<1>14. PICK j \in begun..n :
         e[j] <= r /\ Found(f[e[begun] - start], packets, e, r, begun, j, start)
  <2>1. At(begun)
    BY <1>3 DEF At
  <2> QED BY <1>13, <2>1 DEF Good
<1>15. f[e[begun] - start] = Packets(bytes)
  <2>1. start - start = 0
    OBVIOUS
  <2> QED BY ONLY <1>3, <1>6, <2>1
<1> QED BY ONLY <1>1, <1>3, <1>4, <1>14, <1>15

-----------------------------------------------------------------------------
(* What is written.                                                        *)

\* The packets of the peers, and the tokens of all that they may write.
Sent == UNION {ToSet(packets) : packets \in Written}
GarbageTokens == UNION {ToSet(text) : text \in Garbage}
BodyTokens == UNION {ToSet(p.body) : p \in Sent}
Alphabet == LineTokens \cup Marks \cup BodyTokens \cup GarbageTokens

LEMMA AlphabetFacts ==
  /\ LineTokens \subseteq Alphabet /\ WrittenIn(Alphabet, Sent)
  /\ \A p \in Sent : WritableIn(Alphabet, p)
  /\ \A packets \in Written : packets \in Seq(Sent)
  /\ \A text \in Garbage : text \in Seq(Alphabet) /\ HoldsNoPacket(text)
<1>1. LineTokens \subseteq Alphabet /\ Marks \subseteq Alphabet /\ GarbageTokens \subseteq Alphabet
  BY DEF Alphabet
<1>2. ASSUME NEW p \in Sent PROVE WritableIn(Alphabet, p)
  <2>1. PICK packets \in Written : p \in ToSet(packets)
    BY DEF Sent
  <2>2. Writable(p)
    BY <2>1, FramingAssumption
  <2>3. p.body \in Seq(ToSet(p.body))
    BY <2>2 DEF Writable
  <2>4. ToSet(p.body) \subseteq Alphabet
    BY DEF Alphabet, BodyTokens
  <2>5. p.body \in Seq(Alphabet)
    BY ONLY <2>3, <2>4, SeqWider
  <2> QED BY ONLY <1>1, <2>2, <2>5 DEF WritableIn
<1>3. ASSUME NEW packets \in Written PROVE packets \in Seq(Sent)
  <2>1. packets \in Seq(ToSet(packets))
    BY FramingAssumption
  <2>2. ToSet(packets) \subseteq Sent
    BY DEF Sent
  <2> QED BY ONLY <2>1, <2>2, SeqWider
<1>4. ASSUME NEW text \in Garbage PROVE text \in Seq(Alphabet) /\ HoldsNoPacket(text)
  <2>1. HoldsNoPacket(text)
    BY FramingAssumption
  <2>2. text \in Seq(ToSet(text))
    BY <2>1 DEF HoldsNoPacket
  <2>3. ToSet(text) \subseteq Alphabet
    <3>1. ToSet(text) \subseteq GarbageTokens
      BY ONLY text \in Garbage DEF GarbageTokens
    <3> QED BY ONLY <1>1, <3>1
  <2>4. text \in Seq(Alphabet)
    BY ONLY <2>2, <2>3, SeqWider
  <2> QED BY ONLY <2>1, <2>4
<1>5. WrittenIn(Alphabet, Sent)
  <2> SUFFICES ASSUME NEW p \in Sent PROVE Bytes(p) \in Seq(Alphabet)
    BY DEF WrittenIn
  <2>1. WritableIn(Alphabet, p)
    BY ONLY <1>2
  <2> QED BY ONLY FramingAssumption, <2>1, ParseBytes
<1> QED BY ONLY <1>1, <1>2, <1>3, <1>4, <1>5

-----------------------------------------------------------------------------
(* The reader.                                                             *)

\* The stream that the peer writes.
Whole(garbage) == WireBytes(written) \o garbage

\* The reader is at r, with the bytes from e[k] on in its buffer: not yet at the
\* end of the packet after the first k.
Reading(garbage, e, k, r) ==
  /\ e[k] <= r /\ r <= Len(Whole(garbage))
  /\ buf = SubSeq(Whole(garbage), e[k] + 1, r)
  /\ wire = SubSeq(Whole(garbage), r + 1, Len(Whole(garbage)))
  /\ k < Len(written) => r < e[k + 1]

\* The packets routed are the first k, and why the loop has ended if it has.
Routed(garbage, k) ==
  /\ k <= Len(written) /\ received = SubSeq(written, 1, k)
  /\ reading = "open" => \E r \in Nat : Reading(garbage, Ends(written), k, r)
  /\ reading = "fatal" => k = Len(written)
  /\ reading = "overflow" => k < Len(written) /\ ~Fits(written[k + 1])

FramingInv ==
  /\ written \in Written
  /\ \E garbage \in Garbage : \E k \in Nat : Routed(garbage, k)

\* The stream of a state, cut at the ends of its packets.
LEMMA WholeFacts ==
  ASSUME written \in Written, NEW garbage \in Garbage
  PROVE  /\ written \in Seq(Sent) /\ garbage \in Seq(Alphabet) /\ HoldsNoPacket(garbage)
         /\ Streamed(Alphabet, Whole(garbage), written, garbage, Ends(written))
<1>1. /\ WrittenIn(Alphabet, Sent) /\ written \in Seq(Sent)
      /\ garbage \in Seq(Alphabet) /\ HoldsNoPacket(garbage)
  BY AlphabetFacts
<1>2. Whole(garbage) = WireBytes(written) \o garbage
  BY DEF Whole
<1>3. Streamed(Alphabet, Whole(garbage), written, garbage, Ends(written))
  BY ONLY <1>1, <1>2, StreamCut
<1> QED BY ONLY <1>1, <1>3

LEMMA InitFraming ==
  ASSUME FramingInit
  PROVE  FramingInv
<1>1. PICK garbage \in Garbage : wire = Whole(garbage)
  BY DEF FramingInit, Whole
<1>2. written \in Written /\ buf = <<>> /\ received = <<>> /\ reading = "open"
  BY DEF FramingInit
<1>3. /\ written \in Seq(Sent)
      /\ Streamed(Alphabet, Whole(garbage), written, garbage, Ends(written))
  BY <1>2, WholeFacts
<1>4. PICK n \in Nat, w \in Seq(Alphabet) : n = Len(written) /\ w = Whole(garbage)
  <2>1. Len(written) \in Nat
    BY ONLY <1>3
  <2>2. Whole(garbage) \in Seq(Alphabet)
    BY ONLY <1>3 DEF Streamed
  <2> QED BY ONLY <2>1, <2>2
<1>5. PICK e : e = Ends(written)
  OBVIOUS
<1>6. /\ e[0] = 0
      /\ \A k \in 0..(n - 1) : e[k + 1] = e[k] + Len(Bytes(written[k + 1]))
  BY ONLY <1>3, <1>4, <1>5 DEF Streamed
<1>7. 0 < n => 0 < e[0 + 1]
  <2> SUFFICES ASSUME 0 < n PROVE 0 < e[0 + 1]
    OBVIOUS
  <2>1. 0 \in 0..(n - 1) /\ 1 \in 1..Len(written) /\ 0 + 1 = 1
    BY <1>4
  <2>2. written[1] \in Sent
    BY ONLY <1>3, <2>1
  <2>3. WritableIn(Alphabet, written[1])
    BY ONLY <2>2, AlphabetFacts
  <2>4. Bytes(written[1]) \in Seq(Alphabet) /\ Len(Bytes(written[1])) >= 1
    BY ONLY FramingAssumption, <2>3, ParseBytes
  <2>5. PICK l : l = Len(Bytes(written[1])) /\ l >= 1 /\ l \in Nat
    BY ONLY <2>4
  <2>6. e[0 + 1] = 0 + l
    BY ONLY <1>6, <2>1, <2>5
  <2> QED BY ONLY <2>5, <2>6
<1>8. Len(w) \in Nat /\ SubSeq(w, 0 + 1, 0) = <<>> /\ SubSeq(w, 0 + 1, Len(w)) = w
  BY ONLY w \in Seq(Alphabet)
<1>9. Reading(garbage, e, 0, 0)
  BY ONLY <1>1, <1>2, <1>4, <1>6, <1>7, <1>8, <1>5 DEF Reading
<1>10. SubSeq(written, 1, 0) = <<>> /\ 0 \in Nat
  BY ONLY <1>3
<1>11. Routed(garbage, 0)
  <2>1. 0 <= Len(written)
    BY ONLY <1>4
  <2>2. reading = "open" /\ reading # "fatal" /\ reading # "overflow"
    BY ONLY <1>2
  <2>3. Reading(garbage, Ends(written), 0, 0)
    BY ONLY <1>9, <1>5
  <2> QED BY ONLY <1>2, <1>10, <2>1, <2>2, <2>3 DEF Routed
<1> QED BY ONLY garbage \in Garbage, <1>2, <1>10, <1>11 DEF FramingInv

\* A read: the packets that are now whole are routed, the rest stays in the buffer.
LEMMA ReadFraming ==
  ASSUME FramingInv, Read
  PROVE  FramingInv'
<1>1. PICK garbage \in Garbage, k \in Nat : Routed(garbage, k)
  BY DEF FramingInv
<1>2. written \in Written /\ reading = "open" /\ UNCHANGED written
  BY DEF FramingInv, Read
<1>3. /\ written \in Seq(Sent) /\ garbage \in Seq(Alphabet) /\ HoldsNoPacket(garbage)
      /\ Streamed(Alphabet, Whole(garbage), written, garbage, Ends(written))
  BY <1>2, WholeFacts
<1>4. PICK n \in Nat, w \in Seq(Alphabet) : n = Len(written) /\ w = Whole(garbage)
  <2>1. Len(written) \in Nat
    BY ONLY <1>3
  <2>2. Whole(garbage) \in Seq(Alphabet)
    BY ONLY <1>3 DEF Streamed
  <2> QED BY ONLY <2>1, <2>2
<1>5. PICK e : e = Ends(written)
  OBVIOUS
<1>6. /\ e \in [0..n -> Nat] /\ e[n] + Len(garbage) = Len(w)
      /\ \A i \in 0..(n - 1) : e[i + 1] = e[i] + Len(Bytes(written[i + 1]))
  BY ONLY <1>3, <1>4, <1>5 DEF Streamed
<1>7. k <= n /\ received = SubSeq(written, 1, k)
  BY ONLY <1>1, <1>4 DEF Routed
<1>8. PICK r \in Nat :
        /\ e[k] <= r /\ r <= Len(w) /\ buf = SubSeq(w, e[k] + 1, r)
        /\ wire = SubSeq(w, r + 1, Len(w))
        /\ k < n => r < e[k + 1]
  BY ONLY <1>1, <1>2, <1>4, <1>5 DEF Routed, Reading
<1>9. PICK c \in Nat : c = e[k]
  <2>1. k \in 0..n
    BY ONLY k \in Nat, n \in Nat, <1>7
  <2> QED BY ONLY <1>6, <2>1
<1>10. PICK m \in 1..Min({ReadSize, Len(wire)}) :
        LET bytes == buf \o SubSeq(wire, 1, m)
            found == Packets(bytes)
        IN  /\ wire' = SubSeq(wire, m + 1, Len(wire))
            /\ IF Len(bytes) > MaxPacketSize + Slack
               THEN reading' = "overflow" /\ buf' = bytes /\ UNCHANGED received
               ELSE /\ received' = received \o found.packets
                    /\ IF found.is = "fatal"
                       THEN reading' = "fatal" /\ buf' = bytes
                       ELSE reading' = "open" /\ buf' = Unparsed(bytes, found.used)
  BY DEF Read
<1>11. wire \in Seq(Alphabet) /\ Len(wire) = Len(w) - r
  <2>1. Len(w) \in Nat /\ Len(w) <= Len(w) /\ r <= Len(w)
    BY ONLY w \in Seq(Alphabet), <1>8
  <2>2. SubSeq(w, r + 1, Len(w)) \in Seq(Alphabet) /\ Len(SubSeq(w, r + 1, Len(w))) = Len(w) - r
    BY ONLY w \in Seq(Alphabet), r \in Nat, <2>1, Between
  <2> QED BY ONLY <1>8, <2>2
<1>12. m \in Nat /\ 1 <= m /\ m <= ReadSize /\ r + m \in Nat /\ r + m <= Len(w) /\ r <= r + m
  <2>1. ReadSize \in Nat /\ Len(wire) \in Nat
    BY <1>11, FramingAssumption
  <2>2. {ReadSize, Len(wire)} \subseteq Nat /\ {ReadSize, Len(wire)} # {}
    BY ONLY <2>1
  <2>3. PICK x : x = Min({ReadSize, Len(wire)})
    OBVIOUS
  <2>4. x \in {ReadSize, Len(wire)} /\ \A i \in {ReadSize, Len(wire)} : x <= i
    BY ONLY <2>2, <2>3, MinOf
  <2>5. x \in Nat /\ x <= ReadSize /\ x <= Len(wire) /\ m \in 1..x
    BY ONLY m \in 1..Min({ReadSize, Len(wire)}), <2>1, <2>3, <2>4
  <2>6. Len(w) \in Nat
    BY ONLY w \in Seq(Alphabet)
  <2> QED BY ONLY r \in Nat, <1>8, <1>11, <2>1, <2>5, <2>6
<1>13. PICK q \in Nat : q = r + m /\ q <= Len(w) /\ c <= q /\ r <= q
  <2>1. c <= r
    BY ONLY <1>8, <1>9
  <2> QED BY ONLY c \in Nat, r \in Nat, <1>12, <2>1
<1>14. /\ SubSeq(wire, 1, m) = SubSeq(w, r + 1, q)
       /\ SubSeq(wire, m + 1, Len(wire)) = SubSeq(w, q + 1, Len(w))
  <2>1. PICK z \in Nat : z = Len(w)
    BY ONLY w \in Seq(Alphabet)
  <2>2. r <= r /\ r <= q /\ q <= z /\ z <= Len(w) /\ z <= z
    BY ONLY r \in Nat, z \in Nat, <1>13, <2>1
  <2>3. SubSeq(SubSeq(w, r + 1, z), (r - r) + 1, q - r) = SubSeq(w, r + 1, q)
    BY ONLY w \in Seq(Alphabet), r \in Nat, q \in Nat, z \in Nat, <2>2, BetweenTwice
  <2>4. SubSeq(SubSeq(w, r + 1, z), (q - r) + 1, z - r) = SubSeq(w, q + 1, z)
    BY ONLY w \in Seq(Alphabet), r \in Nat, q \in Nat, z \in Nat, <2>2, BetweenTwice
  <2>5. (r - r) + 1 = 1 /\ q - r = m
    BY ONLY r \in Nat, m \in Nat, <1>12, <1>13
  <2> QED BY ONLY <1>8, <1>11, <2>1, <2>3, <2>4, <2>5
<1>15. PICK bytes : bytes = buf \o SubSeq(wire, 1, m)
  OBVIOUS
<1>16. bytes = SubSeq(w, c + 1, q) /\ bytes \in Seq(Alphabet) /\ Len(bytes) = q - c
  <2>1. c <= r /\ r <= q /\ q <= Len(w) /\ c <= q
    BY ONLY <1>8, <1>9, <1>13
  <2>2. SubSeq(w, c + 1, r) \o SubSeq(w, r + 1, q) = SubSeq(w, c + 1, q)
    BY ONLY w \in Seq(Alphabet), c \in Nat, r \in Nat, q \in Nat, <2>1, BetweenJoined
  <2>3. bytes = SubSeq(w, c + 1, q)
    BY ONLY <1>8, <1>9, <1>14, <1>15, <2>2
  <2>4. SubSeq(w, c + 1, q) \in Seq(Alphabet) /\ Len(SubSeq(w, c + 1, q)) = q - c
    BY ONLY w \in Seq(Alphabet), c \in Nat, q \in Nat, <2>1, Between
  <2> QED BY ONLY <2>3, <2>4
<1>17. PICK found : found = Packets(bytes)
  OBVIOUS
<1>18. /\ wire' = SubSeq(w, q + 1, Len(w))
       /\ IF Len(bytes) > MaxPacketSize + Slack
          THEN reading' = "overflow" /\ UNCHANGED received
          ELSE /\ received' = received \o found.packets
               /\ IF found.is = "fatal"
                  THEN reading' = "fatal"
                  ELSE reading' = "open" /\ buf' = Unparsed(bytes, found.used)
  BY ONLY <1>10, <1>14, <1>15, <1>17
<1>19. written' = written /\ Whole(garbage)' = w /\ Ends(written)' = e /\ Len(written)' = n
  BY <1>2, <1>4, <1>5 DEF Whole
<1>20. CASE Len(bytes) > MaxPacketSize + Slack
  <2>1. reading' = "overflow" /\ received' = received
    BY ONLY <1>18, <1>20
  <2>2. MaxPacketSize \in Nat /\ Slack \in Nat /\ ReadSize \in Nat
    BY FramingAssumption
  <2>3. k < n
    <3>1. k # n
      <4> SUFFICES ASSUME k = n PROVE FALSE
        OBVIOUS
      <4>1. Len(garbage) <= MaxPacketSize + Slack
        BY <1>3 DEF HoldsNoPacket
      <4>2. c + Len(garbage) = Len(w)
        BY ONLY <1>6, <1>9, k = n
      <4>3. Len(garbage) \in Nat /\ Len(w) \in Nat
        BY ONLY <1>3, w \in Seq(Alphabet)
      <4> QED BY ONLY c \in Nat, q \in Nat, <1>13, <1>16, <1>20, <2>2, <4>1, <4>2, <4>3
    <3>2. k <= n
      BY <1>7
    <3> QED BY ONLY k \in Nat, n \in Nat, <3>1, <3>2
  <2>4. ~Fits(written[k + 1])
    <3>1. k \in 0..(n - 1) /\ k + 1 \in 1..Len(written)
      BY ONLY k \in Nat, n \in Nat, <1>4, <2>3
    <3>2. PICK p \in Sent : p = written[k + 1]
      BY ONLY <1>3, <3>1
    <3>3. PICK l \in Nat : l = Len(Bytes(p))
      <4>1. WritableIn(Alphabet, p)
        BY ONLY p \in Sent, AlphabetFacts
      <4>2. Bytes(p) \in Seq(Alphabet)
        BY ONLY FramingAssumption, <4>1, ParseBytes
      <4> QED BY ONLY <4>2
    <3>4. e[k + 1] = c + l
      BY ONLY <1>6, <1>9, <3>1, <3>2, <3>3
    <3>5. r < c + l
      BY ONLY <1>8, <2>3, <3>4
    <3>6. ~(l - 1 + ReadSize <= MaxPacketSize + Slack)
      BY ONLY c \in Nat, l \in Nat, q \in Nat, r \in Nat,
              <1>12, <1>13, <1>16, <1>20, <2>2, <3>5
    <3> QED BY ONLY <3>2, <3>3, <3>6 DEF Fits
  <2>5. Routed(garbage, k)'
    BY ONLY <1>7, <1>19, <2>1, <2>3, <2>4 DEF Routed
  <2> QED BY ONLY garbage \in Garbage, k \in Nat, <1>2, <2>5 DEF FramingInv
<1>21. CASE ~(Len(bytes) > MaxPacketSize + Slack)
  <2>1. /\ received' = received \o found.packets
        /\ IF found.is = "fatal"
           THEN reading' = "fatal"
           ELSE reading' = "open" /\ buf' = Unparsed(bytes, found.used)
    BY ONLY <1>18, <1>21
  <2>2. PICK j \in k..n : e[j] <= q /\ Found(found, written, e, q, k, j, c)
    <3>1. \A p \in Sent : WritableIn(Alphabet, p)
      BY AlphabetFacts
    <3>2. /\ LineTokens \subseteq Alphabet /\ written \in Seq(Sent)
          /\ garbage \in Seq(Alphabet) /\ HoldsNoPacket(garbage)
      BY <1>3, AlphabetFacts
    <3>3. Streamed(Alphabet, w, written, garbage, e)
      BY ONLY <1>3, <1>4, <1>5
    <3>4. k \in 0..Len(written) /\ e[k] <= q /\ q <= Len(w)
      BY ONLY k \in Nat, n \in Nat, <1>4, <1>7, <1>9, <1>13
    <3>5. \E j \in k..Len(written) :
            /\ e[j] <= q
            /\ Found(Packets(SubSeq(w, e[k] + 1, q)), written, e, q, k, j, e[k])
      BY ONLY FramingAssumption, q \in Nat, <3>1, <3>2, <3>3, <3>4, PacketsCut
    <3> QED BY ONLY <1>4, <1>9, <1>16, <1>17, <3>5
  <2>3. PICK d \in Nat : d = e[j] /\ d <= q /\ j \in Nat /\ k <= j /\ j <= n
    <3>1. j \in 0..n
      BY ONLY k \in Nat, n \in Nat, j \in k..n
    <3> QED BY ONLY k \in Nat, n \in Nat, j \in k..n, <1>6, <2>2, <3>1
  <2>4. PICK x : /\ found = [packets |-> SubSeq(written, k + 1, j), used |-> d - c, is |-> x]
                 /\ j < n => x = "more" /\ q < e[j + 1]
    BY ONLY <1>4, <2>2, <2>3 DEF Found
  <2>5. found.packets = SubSeq(written, k + 1, j) /\ found.used = d - c /\ found.is = x
    BY ONLY <2>4
  <2>6. received' = SubSeq(written, 1, j)
    <3>1. 0 \in Nat /\ 0 <= k /\ k <= j /\ j <= Len(written)
      BY ONLY k \in Nat, <1>4, <2>3
    <3>2. SubSeq(written, 0 + 1, k) \o SubSeq(written, k + 1, j) = SubSeq(written, 0 + 1, j)
      BY ONLY <1>3, k \in Nat, <2>3, <3>1, BetweenJoined
    <3>3. 0 + 1 = 1
      OBVIOUS
    <3> QED BY ONLY <1>7, <2>1, <2>5, <3>2, <3>3
  <2>7. reading' = "fatal" => j = n
    <3> SUFFICES ASSUME reading' = "fatal" PROVE j = n
      OBVIOUS
    <3>1. found.is = "fatal"
      BY <2>1
    <3>2. ~(j < n)
      BY ONLY <2>4, <2>5, <3>1
    <3> QED BY ONLY n \in Nat, <2>3, <3>2
  <2>8. reading' = "open" => Reading(garbage, Ends(written), j, q)'
    <3> SUFFICES ASSUME reading' = "open" PROVE Reading(garbage, Ends(written), j, q)'
      OBVIOUS
    <3>1. buf' = SubSeq(bytes, (d - c) + 1, Len(bytes))
      BY <2>1, <2>5 DEF Unparsed
    <3>2. c <= d
      BY ONLY <2>2, <2>3 DEF Found
    <3>3. SubSeq(SubSeq(w, c + 1, q), (d - c) + 1, q - c) = SubSeq(w, d + 1, q)
      <4>1. c <= d /\ d <= q /\ q <= q /\ q <= Len(w)
        BY ONLY q \in Nat, <1>13, <2>3, <3>2
      <4> QED BY ONLY w \in Seq(Alphabet), c \in Nat, d \in Nat, q \in Nat, <4>1, BetweenTwice
    <3>4. buf' = SubSeq(w, d + 1, q)
      BY ONLY <1>16, <3>1, <3>3
    <3> QED BY ONLY <1>13, <1>18, <1>19, <2>3, <2>4, <3>4 DEF Reading
  <2>9. reading' # "overflow"
    BY ONLY <2>1
  <2>10. Routed(garbage, j)'
    BY ONLY q \in Nat, <1>19, <2>3, <2>6, <2>7, <2>8, <2>9 DEF Routed
  <2> QED BY ONLY garbage \in Garbage, <1>2, <2>3, <2>10 DEF FramingInv
<1> QED BY <1>20, <1>21

LEMMA NextFraming ==
  ASSUME FramingInv, [FramingNext]_framingVars
  PROVE  FramingInv'
<1>1. CASE Read
  BY <1>1, ReadFraming
<1>2. CASE ReadEnds
  <2>1. reading' = "ended" /\ written' = written /\ received' = received
    BY <1>2 DEF ReadEnds
  <2>2. PICK garbage \in Garbage, k \in Nat : Routed(garbage, k)
    BY DEF FramingInv
  <2>3. Routed(garbage, k)'
    BY ONLY <2>1, <2>2 DEF Routed
  <2>4. written \in Written
    BY DEF FramingInv
  <2> QED BY ONLY <2>1, <2>3, <2>4, garbage \in Garbage, k \in Nat DEF FramingInv
<1>3. CASE UNCHANGED framingVars
  BY <1>3 DEF framingVars, FramingInv, Routed, Reading, Whole
<1> QED BY <1>1, <1>2, <1>3 DEF FramingNext

\* What the reader has routed and what is left say what PacketsAsWritten asks.
LEMMA InvGivesPackets ==
  ASSUME FramingInv
  PROVE  PacketsAsWritten
<1>1. PICK garbage \in Garbage, k \in Nat : Routed(garbage, k)
  BY DEF FramingInv
<1>2. /\ written \in Seq(Sent)
      /\ Streamed(Alphabet, Whole(garbage), written, garbage, Ends(written))
  BY WholeFacts DEF FramingInv
<1>3. PICK n \in Nat, w \in Seq(Alphabet) : n = Len(written) /\ w = Whole(garbage)
  <2>1. Len(written) \in Nat
    BY ONLY <1>2
  <2>2. Whole(garbage) \in Seq(Alphabet)
    BY ONLY <1>2 DEF Streamed
  <2> QED BY ONLY <2>1, <2>2
<1>4. PICK e : e = Ends(written)
  OBVIOUS
<1>5. PICK left : left = SubSeq(written, k + 1, n)
  OBVIOUS
<1>6. /\ k <= n /\ received = SubSeq(written, 1, k)
      /\ reading = "open" => \E r \in Nat : Reading(garbage, e, k, r)
      /\ reading = "fatal" => k = n
      /\ reading = "overflow" => k < n /\ ~Fits(written[k + 1])
  BY ONLY <1>1, <1>3, <1>4 DEF Routed
<1>7. /\ e \in [0..n -> Nat] /\ e[n] + Len(garbage) = Len(w)
      /\ \A i \in 0..(n - 1) : e[i + 1] = e[i] + Len(Bytes(written[i + 1]))
      /\ \A i \in 0..n :
           /\ WireBytes(SubSeq(written, i + 1, n)) \in Seq(Alphabet)
           /\ e[i] + Len(WireBytes(SubSeq(written, i + 1, n))) = e[n]
           /\ \A j \in 1..Len(WireBytes(SubSeq(written, i + 1, n))) :
                w[e[i] + j] = WireBytes(SubSeq(written, i + 1, n))[j]
  BY ONLY <1>2, <1>3, <1>4 DEF Streamed
<1>8. k \in 0..n
  BY ONLY k \in Nat, n \in Nat, <1>6
<1>9. PICK c, d \in Nat : c = e[k] /\ d = e[n]
  <2>1. n \in 0..n
    BY ONLY n \in Nat
  <2> QED BY ONLY <1>7, <1>8, <2>1
<1>10. PICK rest \in Seq(Alphabet) :
        /\ rest = WireBytes(left) /\ c + Len(rest) = d
        /\ \A j \in 1..Len(rest) : w[c + j] = rest[j]
  BY ONLY <1>5, <1>7, <1>8, <1>9
<1>11. /\ Len(received) = k /\ left \in Seq(Sent) /\ Len(left) = n - k
       /\ k < n => left # <<>> /\ Head(left) = written[k + 1]
       /\ k = n => left = <<>>
  <2>1. k <= n /\ n <= Len(written) /\ 0 <= k /\ k <= Len(written) /\ 0 \in Nat /\ 0 + 1 = 1
    BY ONLY k \in Nat, n \in Nat, <1>3, <1>6
  <2>2. Len(SubSeq(written, 0 + 1, k)) = k - 0
    BY ONLY <1>2, k \in Nat, <2>1, Between
  <2>3. /\ left \in Seq(Sent) /\ Len(left) = n - k
        /\ \A j \in 1..(n - k) : left[j] = written[k + j]
    BY ONLY <1>2, <1>5, k \in Nat, n \in Nat, <2>1, Between
  <2>4. Len(received) = k
    BY ONLY <1>6, k \in Nat, <2>1, <2>2
  <2>5. k < n => left # <<>> /\ Head(left) = written[k + 1]
    <3> SUFFICES ASSUME k < n PROVE left # <<>> /\ Head(left) = written[k + 1]
      OBVIOUS
    <3>1. 1 \in 1..(n - k)
      BY ONLY k \in Nat, n \in Nat, k < n
    <3>2. left[1] = written[k + 1] /\ Len(left) >= 1
      BY ONLY k \in Nat, n \in Nat, <2>3, <3>1
    <3> QED BY ONLY <2>3, <3>2
  <2>6. k = n => left = <<>>
    BY ONLY k \in Nat, n \in Nat, <2>3
  <2> QED BY ONLY <2>3, <2>4, <2>5, <2>6
<1>12. IsPrefix(received, written)
  <2>1. Len(received) <= Len(written) /\ SubSeq(received, 1, Len(received)) = received
    <3>1. received \in Seq(Sent)
      <4>1. k \in 0..Len(written)
        BY ONLY <1>3, <1>8
      <4> QED BY ONLY <1>2, <1>6, <4>1, Halves
    <3> QED BY ONLY <1>3, <1>6, <1>11, <3>1, SubSeqAll
  <2> QED BY ONLY <1>6, <1>11, <2>1 DEF IsPrefix
<1>13. ASSUME reading = "open"
       PROVE  /\ IsPrefix(rest, buf \o wire)
              /\ left # <<>> => Len(buf) < Len(Bytes(Head(left)))
  <2>1. PICK r \in Nat : Reading(garbage, e, k, r)
    BY ONLY <1>6, <1>13
  <2>2. /\ c <= r /\ r <= Len(w) /\ buf = SubSeq(w, c + 1, r)
        /\ wire = SubSeq(w, r + 1, Len(w))
        /\ k < n => r < e[k + 1]
    BY ONLY <1>3, <1>9, <2>1 DEF Reading
  <2>3. PICK z \in Nat : z = Len(w) /\ c <= z /\ r <= z /\ z <= Len(w)
    BY ONLY w \in Seq(Alphabet), c \in Nat, r \in Nat, <2>2
  <2>4. buf \o wire = SubSeq(w, c + 1, z)
    <3>1. c <= r /\ r <= z /\ z <= Len(w)
      BY ONLY <2>2, <2>3
    <3>2. SubSeq(w, c + 1, r) \o SubSeq(w, r + 1, z) = SubSeq(w, c + 1, z)
      BY ONLY w \in Seq(Alphabet), c \in Nat, r \in Nat, z \in Nat, <3>1, BetweenJoined
    <3> QED BY ONLY <2>2, <2>3, <3>2
  <2>5. PICK y \in Seq(Alphabet) :
          /\ y = buf \o wire /\ Len(y) = z - c
          /\ \A j \in 1..(z - c) : y[j] = w[c + j]
    <3>1. c <= z /\ z <= Len(w)
      BY ONLY <2>3
    <3>2. /\ SubSeq(w, c + 1, z) \in Seq(Alphabet) /\ Len(SubSeq(w, c + 1, z)) = z - c
          /\ \A j \in 1..(z - c) : SubSeq(w, c + 1, z)[j] = w[c + j]
      BY ONLY w \in Seq(Alphabet), c \in Nat, z \in Nat, <3>1, Between
    <3> QED BY ONLY <2>4, <3>2
  <2>6. PICK l \in Nat : l = Len(rest)
    OBVIOUS
  <2>7. 0 \in Nat /\ 0 + l = l /\ l <= Len(y) /\ \A j \in 1..l : j \in 1..(z - c)
    <3>1. c + l = d /\ d + Len(garbage) = z
      BY ONLY <1>7, <1>9, <1>10, <2>3, <2>6
    <3>2. Len(garbage) \in Nat
      BY AlphabetFacts
    <3> QED BY ONLY c \in Nat, d \in Nat, l \in Nat, z \in Nat, <2>5, <3>1, <3>2
  <2>8. ASSUME NEW j \in 1..Len(rest) PROVE y[0 + j] = rest[j]
    <3>1. 0 + j = j /\ j \in 1..l
      BY ONLY <2>6, j \in 1..Len(rest), l \in Nat
    <3>2. y[j] = w[c + j]
      BY ONLY <2>5, <2>7, <3>1
    <3>3. w[c + j] = rest[j]
      BY ONLY <1>10, j \in 1..Len(rest)
    <3> QED BY ONLY <3>1, <3>2, <3>3
  <2>9. SubSeq(y, 0 + 1, 0 + Len(rest)) = rest
    <3>1. 0 \in Nat /\ 0 + Len(rest) <= Len(y)
      BY ONLY <2>6, <2>7
    <3> QED BY ONLY y \in Seq(Alphabet), rest \in Seq(Alphabet), <2>8, <3>1, PieceIs
  <2>10. SubSeq(rest, 1, Len(rest)) = rest
    BY SubSeqAll
  <2>11. SubSeq(y, 1, Len(rest)) = rest
    <3>1. 0 + 1 = 1
      OBVIOUS
    <3> QED BY ONLY <2>6, <2>7, <2>9, <3>1
  <2>12. IsPrefix(rest, y)
    BY ONLY <2>6, <2>7, <2>10, <2>11 DEF IsPrefix
  <2>13. left # <<>> => Len(buf) < Len(Bytes(Head(left)))
    <3> SUFFICES ASSUME left # <<>> PROVE Len(buf) < Len(Bytes(Head(left)))
      OBVIOUS
    <3>1. k < n
      BY ONLY k \in Nat, n \in Nat, <1>6, <1>11, left # <<>>
    <3>2. Head(left) = written[k + 1]
      BY ONLY <1>11, <3>1
    <3>3. e[k + 1] = c + Len(Bytes(written[k + 1]))
      <4>1. k \in 0..(n - 1)
        BY ONLY k \in Nat, n \in Nat, <3>1
      <4> QED BY ONLY <1>7, <1>9, <4>1
    <3>4. r < e[k + 1]
      BY ONLY <2>2, <3>1
    <3>5. PICK b : b = Len(Bytes(written[k + 1]))
      OBVIOUS
    <3>6. b \in Nat
      <4>1. k + 1 \in 1..Len(written)
        BY ONLY k \in Nat, n \in Nat, <1>3, <3>1
      <4>2. written[k + 1] \in Sent
        BY ONLY <1>2, <4>1
      <4>3. Bytes(written[k + 1]) \in Seq(Alphabet)
        BY ONLY <4>2, AlphabetFacts DEF WrittenIn
      <4> QED BY ONLY <3>5, <4>3
    <3>7. Len(buf) = r - c
      BY ONLY w \in Seq(Alphabet), c \in Nat, r \in Nat, <2>2, Between
    <3>8. r < c + b
      BY ONLY <3>3, <3>4, <3>5
    <3>9. Len(buf) < b
      BY ONLY c \in Nat, r \in Nat, <3>6, <3>7, <3>8
    <3> QED BY ONLY <3>2, <3>5, <3>9
  <2> QED BY ONLY <2>5, <2>12, <2>13
<1>14. left = SubSeq(written, Len(received) + 1, Len(written))
  BY ONLY <1>3, <1>5, <1>11
<1>15. /\ reading = "fatal" => left = <<>>
       /\ reading = "overflow" => left # <<>> /\ ~Fits(Head(left))
  BY ONLY <1>6, <1>11
<1> QED BY ONLY <1>10, <1>12, <1>13, <1>14, <1>15 DEF PacketsAsWritten

\* However the stream is cut into reads, the reader routes the packets that were
\* written, each as soon as its last byte is there, and holds every byte after them:
\* whatever packets a peer may write and whatever follows them (packet.rs:57,
\* reader.rs:48).
THEOREM WrittenIsRouted == FramingSpec => []PacketsAsWritten
<1>1. FramingInit => FramingInv
  BY InitFraming
<1>2. FramingInv /\ [FramingNext]_framingVars => FramingInv'
  BY NextFraming
<1>3. FramingInv => PacketsAsWritten
  BY InvGivesPackets
<1> QED BY <1>1, <1>2, <1>3, PTL DEF FramingSpec
=============================================================================
