---------------------------- MODULE CodecsProofs ----------------------------
(***************************************************************************)
(* What the conversions of Codecs compute, for texts of every length,      *)
(* blocks of every size and every key: decoding undoes encoding.           *)
(*                                                                         *)
(* The induction theorems of the library take a predicate as a parameter,  *)
(* which the provers cannot give them.  Here induction is over sets of     *)
(* numbers (Induction), from the fact that one that is not empty has a     *)
(* least element, and recursion over functions (Recursion).                *)
(***************************************************************************)
EXTENDS Codecs, TLAPS, WellFoundedInduction

\* A set of numbers that is not empty has a least one.
LEMMA HasLeast ==
  ASSUME NEW S \in SUBSET Nat, S # {}
  PROVE  \E m \in S : \A n \in S : m <= n
<1> DEFINE R == OpToRel(<, Nat)
<1>1. IsWellFoundedOn(R, Nat)
  BY NatLessThanWellFounded
<1>2. \A x, y \in Nat : x < y => <<x, y>> \in R
  BY DEF OpToRel
<1> HIDE DEF R
<1>3. PICK m \in S : \A n \in S : <<n, m>> \notin R
  BY <1>1, WFMin
<1>4. ASSUME NEW n \in S, ~(m <= n) PROVE FALSE
  <2>1. m \in Nat /\ n \in Nat /\ n < m
    BY <1>4
  <2>2. <<n, m>> \in R
    BY <1>2, <2>1
  <2> QED
    BY <1>3, <2>2
<1> QED
  BY <1>4

\* Induction, for a set in place of a predicate.
LEMMA Induction ==
  ASSUME NEW S, 0 \in S, \A n \in Nat : n \in S => n + 1 \in S
  PROVE  Nat \subseteq S
<1> DEFINE T == Nat \ S
<1> SUFFICES ASSUME T # {} PROVE FALSE
  OBVIOUS
<1>1. PICK m \in T : \A n \in T : m <= n
  BY HasLeast
<1>2. m # 0 /\ m - 1 \in Nat /\ m - 1 \notin T
  BY <1>1
<1> QED
  BY <1>2

\* f is given by its first value and by what follows each.
Follows(f, A, base, next) ==
  /\ f \in [Nat -> A]
  /\ f[0] = base
  /\ \A n \in Nat : f[n + 1] = next[n][f[n]]

\* There is such a function.
LEMMA Recursion ==
  ASSUME NEW A, NEW base \in A, NEW next \in [Nat -> [A -> A]]
  PROVE  \E f : Follows(f, A, base, next)
<1> DEFINE Upto(n, f) ==
             /\ f \in [Nat -> A]
             /\ f[0] = base
             /\ \A k \in Nat : k < n => f[k + 1] = next[k][f[k]]
           S == {n \in Nat : \E f : Upto(n, f)}
<1>1. 0 \in S
  <2>1. Upto(0, [k \in Nat |-> base])
    OBVIOUS
  <2> QED
    BY <2>1
<1>2. ASSUME NEW n \in Nat, n \in S PROVE n + 1 \in S
  <2>1. PICK f : Upto(n, f)
    BY <1>2
  <2> DEFINE g == [f EXCEPT ![n + 1] = next[n][f[n]]]
  <2>2. g \in [Nat -> A] /\ g[0] = base
    BY <2>1
  <2>3. ASSUME NEW k \in Nat, k < n + 1 PROVE g[k + 1] = next[k][g[k]]
    BY <2>1, <2>3
  <2>4. Upto(n + 1, g)
    BY <2>2, <2>3
  <2> HIDE DEF g, Upto
  <2> QED
    BY <2>4
<1>3. Nat \subseteq S
  BY <1>1, <1>2, Induction
<1>4. ASSUME NEW n \in Nat, NEW f, NEW g, NEW m \in Nat, Upto(n, f), Upto(m, g), n <= m
      PROVE  \A k \in Nat : k <= n => f[k] = g[k]
  <2> DEFINE Q == {k \in Nat : k <= n => f[k] = g[k]}
  <2>1. 0 \in Q
    BY <1>4
  <2>2. ASSUME NEW k \in Nat, k \in Q PROVE k + 1 \in Q
    BY <1>4, <2>2
  <2> HIDE DEF Q
  <2>3. Nat \subseteq Q
    BY <2>1, <2>2, Induction
  <2> QED
    BY <2>3 DEF Q
<1> DEFINE h == [n \in Nat |-> CHOOSE f : Upto(n, f)]
           r == [n \in Nat |-> h[n][n]]
<1>5. \A n \in Nat : Upto(n, h[n])
  BY <1>3
<1> HIDE DEF h, S, Upto
<1>6. r \in [Nat -> A] /\ r[0] = base
  BY <1>5 DEF Upto
<1>7. ASSUME NEW n \in Nat PROVE r[n + 1] = next[n][r[n]]
  <2>1. h[n][n] = h[n + 1][n]
    BY <1>4, <1>5
  <2>2. h[n + 1][n + 1] = next[n][h[n + 1][n]]
    BY <1>5 DEF Upto
  <2> QED
    BY <2>1, <2>2
<1> QED
  BY <1>6, <1>7 DEF Follows

\* normalize_pan leaves digits, and adds none.
LEMMA DigitsAre ==
  ASSUME NEW pan \in Seq(0 .. Space)
  PROVE  Digits(pan) \in Seq(Digit) /\ Len(Digits(pan)) <= Len(pan)
<1> DEFINE A == Seq(Digit)
           N == Len(pan)
           base == <<>>
           next == [n \in Nat |-> [a \in A |->
                      IF pan[n + 1] \in Digit THEN Append(a, pan[n + 1]) ELSE a]]
           Value(d, i) == IF i = 0 THEN <<>>
                          ELSE IF pan[i] \in Digit THEN Append(d[i - 1], pan[i]) ELSE d[i - 1]
           Is(d) == d = [i \in 0 .. N |-> Value(d, i)]
           digits == CHOOSE d : Is(d)
<1>1. next \in [Nat -> [A -> A]] /\ base \in A /\ N \in Nat
  OBVIOUS
<1>2. PICK f : Follows(f, A, base, next)
  <2> HIDE DEF A, next, base
  <2> QED
    BY <1>1, Recursion
<1> DEFINE g == [i \in 0 .. N |-> f[i]]
<1>3. ASSUME NEW i \in 0 .. N PROVE g[i] = Value(g, i)
  <2>1. CASE i = 0
    BY <1>2, <2>1 DEF Follows
  <2>2. CASE i # 0
    <3>1. i - 1 \in Nat /\ i - 1 \in 0 .. N /\ (i - 1) + 1 = i
      BY <2>2, <1>1
    <3>2. f[i - 1] \in A /\ f[i] = next[i - 1][f[i - 1]]
      <4> HIDE DEF A, next
      <4> QED
        BY <1>2, <3>1 DEF Follows
    <3>3. f[i] = IF pan[i] \in Digit THEN Append(f[i - 1], pan[i]) ELSE f[i - 1]
      <4> HIDE DEF A
      <4> QED
        BY <3>1, <3>2
    <3> QED
      BY <2>2, <3>1, <3>3
  <2> QED
    BY <2>1, <2>2
<1>4. g = [i \in 0 .. N |-> g[i]]
  OBVIOUS
<1>5. Is(g)
  <2> HIDE DEF g, Value
  <2> QED
    BY <1>3, <1>4
<1>6. Is(digits)
  <2> HIDE DEF Is
  <2> QED
    BY <1>5
<1>7. Digits(pan) = digits[N]
  BY DEF Digits
<1> HIDE DEF digits
<1>8. \A i \in 0 .. N : digits[i] = Value(digits, i)
  <2> HIDE DEF Value
  <2> QED
    BY <1>6
<1>9. \A i \in 0 .. N : digits[i] \in A /\ Len(digits[i]) <= i
  <2> DEFINE Q == {i \in Nat : i <= N => digits[i] \in A /\ Len(digits[i]) <= i}
  <2>1. 0 \in Q
    <3>1. digits[0] = <<>>
      BY <1>1, <1>8
    <3>2. <<>> \in A /\ Len(<<>>) <= 0
      OBVIOUS
    <3> HIDE DEF A
    <3> QED
      BY <3>1, <3>2
  <2>2. ASSUME NEW i \in Nat, i \in Q PROVE i + 1 \in Q
    <3> SUFFICES ASSUME i + 1 <= N
                 PROVE  digits[i + 1] \in A /\ Len(digits[i + 1]) <= i + 1
      OBVIOUS
    <3>1. i \in 0 .. N /\ i + 1 \in 0 .. N /\ (i + 1) - 1 = i
      BY <1>1
    <3>2. digits[i] \in A /\ Len(digits[i]) <= i
      BY <2>2, <1>1
    <3>3. digits[i + 1] = IF pan[i + 1] \in Digit THEN Append(digits[i], pan[i + 1])
                          ELSE digits[i]
      BY <1>8, <3>1
    <3> DEFINE d == digits[i]
    <3> HIDE DEF d
    <3>4. d \in A /\ Len(d) <= i /\ Len(d) \in Nat
      BY <3>2 DEF d
    <3>5. CASE pan[i + 1] \in Digit
      <4>1. Append(d, pan[i + 1]) \in A /\ Len(Append(d, pan[i + 1])) = Len(d) + 1
        BY <3>4, <3>5
      <4> QED
        BY <3>3, <3>4, <3>5, <4>1 DEF d
    <3>6. CASE pan[i + 1] \notin Digit
      BY <3>3, <3>4, <3>6 DEF d
    <3> QED
      BY <3>5, <3>6
  <2> HIDE DEF Q
  <2>3. Nat \subseteq Q
    BY <2>1, <2>2, Induction
  <2> QED
    BY <2>3, <1>1 DEF Q
<1> QED
  BY <1>1, <1>7, <1>9

-----------------------------------------------------------------------------

\* A byte and its two nibbles.
LEMMA Halves ==
  /\ \A b \in Byte : b \div 16 \in Nibble /\ b % 16 \in Nibble
  /\ \A m, n \in Nibble : /\ 16 * m + n \in Byte
                          /\ (16 * m + n) \div 16 = m
                          /\ (16 * m + n) % 16 = n
<1>1. ASSUME NEW b \in Byte PROVE b \div 16 \in Nibble /\ b % 16 \in Nibble
  BY DEF Byte, Nibble
<1>2. ASSUME NEW m \in Nibble, NEW n \in Nibble
      PROVE  /\ 16 * m + n \in Byte
             /\ (16 * m + n) \div 16 = m
             /\ (16 * m + n) % 16 = n
  BY DEF Byte, Nibble
<1> QED
  BY <1>1, <1>2

\* What is encoded: the text, a terminator if there is room, and any nibbles.
LEMMA BcdHex ==
  ASSUME NEW text \in Seq(Nibble), text # <<>>, NEW block \in BcdEncode(text)
  PROVE  /\ Len(text) <= 2 * BlockSize
         /\ \E h \in [1 .. 2 * BlockSize -> Nibble] :
              /\ block = [i \in 1 .. BlockSize |-> 16 * h[2 * i - 1] + h[2 * i]]
              /\ \A i \in 1 .. Len(text) : h[i] = text[i]
              /\ Len(text) < 2 * BlockSize => h[Len(text) + 1] = 15
<1> DEFINE x == text \o <<15>>
           size == 2 * BlockSize
           k == IF Len(x) > size THEN 0 ELSE size - Len(x)
<1>1. BlockSize \in Nat /\ size \in Nat /\ Len(text) \in Nat
  BY CodecsAssumption DEF CodecsAssumption
<1>2. Len(text) <= size
  <2>1. ~(Len(text) > size)
    BY DEF BcdEncode
  <2> QED
    BY <1>1, <2>1
<1>3. PICK pad \in [1 .. k -> Padding] : block = FromHex(SubSeq(x \o pad, 1, size))
  BY DEF BcdEncode, Terminated
<1>4. x \in Seq(Nibble) /\ Len(x) = Len(text) + 1
  BY DEF Nibble
<1>5. \A i \in 1 .. Len(text) : x[i] = text[i]
  OBVIOUS
<1>6. x[Len(text) + 1] = 15
  OBVIOUS
<1> HIDE DEF x
<1>7. k \in Nat /\ Len(x) + k >= size
  <2>1. Len(x) \in Nat
    BY <1>1, <1>4
  <2> HIDE DEF size
  <2>2. CASE Len(x) > size
    BY <1>1, <2>1, <2>2
  <2>3. CASE ~(Len(x) > size)
    BY <1>1, <2>1, <2>3
  <2> QED
    BY <2>2, <2>3
<1> HIDE DEF k
<1>8. pad \in Seq(Nibble) /\ Len(pad) = k
  BY <1>7, CodecsAssumption DEF CodecsAssumption
<1> DEFINE y == x \o pad
           h == SubSeq(y, 1, size)
<1>9. y \in Seq(Nibble) /\ Len(y) >= size
  BY <1>4, <1>7, <1>8
<1>10. \A i \in 1 .. Len(x) : y[i] = x[i]
  BY <1>4, <1>8
<1> HIDE DEF y
<1>11. /\ h \in Seq(Nibble) /\ Len(h) = size
       /\ h \in [1 .. size -> Nibble]
       /\ \A i \in 1 .. size : h[i] = y[i]
  <2>1. Len(h) = size /\ \A i \in 1 .. size : h[i] = y[i] /\ y[i] \in Nibble
    BY <1>1, <1>9
  <2>2. h = [i \in 1 .. size |-> y[i]]
    BY <1>1, <1>9
  <2> HIDE DEF h
  <2>3. h \in [1 .. size -> Nibble]
    BY <2>1, <2>2
  <2> QED
    BY <1>1, <2>1, <2>3
<1>12. \A i \in 1 .. Len(text) : h[i] = text[i]
  BY <1>1, <1>2, <1>4, <1>5, <1>10, <1>11
<1>13. Len(text) < size => h[Len(text) + 1] = 15
  BY <1>1, <1>4, <1>6, <1>10, <1>11
<1>14. block = FromHex(h)
  BY <1>3 DEF y
<1> HIDE DEF h
<1>15. block = [i \in 1 .. BlockSize |-> 16 * h[2 * i - 1] + h[2 * i]]
  <2>1. size \div 2 = BlockSize
    BY <1>1
  <2> QED
    BY <1>11, <1>14, <2>1 DEF FromHex
<1> QED
  BY <1>2, <1>11, <1>12, <1>13, <1>15

\* The hex digits of a block.
LEMMA ToHexNibbles ==
  ASSUME NEW block \in [1 .. BlockSize -> Byte]
  PROVE  ToHex(block) \in Seq(Nibble) /\ Len(ToHex(block)) = 2 * BlockSize
<1>1. BlockSize \in Nat
  BY CodecsAssumption DEF CodecsAssumption
<1>2. block \in Seq(Byte) /\ Len(block) = BlockSize
  BY <1>1
<1> DEFINE at(i) == IF i % 2 = 1 THEN block[(i + 1) \div 2] \div 16 ELSE block[i \div 2] % 16
<1>3. ASSUME NEW i \in 1 .. 2 * BlockSize PROVE at(i) \in Nibble
  <2>1. CASE i % 2 = 1
    <3>1. (i + 1) \div 2 \in 1 .. BlockSize
      BY <1>1, <2>1
    <3>2. block[(i + 1) \div 2] \in Byte
      BY <3>1
    <3> QED
      BY <2>1, <3>2, Halves
  <2>2. CASE i % 2 # 1
    <3>1. i \div 2 \in 1 .. BlockSize
      BY <1>1, <2>2
    <3>2. block[i \div 2] \in Byte
      BY <3>1
    <3> QED
      BY <2>2, <3>2, Halves
  <2> QED
    BY <2>1, <2>2
<1>4. ToHex(block) = [i \in 1 .. 2 * BlockSize |-> at(i)]
  BY <1>2 DEF ToHex
<1> HIDE DEF at
<1> QED
  BY <1>1, <1>3, <1>4

\* Each two nibbles are a byte, and come back from it.
LEMMA ToHexFromHex ==
  ASSUME NEW h \in [1 .. 2 * BlockSize -> Nibble], NEW block,
         block = [i \in 1 .. BlockSize |-> 16 * h[2 * i - 1] + h[2 * i]]
  PROVE  /\ block \in [1 .. BlockSize -> Byte]
         /\ ToHex(block) = h
<1>1. BlockSize \in Nat
  BY CodecsAssumption DEF CodecsAssumption
<1>2. ASSUME NEW i \in 1 .. BlockSize
      PROVE  /\ 2 * i - 1 \in 1 .. 2 * BlockSize /\ 2 * i \in 1 .. 2 * BlockSize
             /\ h[2 * i - 1] \in Nibble /\ h[2 * i] \in Nibble
  <2>1. 2 * i - 1 \in 1 .. 2 * BlockSize /\ 2 * i \in 1 .. 2 * BlockSize
    BY <1>1
  <2> QED
    BY <2>1
<1>3. ASSUME NEW i \in 1 .. BlockSize
      PROVE  /\ block[i] = 16 * h[2 * i - 1] + h[2 * i]
             /\ block[i] \in Byte
             /\ block[i] \div 16 = h[2 * i - 1]
             /\ block[i] % 16 = h[2 * i]
  <2>1. block[i] = 16 * h[2 * i - 1] + h[2 * i]
    OBVIOUS
  <2> QED
    BY <1>2, <2>1, Halves
<1>4. block \in [1 .. BlockSize -> Byte]
  BY <1>3
<1>5. block \in Seq(Byte) /\ Len(block) = BlockSize
  BY <1>1, <1>4
<1> DEFINE at(i) == IF i % 2 = 1 THEN block[(i + 1) \div 2] \div 16 ELSE block[i \div 2] % 16
<1>6. ASSUME NEW i \in 1 .. 2 * BlockSize PROVE at(i) = h[i]
  <2>1. CASE i % 2 = 1
    <3> DEFINE j == (i + 1) \div 2
    <3>1. j \in 1 .. BlockSize /\ 2 * j - 1 = i
      BY <1>1, <2>1
    <3> HIDE DEF j
    <3>2. block[j] \div 16 = h[i]
      BY <1>3, <3>1
    <3> QED
      BY <2>1, <3>2 DEF j
  <2>2. CASE i % 2 # 1
    <3> DEFINE j == i \div 2
    <3>1. j \in 1 .. BlockSize /\ 2 * j = i
      BY <1>1, <2>2
    <3> HIDE DEF j
    <3>2. block[j] % 16 = h[i]
      BY <1>3, <3>1
    <3> QED
      BY <2>2, <3>2 DEF j
  <2> QED
    BY <2>1, <2>2
<1>7. ToHex(block) = [i \in 1 .. 2 * BlockSize |-> at(i)]
  BY <1>5 DEF ToHex
<1> HIDE DEF at
<1>8. h = [i \in 1 .. 2 * BlockSize |-> h[i]]
  OBVIOUS
<1>9. ToHex(block) = h
  BY <1>6, <1>7, <1>8
<1> QED
  BY <1>4, <1>9

\* What is decoded from any block is digits.
LEMMA BcdDigits ==
  ASSUME NEW block \in [1 .. BlockSize -> Byte]
  PROVE  BcdDecode(block) \in Seq(Digit)
<1> DEFINE x == ToHex(block)
           stops == {i \in 1 .. Len(x) : x[i] \notin Digit}
<1>1. x \in Seq(Nibble) /\ Len(x) \in Nat
  BY ToHexNibbles
<1> HIDE DEF x
<1>2. CASE stops = {}
  <2>1. \A i \in 1 .. Len(x) : x[i] \in Digit
    BY <1>2
  <2>2. SubSeq(x, 1, Len(x)) \in Seq(Digit)
    BY <1>1, <2>1
  <2> QED
    BY <1>2, <2>2 DEF BcdDecode, x
<1>3. CASE stops # {}
  <2>1. Least(stops) \in stops /\ \A i \in stops : Least(stops) <= i
    <3>1. stops \in SUBSET Nat
      BY <1>1
    <3> HIDE DEF stops
    <3>2. \E m \in stops : \A n \in stops : m <= n
      BY <1>3, <3>1, HasLeast
    <3> QED
      BY <3>2 DEF Least
  <2> DEFINE m == Least(stops)
  <2>2. m \in 1 .. Len(x)
    BY <2>1
  <2>3. \A i \in 1 .. m - 1 : x[i] \in Digit
    <3> TAKE i \in 1 .. m - 1
    <3>1. i \in 1 .. Len(x) /\ i < m /\ ~(m <= i)
      BY <1>1, <2>2
    <3> QED
      BY <2>1, <3>1
  <2>4. BcdDecode(block) = SubSeq(x, 1, m - 1)
    BY <1>3 DEF BcdDecode, x
  <2> HIDE DEF m, stops
  <2>5. SubSeq(x, 1, m - 1) \in Seq(Digit)
    BY <1>1, <2>2, <2>3
  <2> QED
    BY <2>4, <2>5
<1> QED
  BY <1>2, <1>3

\* Digits come back from every block they may be encoded as.
LEMMA BcdRoundTrip ==
  ASSUME NEW text \in Seq(Nibble), text # <<>>, NEW block \in BcdEncode(text)
  PROVE  /\ block \in [1 .. BlockSize -> Byte]
         /\ text \in Seq(Digit) => BcdDecode(block) = text
<1>1. BlockSize \in Nat
  BY CodecsAssumption DEF CodecsAssumption
<1>2. Len(text) <= 2 * BlockSize /\ Len(text) \in Nat
  BY BcdHex
<1>3. PICK h \in [1 .. 2 * BlockSize -> Nibble] :
        /\ block = [i \in 1 .. BlockSize |-> 16 * h[2 * i - 1] + h[2 * i]]
        /\ \A i \in 1 .. Len(text) : h[i] = text[i]
        /\ Len(text) < 2 * BlockSize => h[Len(text) + 1] = 15
  BY BcdHex
<1>4. block \in [1 .. BlockSize -> Byte] /\ ToHex(block) = h
  BY <1>3, ToHexFromHex
<1>5. ASSUME text \in Seq(Digit) PROVE BcdDecode(block) = text
  <2>1. h \in Seq(Nibble) /\ Len(h) = 2 * BlockSize
    BY <1>1
  <2> DEFINE stops == {i \in 1 .. Len(h) : h[i] \notin Digit}
             end == IF stops = {} THEN Len(h) ELSE Least(stops) - 1
  <2>2. \A i \in 1 .. Len(text) : i \notin stops
    BY <1>3, <1>5
  <2>3. end = Len(text)
    <3>1. CASE Len(text) = 2 * BlockSize
      BY <2>1, <2>2, <3>1
    <3>2. CASE Len(text) < 2 * BlockSize
      <4> DEFINE m == Len(text) + 1
      <4>1. m \in stops
        BY <1>1, <1>2, <1>3, <2>1, <3>2 DEF Digit
      <4>2. \A i \in stops : m <= i
        <5> TAKE i \in stops
        <5>1. i \in Nat /\ i >= 1 /\ i \notin 1 .. Len(text)
          BY <2>1, <2>2
        <5> QED
          BY <1>2, <5>1
      <4>3. \A i \in stops : i \in Nat
        BY <2>1
      <4> HIDE DEF stops
      <4>4. Least(stops) = m
        <5>1. Least(stops) \in stops /\ \A i \in stops : Least(stops) <= i
          BY <4>1, <4>2 DEF Least
        <5>2. Least(stops) <= m /\ m <= Least(stops)
          BY <4>1, <4>2, <5>1
        <5> QED
          BY <1>2, <4>3, <5>1, <5>2
      <4> QED
        BY <1>2, <4>1, <4>4
    <3> QED
      BY <1>1, <1>2, <3>1, <3>2
  <2>4. BcdDecode(block) = SubSeq(h, 1, end)
    BY <1>4 DEF BcdDecode
  <2> HIDE DEF end
  <2>5. SubSeq(h, 1, Len(text)) = text
    BY <1>1, <1>2, <1>3, <1>5, <2>1
  <2> QED
    BY <2>3, <2>4, <2>5
<1> QED
  BY <1>4, <1>5

-----------------------------------------------------------------------------

\* Where a byte is in its block, and the block in the text.
LEMMA Index ==
  ASSUME NEW k \in Nat \ {0}, NEW i \in 1 .. BlockSize
  PROVE  LET j == (k - 1) * BlockSize + i
         IN  /\ j \in Nat \ {0}
             /\ (j - 1) \div BlockSize + 1 = k
             /\ ((j - 1) % BlockSize) + 1 = i
             /\ \A n \in Nat : k <= n => j <= n * BlockSize
<1> DEFINE B == BlockSize
           q == k - 1
           s == i - 1
           p == q * B
<1>1. B \in Nat /\ B > 0 /\ q \in Nat /\ s \in 0 .. B - 1
  BY CodecsAssumption DEF CodecsAssumption
<1>2. p \in Nat /\ p = B * q
  BY <1>1
<1>3. (B * q + s) \div B = q /\ (B * q + s) % B = s
  <2> HIDE DEF B, q, s
  <2> QED
    BY <1>1
<1>4. (k - 1) * BlockSize + i - 1 = B * q + s
  BY <1>1, <1>2
<1>5. ASSUME NEW n \in Nat, k <= n PROVE (k - 1) * BlockSize + i <= n * BlockSize
  <2>1. n = q + 1 + (n - k) /\ n - k \in Nat
    BY <1>5
  <2> DEFINE d == n - k
  <2> HIDE DEF d
  <2>2. n * B = q * B + B + d * B /\ d * B \in Nat
    <3>1. d \in Nat /\ n = q + 1 + d
      BY <2>1 DEF d
    <3> HIDE DEF q, B
    <3> QED
      BY <1>1, <3>1
  <2> QED
    BY <1>1, <1>2, <2>2
<1> HIDE DEF p
<1> QED
  BY <1>1, <1>2, <1>3, <1>4, <1>5

\* And where each byte of a text of n blocks is.
LEMMA Position ==
  ASSUME NEW n \in Nat, NEW j \in 1 .. n * BlockSize
  PROVE  LET k == (j - 1) \div BlockSize + 1
             i == ((j - 1) % BlockSize) + 1
         IN  /\ k \in 1 .. n /\ i \in 1 .. BlockSize
             /\ j = (k - 1) * BlockSize + i
<1> DEFINE B == BlockSize
           a == j - 1
           q == a \div B
           r == a % B
<1>1. B \in Nat /\ B > 0 /\ a \in Nat /\ n * B \in Nat /\ a < n * B
  BY CodecsAssumption DEF CodecsAssumption
<1>2. q \in Nat /\ r \in Nat /\ r < B /\ a = B * q + r
  <2> HIDE DEF B, a
  <2> QED
    BY <1>1
<1>3. q < n
  <2> SUFFICES ASSUME n <= q PROVE FALSE
    BY <1>2
  <2> HIDE DEF B, a, q, r
  <2>1. PICK d \in Nat : q = n + d
    <3>1. q - n \in Nat /\ q = n + (q - n)
      BY <1>2
    <3> QED
      BY <3>1
  <2>2. B * q = n * B + d * B /\ d * B \in Nat
    BY <1>1, <2>1
  <2> QED
    BY <1>1, <1>2, <2>2
<1> HIDE DEF q, r
<1>4. j = q * B + (r + 1)
  BY <1>1, <1>2
<1> QED
  BY <1>1, <1>2, <1>3, <1>4 DEF q, r

\* The blocks of the cipher.
Blocks == [1 .. BlockSize -> Byte]

\* A text of whole blocks is cut into blocks.
LEMMA BlockOf ==
  ASSUME NEW text \in Seq(Byte), NEW n \in Nat, Len(text) = n * BlockSize, NEW k \in 1 .. n
  PROVE  /\ Block(text, k) \in Blocks
         /\ \A i \in 1 .. BlockSize : Block(text, k)[i] = text[(k - 1) * BlockSize + i]
<1> DEFINE a == (k - 1) * BlockSize
<1>1. BlockSize \in Nat /\ a \in Nat
  BY CodecsAssumption DEF CodecsAssumption
<1>2. k * BlockSize = a + BlockSize
  BY <1>1
<1>3. \A i \in 1 .. BlockSize : a + i \in 1 .. Len(text)
  <2> TAKE i \in 1 .. BlockSize
  <2>1. a + i \in Nat \ {0} /\ a + i <= n * BlockSize
    <3>1. k \in Nat \ {0} /\ k <= n
      OBVIOUS
    <3> QED
      BY <3>1, Index
  <2> QED
    BY <1>1, <2>1
<1> HIDE DEF a
<1>4. Block(text, k) = SubSeq(text, a + 1, a + BlockSize)
  BY <1>2 DEF Block, a
<1>5. SubSeq(text, a + 1, a + BlockSize) = [i \in 1 .. BlockSize |-> text[a + i]]
  <2> DEFINE s == SubSeq(text, a + 1, a + BlockSize)
  <2>1. a + BlockSize <= Len(text)
    BY <1>1, <1>3, CodecsAssumption DEF CodecsAssumption
  <2>2. s \in Seq(Byte) /\ Len(s) = BlockSize
    BY <1>1, <2>1
  <2>3. \A i \in 1 .. BlockSize : s[i] = text[a + i]
    BY <1>1, <2>1
  <2>4. s = [i \in 1 .. BlockSize |-> s[i]]
    <3> HIDE DEF s
    <3> QED
      BY <2>2
  <2> HIDE DEF s
  <2>5. s = [i \in 1 .. BlockSize |-> text[a + i]]
    BY <2>3, <2>4
  <2> QED
    BY <2>5 DEF s
<1>6. \A i \in 1 .. BlockSize : text[a + i] \in Byte
  BY <1>3
<1> QED
  BY <1>4, <1>5, <1>6 DEF Blocks, a

\* Blocks are joined to a text, whose blocks they are.
LEMMA JoinedOf ==
  ASSUME NEW n \in Nat, NEW f, \A k \in 1 .. n : f[k] \in Blocks
  PROVE  /\ Joined(f, n) \in Seq(Byte)
         /\ Len(Joined(f, n)) = n * BlockSize
         /\ \A k \in 1 .. n : Block(Joined(f, n), k) = f[k]
<1> DEFINE N == n * BlockSize
           at(j) == f[(j - 1) \div BlockSize + 1][((j - 1) % BlockSize) + 1]
           text == Joined(f, n)
<1>1. BlockSize \in Nat /\ N \in Nat
  BY CodecsAssumption DEF CodecsAssumption
<1>2. ASSUME NEW j \in 1 .. N PROVE at(j) \in Byte
  <2> DEFINE k == (j - 1) \div BlockSize + 1
             i == ((j - 1) % BlockSize) + 1
  <2>1. k \in 1 .. n /\ i \in 1 .. BlockSize
    BY Position
  <2> HIDE DEF k, i
  <2>2. f[k][i] \in Byte
    BY <2>1 DEF Blocks
  <2> QED
    BY <2>2 DEF k, i
<1>3. text = [j \in 1 .. N |-> at(j)]
  BY DEF Joined
<1>4. text \in Seq(Byte) /\ Len(text) = N
  <2> HIDE DEF at, N, text
  <2> QED
    BY <1>1, <1>2, <1>3
<1>5. ASSUME NEW k \in 1 .. n PROVE Block(text, k) = f[k]
  <2>1. /\ Block(text, k) \in Blocks
        /\ \A i \in 1 .. BlockSize : Block(text, k)[i] = text[(k - 1) * BlockSize + i]
    BY <1>4, BlockOf
  <2>2. ASSUME NEW i \in 1 .. BlockSize PROVE text[(k - 1) * BlockSize + i] = f[k][i]
    <3> DEFINE j == (k - 1) * BlockSize + i
    <3>1. /\ j \in 1 .. N
          /\ (j - 1) \div BlockSize + 1 = k
          /\ ((j - 1) % BlockSize) + 1 = i
      <4>1. j \in Nat \ {0} /\ j <= N
        <5>1. k \in Nat \ {0} /\ k <= n
          OBVIOUS
        <5> QED
          BY <5>1, Index
      <4>2. /\ (j - 1) \div BlockSize + 1 = k
            /\ ((j - 1) % BlockSize) + 1 = i
        BY Index
      <4> QED
        BY <1>1, <4>1, <4>2
    <3> HIDE DEF j, text
    <3>2. text[j] = f[k][i]
      BY <1>3, <3>1
    <3> QED
      BY <3>2 DEF j
  <2> DEFINE b == Block(text, k)
  <2>3. b = [i \in 1 .. BlockSize |-> b[i]] /\ f[k] = [i \in 1 .. BlockSize |-> f[k][i]]
    BY <2>1 DEF Blocks
  <2>4. \A i \in 1 .. BlockSize : b[i] = f[k][i]
    BY <2>1, <2>2
  <2> HIDE DEF b
  <2>5. b = f[k]
    BY <2>3, <2>4
  <2> QED
    BY <2>5 DEF b
<1> QED
  BY <1>4, <1>5

\* And the blocks of a text give the text.
LEMMA JoinedBack ==
  ASSUME NEW text \in Seq(Byte), NEW n \in Nat, Len(text) = n * BlockSize,
         NEW f, \A k \in 1 .. n : f[k] = Block(text, k)
  PROVE  Joined(f, n) = text
<1> DEFINE N == n * BlockSize
           at(j) == f[(j - 1) \div BlockSize + 1][((j - 1) % BlockSize) + 1]
<1>1. N \in Nat
  BY CodecsAssumption DEF CodecsAssumption
<1>2. ASSUME NEW j \in 1 .. N PROVE at(j) = text[j]
  <2> DEFINE k == (j - 1) \div BlockSize + 1
             i == ((j - 1) % BlockSize) + 1
  <2>1. k \in 1 .. n /\ i \in 1 .. BlockSize /\ j = (k - 1) * BlockSize + i
    BY Position
  <2> HIDE DEF k, i
  <2>2. f[k][i] = text[j]
    BY <2>1, BlockOf
  <2> QED
    BY <2>2 DEF k, i
<1>3. Joined(f, n) = [j \in 1 .. N |-> at(j)]
  BY DEF Joined
<1>4. text = [j \in 1 .. N |-> text[j]]
  BY <1>1
<1> HIDE DEF N, at
<1> QED
  BY <1>2, <1>3, <1>4

-----------------------------------------------------------------------------

\* The bits of a byte.
Bit(a, p) == (a \div p) % 2
Byteof(b1, b2, b4, b8, b16, b32, b64, b128) ==
  b1 + 2 * b2 + 4 * b4 + 8 * b8 + 16 * b16 + 32 * b32 + 64 * b64 + 128 * b128

\* A byte is made of its bits.
LEMMA Bits ==
  ASSUME NEW a \in Byte
  PROVE  a = Byteof(Bit(a, 1), Bit(a, 2), Bit(a, 4), Bit(a, 8),
                    Bit(a, 16), Bit(a, 32), Bit(a, 64), Bit(a, 128))
  BY DEF Byte, Bit, Byteof

\* Any eight bits are those of a byte.
LEMMA BitsBack ==
  ASSUME NEW b1 \in {0, 1}, NEW b2 \in {0, 1}, NEW b4 \in {0, 1}, NEW b8 \in {0, 1},
         NEW b16 \in {0, 1}, NEW b32 \in {0, 1}, NEW b64 \in {0, 1}, NEW b128 \in {0, 1},
         NEW a, a = Byteof(b1, b2, b4, b8, b16, b32, b64, b128)
  PROVE  /\ a \in Byte
         /\ Bit(a, 1) = b1 /\ Bit(a, 2) = b2 /\ Bit(a, 4) = b4 /\ Bit(a, 8) = b8
         /\ Bit(a, 16) = b16 /\ Bit(a, 32) = b32 /\ Bit(a, 64) = b64 /\ Bit(a, 128) = b128
  BY DEF Byte, Bit, Byteof

\* What is mixed in twice goes away.
LEMMA XorBack ==
  ASSUME NEW a \in Byte, NEW b \in Byte
  PROVE  XorByte(a, b) \in Byte /\ XorByte(XorByte(a, b), b) = a
<1> DEFINE x(p) == (Bit(a, p) + Bit(b, p)) % 2
           c == XorByte(a, b)
<1>1. /\ Bit(a, 1) \in {0, 1} /\ Bit(a, 2) \in {0, 1} /\ Bit(a, 4) \in {0, 1}
      /\ Bit(a, 8) \in {0, 1} /\ Bit(a, 16) \in {0, 1} /\ Bit(a, 32) \in {0, 1}
      /\ Bit(a, 64) \in {0, 1} /\ Bit(a, 128) \in {0, 1}
  BY DEF Byte, Bit
<1>2. /\ Bit(b, 1) \in {0, 1} /\ Bit(b, 2) \in {0, 1} /\ Bit(b, 4) \in {0, 1}
      /\ Bit(b, 8) \in {0, 1} /\ Bit(b, 16) \in {0, 1} /\ Bit(b, 32) \in {0, 1}
      /\ Bit(b, 64) \in {0, 1} /\ Bit(b, 128) \in {0, 1}
  BY DEF Byte, Bit
<1>3. ASSUME NEW u \in Byte, NEW v \in Byte
      PROVE  XorByte(u, v) =
               Byteof((Bit(u, 1) + Bit(v, 1)) % 2, (Bit(u, 2) + Bit(v, 2)) % 2,
                      (Bit(u, 4) + Bit(v, 4)) % 2, (Bit(u, 8) + Bit(v, 8)) % 2,
                      (Bit(u, 16) + Bit(v, 16)) % 2, (Bit(u, 32) + Bit(v, 32)) % 2,
                      (Bit(u, 64) + Bit(v, 64)) % 2, (Bit(u, 128) + Bit(v, 128)) % 2)
  <2>1. /\ (u \div 1 + v \div 1) % 2 = (Bit(u, 1) + Bit(v, 1)) % 2
        /\ (u \div 2 + v \div 2) % 2 = (Bit(u, 2) + Bit(v, 2)) % 2
        /\ (u \div 4 + v \div 4) % 2 = (Bit(u, 4) + Bit(v, 4)) % 2
        /\ (u \div 8 + v \div 8) % 2 = (Bit(u, 8) + Bit(v, 8)) % 2
        /\ (u \div 16 + v \div 16) % 2 = (Bit(u, 16) + Bit(v, 16)) % 2
        /\ (u \div 32 + v \div 32) % 2 = (Bit(u, 32) + Bit(v, 32)) % 2
        /\ (u \div 64 + v \div 64) % 2 = (Bit(u, 64) + Bit(v, 64)) % 2
        /\ (u \div 128 + v \div 128) % 2 = (Bit(u, 128) + Bit(v, 128)) % 2
    BY DEF Byte, Bit
  <2> DEFINE y(p) == (u \div p + v \div p) % 2
  <2>2. /\ y(1) \in Int /\ y(2) \in Int /\ y(4) \in Int /\ y(8) \in Int
        /\ y(16) \in Int /\ y(32) \in Int /\ y(64) \in Int /\ y(128) \in Int
    BY DEF Byte
  <2>3. XorByte(u, v) = 1 * y(1) + 2 * y(2) + 4 * y(4) + 8 * y(8) +
                        16 * y(16) + 32 * y(32) + 64 * y(64) + 128 * y(128)
    BY DEF XorByte, XorBit
  <2> HIDE DEF y
  <2>4. XorByte(u, v) = Byteof(y(1), y(2), y(4), y(8), y(16), y(32), y(64), y(128))
    BY <2>2, <2>3 DEF Byteof
  <2> QED
    BY <2>1, <2>4 DEF y
<1>4. /\ x(1) \in {0, 1} /\ x(2) \in {0, 1} /\ x(4) \in {0, 1} /\ x(8) \in {0, 1}
      /\ x(16) \in {0, 1} /\ x(32) \in {0, 1} /\ x(64) \in {0, 1} /\ x(128) \in {0, 1}
  BY <1>1, <1>2
<1>5. c = Byteof(x(1), x(2), x(4), x(8), x(16), x(32), x(64), x(128))
  BY <1>3
<1> HIDE DEF c
<1>6. /\ c \in Byte
      /\ Bit(c, 1) = x(1) /\ Bit(c, 2) = x(2) /\ Bit(c, 4) = x(4) /\ Bit(c, 8) = x(8)
      /\ Bit(c, 16) = x(16) /\ Bit(c, 32) = x(32) /\ Bit(c, 64) = x(64) /\ Bit(c, 128) = x(128)
  <2> HIDE DEF x
  <2> QED
    BY <1>4, <1>5, BitsBack
<1>7. /\ (x(1) + Bit(b, 1)) % 2 = Bit(a, 1) /\ (x(2) + Bit(b, 2)) % 2 = Bit(a, 2)
      /\ (x(4) + Bit(b, 4)) % 2 = Bit(a, 4) /\ (x(8) + Bit(b, 8)) % 2 = Bit(a, 8)
      /\ (x(16) + Bit(b, 16)) % 2 = Bit(a, 16) /\ (x(32) + Bit(b, 32)) % 2 = Bit(a, 32)
      /\ (x(64) + Bit(b, 64)) % 2 = Bit(a, 64) /\ (x(128) + Bit(b, 128)) % 2 = Bit(a, 128)
  BY <1>1, <1>2
<1> HIDE DEF x
<1>8. XorByte(c, b) = Byteof((x(1) + Bit(b, 1)) % 2, (x(2) + Bit(b, 2)) % 2,
                             (x(4) + Bit(b, 4)) % 2, (x(8) + Bit(b, 8)) % 2,
                             (x(16) + Bit(b, 16)) % 2, (x(32) + Bit(b, 32)) % 2,
                             (x(64) + Bit(b, 64)) % 2, (x(128) + Bit(b, 128)) % 2)
  BY <1>3, <1>6
<1>9. XorByte(c, b) = a
  BY <1>7, <1>8, Bits
<1> QED
  BY <1>6, <1>9 DEF c

\* The same for blocks.
LEMMA MemxorBack ==
  ASSUME NEW s \in Blocks, NEW t \in Blocks
  PROVE  Memxor(s, t) \in Blocks /\ Memxor(Memxor(s, t), t) = s
<1> DEFINE u == Memxor(s, t)
<1>1. ASSUME NEW i \in 1 .. BlockSize
      PROVE  /\ s[i] \in Byte /\ t[i] \in Byte
             /\ XorByte(s[i], t[i]) \in Byte /\ XorByte(XorByte(s[i], t[i]), t[i]) = s[i]
  <2>1. s[i] \in Byte /\ t[i] \in Byte
    BY DEF Blocks
  <2> QED
    BY <2>1, XorBack
<1>2. u = [i \in 1 .. BlockSize |-> XorByte(s[i], t[i])]
  BY DEF Memxor
<1> HIDE DEF u
<1>3. u \in Blocks /\ \A i \in 1 .. BlockSize : u[i] = XorByte(s[i], t[i])
  BY <1>1, <1>2 DEF Blocks
<1>4. \A i \in 1 .. BlockSize : XorByte(u[i], t[i]) = s[i]
  BY <1>1, <1>3
<1>5. s = [i \in 1 .. BlockSize |-> s[i]]
  BY DEF Blocks
<1>6. Memxor(u, t) = s
  BY <1>4, <1>5 DEF Memxor
<1> QED
  BY <1>3, <1>6 DEF u

\* The cipher is a permutation of the blocks.
LEMMA AesBack ==
  ASSUME NEW key \in Int, NEW s \in Blocks
  PROVE  Aes(key, s) \in Blocks /\ AesInverse(key, Aes(key, s)) = s
<1> DEFINE u == Aes(key, s)
<1>1. ASSUME NEW i \in 1 .. BlockSize
      PROVE  /\ (s[i] + key + i) % 256 \in Byte
             /\ (((s[i] + key + i) % 256) - key - i) % 256 = s[i]
  <2>1. s[i] \in Byte
    BY DEF Blocks
  <2>2. i \in Int
    OBVIOUS
  <2> DEFINE b == s[i]
  <2>3. b \in 0 .. 255
    BY <2>1 DEF Byte
  <2> HIDE DEF b
  <2>4. (b + key + i) % 256 \in 0 .. 255 /\ (((b + key + i) % 256) - key - i) % 256 = b
    BY <2>2, <2>3
  <2> QED
    BY <2>4 DEF Byte, b
<1>2. u = [i \in 1 .. BlockSize |-> (s[i] + key + i) % 256]
  BY DEF Aes
<1> HIDE DEF u
<1>3. u \in Blocks /\ \A i \in 1 .. BlockSize : u[i] = (s[i] + key + i) % 256
  BY <1>1, <1>2 DEF Blocks
<1>4. \A i \in 1 .. BlockSize : (u[i] - key - i) % 256 = s[i]
  BY <1>1, <1>3
<1>5. s = [i \in 1 .. BlockSize |-> s[i]]
  BY DEF Blocks
<1>6. AesInverse(key, u) = s
  BY <1>4, <1>5 DEF AesInverse
<1> QED
  BY <1>3, <1>6 DEF u

\* What both modes make of whole blocks, and that it comes back.
LEMMA EncryptRoundTrip ==
  ASSUME NEW mode, NEW key \in Int, NEW text \in Seq(Byte),
         Len(text) > 0, Len(text) % BlockSize = 0
  PROVE  /\ Encrypt(mode, key, text) \in Seq(Byte)
         /\ Len(Encrypt(mode, key, text)) = Len(text)
         /\ Decrypt(mode, key, Encrypt(mode, key, text)) = text
<1> DEFINE n == Len(text) \div BlockSize
           B == BlockSize
           A == Blocks
           Mixed(k, b) == IF mode = "cbc" THEN Memxor(Block(text, k), b) ELSE Block(text, k)
           Value(f, k) == IF k = 0 THEN ZeroBlock
                          ELSE Aes(key, IF mode = "cbc" THEN Memxor(Block(text, k), f[k - 1])
                                        ELSE Block(text, k))
           Is(f) == f = [k \in 0 .. n |-> Value(f, k)]
           out == CHOOSE f : Is(f)
           next == [k \in Nat |-> [b \in A |->
                      IF k + 1 \in 1 .. n THEN Aes(key, Mixed(k + 1, b)) ELSE b]]
<1>1. /\ B \in Nat /\ B > 0 /\ n \in Nat /\ n > 0
      /\ Len(text) = n * B /\ n * B \in Nat
  <2>1. B \in Nat /\ B > 0 /\ Len(text) \in Nat
    BY CodecsAssumption DEF CodecsAssumption
  <2> DEFINE size == Len(text)
  <2> HIDE DEF B, size
  <2>2. size \div B \in Nat /\ size = B * (size \div B) + (size % B)
    BY <2>1 DEF size
  <2>3. n \in Nat /\ Len(text) = B * n
    BY <2>1, <2>2 DEF B, size
  <2> HIDE DEF n
  <2>4. Len(text) = n * B
    BY <2>1, <2>3
  <2>5. n # 0
    BY <2>1, <2>4
  <2> QED
    BY <2>1, <2>3, <2>4, <2>5
<1>2. Encrypt(mode, key, text) = Joined(out, n)
  <2>1. n > 0 /\ Len(text) % BlockSize = 0
    BY <1>1
  <2> QED
    BY <2>1 DEF Encrypt
<1> HIDE DEF n
<1>3. \A k \in 1 .. n : Block(text, k) \in A
  BY <1>1, BlockOf
<1>4. ZeroBlock \in A
  BY DEF ZeroBlock, Blocks, Byte
<1>5. ASSUME NEW k \in 1 .. n, NEW b \in A
      PROVE  /\ Mixed(k, b) \in A /\ Aes(key, Mixed(k, b)) \in A
             /\ AesInverse(key, Aes(key, Mixed(k, b))) = Mixed(k, b)
             /\ mode = "cbc" => Memxor(Mixed(k, b), b) = Block(text, k)
  <2> HIDE DEF A
  <2>1. Mixed(k, b) \in A
    BY <1>3, <1>5, MemxorBack DEF A
  <2>2. mode = "cbc" => Memxor(Mixed(k, b), b) = Block(text, k)
    BY <1>3, <1>5, MemxorBack DEF A
  <2> HIDE DEF Mixed
  <2> QED
    BY <2>1, <2>2, AesBack DEF A
<1>6. next \in [Nat -> [A -> A]]
  <2> HIDE DEF A, Mixed
  <2> QED
    BY <1>5
<1>7. PICK f : Follows(f, A, ZeroBlock, next)
  <2> HIDE DEF A, next
  <2> QED
    BY <1>4, <1>6, Recursion
<1> DEFINE g == [k \in 0 .. n |-> f[k]]
<1>8. ASSUME NEW k \in 0 .. n PROVE g[k] = Value(g, k)
  <2>1. CASE k = 0
    BY <1>7, <2>1 DEF Follows
  <2>2. CASE k # 0
    <3>1. k - 1 \in Nat /\ k - 1 \in 0 .. n /\ (k - 1) + 1 = k /\ k \in 1 .. n
      BY <1>1, <2>2
    <3>2. f[k - 1] \in A /\ f[k] = next[k - 1][f[k - 1]]
      <4> HIDE DEF A, next
      <4> QED
        BY <1>7, <3>1 DEF Follows
    <3>3. f[k] = Aes(key, Mixed(k, f[k - 1]))
      <4> HIDE DEF A, Mixed
      <4> QED
        BY <3>1, <3>2
    <3> QED
      BY <2>2, <3>1, <3>3
  <2> QED
    BY <2>1, <2>2
<1>9. g = [k \in 0 .. n |-> g[k]]
  OBVIOUS
<1>10. Is(g)
  <2> HIDE DEF g, Value
  <2> QED
    BY <1>8, <1>9
<1>11. Is(out)
  <2> HIDE DEF Is
  <2> QED
    BY <1>10
<1> HIDE DEF out
<1>12. \A k \in 0 .. n : out[k] = Value(out, k)
  <2> HIDE DEF Value
  <2> QED
    BY <1>11
<1>13. \A k \in 0 .. n : out[k] \in A
  <2> DEFINE Q == {k \in Nat : k <= n => out[k] \in A}
  <2>1. 0 \in Q
    <3>1. out[0] = ZeroBlock
      BY <1>1, <1>12
    <3> HIDE DEF A
    <3> QED
      BY <1>4, <3>1
  <2>2. ASSUME NEW k \in Nat, k \in Q PROVE k + 1 \in Q
    <3> SUFFICES ASSUME k + 1 <= n PROVE out[k + 1] \in A
      OBVIOUS
    <3>1. k \in 0 .. n /\ k + 1 \in 0 .. n /\ k + 1 \in 1 .. n /\ (k + 1) - 1 = k
      BY <1>1
    <3>2. out[k] \in A
      BY <1>1, <2>2
    <3>3. out[k + 1] = Value(out, k + 1)
      BY <1>12, <3>1
    <3>4. out[k + 1] = Aes(key, Mixed(k + 1, out[k]))
      BY <3>1, <3>3
    <3> HIDE DEF A, Mixed
    <3> QED
      BY <1>5, <3>1, <3>2, <3>4
  <2> HIDE DEF Q
  <2>3. Nat \subseteq Q
    BY <2>1, <2>2, Induction
  <2> QED
    BY <2>3 DEF Q
<1>14. \A k \in 1 .. n : out[k] = Aes(key, Mixed(k, out[k - 1])) /\ out[k - 1] \in A
  <2> TAKE k \in 1 .. n
  <2>1. k \in 0 .. n /\ k # 0 /\ k - 1 \in 0 .. n
    BY <1>1
  <2>2. out[k] = Value(out, k)
    BY <1>12, <2>1
  <2>3. out[k - 1] \in A
    BY <1>13, <2>1
  <2> QED
    BY <2>1, <2>2, <2>3
<1> DEFINE cipher == Joined(out, n)
<1>15. /\ cipher \in Seq(Byte) /\ Len(cipher) = n * B
       /\ \A k \in 1 .. n : Block(cipher, k) = out[k]
  <2>1. \A k \in 1 .. n : out[k] \in Blocks
    BY <1>13
  <2> QED
    BY <1>1, <2>1, JoinedOf
<1> HIDE DEF cipher
<1> DEFINE Previous(k) == IF k = 1 THEN ZeroBlock ELSE Block(cipher, k - 1)
           plain == [k \in 1 .. n |->
                       IF mode = "cbc"
                       THEN Memxor(AesInverse(key, Block(cipher, k)), Previous(k))
                       ELSE AesInverse(key, Block(cipher, k))]
<1>16. Decrypt(mode, key, cipher) = Joined(plain, n)
  <2>1. Len(cipher) = Len(text) /\ Len(cipher) \div BlockSize = n
    BY <1>1, <1>15 DEF n
  <2> QED
    BY <1>1, <2>1 DEF Decrypt
<1>17. ASSUME NEW k \in 1 .. n PROVE plain[k] = Block(text, k)
  <2>1. Previous(k) = out[k - 1]
    <3>1. CASE k = 1
      <4>1. out[0] = ZeroBlock
        BY <1>1, <1>12
      <4> QED
        BY <3>1, <4>1
    <3>2. CASE k # 1
      <4>1. k - 1 \in 1 .. n
        BY <1>1, <3>2
      <4> QED
        BY <1>15, <3>2, <4>1
    <3> QED
      BY <3>1, <3>2
  <2>2. AesInverse(key, Block(cipher, k)) = Mixed(k, out[k - 1])
    <3>1. out[k - 1] \in A /\ out[k] = Aes(key, Mixed(k, out[k - 1]))
      BY <1>14
    <3>2. AesInverse(key, Aes(key, Mixed(k, out[k - 1]))) = Mixed(k, out[k - 1])
      <4> HIDE DEF Mixed, A
      <4> QED
        BY <1>5, <3>1
    <3> HIDE DEF Mixed
    <3> QED
      BY <1>15, <3>1, <3>2
  <2>3. plain[k] = IF mode = "cbc" THEN Memxor(Mixed(k, out[k - 1]), out[k - 1])
                   ELSE Mixed(k, out[k - 1])
    <3> HIDE DEF Previous, Mixed
    <3> QED
      BY <2>1, <2>2
  <2>4. CASE mode = "cbc"
    <3> HIDE DEF Mixed, A, plain
    <3> QED
      BY <1>5, <1>14, <2>3, <2>4
  <2>5. CASE mode # "cbc"
    <3> HIDE DEF plain
    <3> QED
      BY <2>3, <2>5
  <2> QED
    BY <2>4, <2>5
<1>18. Joined(plain, n) = text
  <2> HIDE DEF plain
  <2> QED
    BY <1>1, <1>17, JoinedBack
<1> QED
  BY <1>1, <1>2, <1>15, <1>16, <1>18 DEF cipher

-----------------------------------------------------------------------------

\* The padding goes up to whole blocks, and comes off again.
LEMMA Pkcs7RoundTrip ==
  ASSUME NEW text \in Seq(Byte)
  PROVE  /\ Pkcs7Encode(text) \in Seq(Byte)
         /\ Len(Pkcs7Encode(text)) > 0 /\ Len(Pkcs7Encode(text)) % BlockSize = 0
         /\ Pkcs7Decode(Pkcs7Encode(text)) = text
<1> DEFINE B == BlockSize
           a == Len(text)
           n == B - (a % B)
           pad == [i \in 1 .. n |-> n]
           s == Pkcs7Encode(text)
<1>1. B \in Nat /\ B > 0 /\ B <= 127 /\ a \in Nat
  BY CodecsAssumption DEF CodecsAssumption
<1>2. /\ n \in 1 .. B
      /\ (a + n) % B = 0
  <2> HIDE DEF B, a
  <2> DEFINE q == a \div B
             r == a % B
  <2>1. q \in Nat /\ r \in Nat /\ r < B /\ a = B * q + r
    BY <1>1
  <2> HIDE DEF q, r
  <2>2. a + (B - r) = B * (q + 1) + 0
    BY <1>1, <2>1
  <2>3. (B * (q + 1) + 0) % B = 0
    <3>1. q + 1 \in Nat
      BY <2>1
    <3> DEFINE p == q + 1
    <3> HIDE DEF p
    <3>2. (B * p + 0) % B = 0
      BY <1>1, <3>1 DEF p
    <3> QED
      BY <3>2 DEF p
  <2> QED
    BY <1>1, <2>1, <2>2, <2>3 DEF r
<1>3. s = text \o pad
  BY DEF Pkcs7Encode
<1> HIDE DEF n
<1>4. pad \in Seq(Byte) /\ Len(pad) = n
  BY <1>1, <1>2 DEF Byte
<1>5. \A i \in 1 .. n : pad[i] = n
  OBVIOUS
<1> HIDE DEF s, pad
<1>6. s \in Seq(Byte) /\ Len(s) = a + n
  <2>1. Len(text \o pad) = Len(text) + Len(pad)
    BY <1>4
  <2>2. text \o pad \in Seq(Byte)
    BY <1>4
  <2> QED
    BY <1>3, <1>4, <2>1, <2>2
<1>7. /\ \A i \in 1 .. a : s[i] = text[i]
      /\ \A i \in a + 1 .. a + n : s[i] = n
  <2>1. \A i \in 1 .. a : s[i] = text[i]
    BY <1>1, <1>3, <1>4
  <2>2. ASSUME NEW i \in a + 1 .. a + n PROVE s[i] = n
    <3>1. i - a \in 1 .. n /\ i \in 1 .. Len(s) /\ i > a
      BY <1>1, <1>2, <1>6
    <3>2. s[i] = pad[i - a]
      BY <1>1, <1>3, <1>4, <3>1
    <3> QED
      BY <1>5, <3>1, <3>2
  <2> QED
    BY <2>1, <2>2
<1> DEFINE size == Len(s)
<1>8. size = a + n /\ s[size] = n
  BY <1>1, <1>2, <1>6, <1>7
<1>9. SubSeq(s, 1, size - n) = text
  <2>1. size - n = a
    BY <1>1, <1>2, <1>8
  <2>2. SubSeq(s, 1, a) = text
    BY <1>1, <1>2, <1>6, <1>7
  <2> QED
    BY <2>1, <2>2
<1>10. \A i \in size - n + 1 .. size : s[i] = n
  BY <1>1, <1>2, <1>7, <1>8
<1>11. size % BlockSize = 0 /\ n \in 1 .. BlockSize
  BY <1>2, <1>8
<1> HIDE DEF size
<1>12. Pkcs7Decode(s) = text
  <2>1. Pkcs7Decode(s) = SubSeq(s, 1, size - s[size])
    BY <1>8, <1>10, <1>11 DEF Pkcs7Decode, size
  <2> QED
    BY <1>8, <1>9, <2>1
<1>13. size > 0
  BY <1>1, <1>2, <1>8
<1> QED
  BY <1>6, <1>11, <1>12, <1>13 DEF s, size

-----------------------------------------------------------------------------

\* Three bytes as four sextets.
LEMMA Sextets ==
  ASSUME NEW b1 \in Byte, NEW b2 \in Byte, NEW b3 \in Byte
  PROVE  LET s1 == ((256 * b1 + b2) \div 1024) % 64
             s2 == ((256 * b1 + b2) \div 16) % 64
             s3 == ((256 * b2 + b3) \div 64) % 64
             s4(b) == ((256 * b3 + b) \div 256) % 64
         IN  /\ s1 \in Sextet /\ s2 \in Sextet /\ s3 \in Sextet
             /\ ((64 * s1 + s2) \div 16) % 256 = b1
             /\ ((64 * s2 + s3) \div 4) % 256 = b2
             /\ \A b \in Byte : s4(b) \in Sextet /\ ((64 * s3 + s4(b)) \div 1) % 256 = b3
<1> DEFINE s1 == ((256 * b1 + b2) \div 1024) % 64
           s2 == ((256 * b1 + b2) \div 16) % 64
           s3 == ((256 * b2 + b3) \div 64) % 64
           s4(b) == ((256 * b3 + b) \div 256) % 64
<1>1. s1 = b1 \div 4
  BY DEF Byte
<1>2. s2 = 16 * (b1 % 4) + (b2 \div 16)
  BY DEF Byte
<1>3. s3 = 4 * (b2 % 16) + (b3 \div 64)
  BY DEF Byte
<1>4. \A b \in Byte : s4(b) = b3 % 64
  BY DEF Byte
<1> HIDE DEF s1, s2, s3, s4
<1>5. s1 \in Sextet /\ s2 \in Sextet /\ s3 \in Sextet
  BY <1>1, <1>2, <1>3 DEF Byte, Sextet
<1>6. ((64 * s1 + s2) \div 16) % 256 = b1
  BY <1>1, <1>2 DEF Byte
<1>7. ((64 * s2 + s3) \div 4) % 256 = b2
  BY <1>2, <1>3 DEF Byte
<1>8. ASSUME NEW b \in Byte
      PROVE  s4(b) \in Sextet /\ ((64 * s3 + s4(b)) \div 1) % 256 = b3
  <2>1. s4(b) = b3 % 64
    BY <1>4
  <2> QED
    BY <1>3, <2>1 DEF Byte, Sextet
<1> QED
  BY <1>5, <1>6, <1>7, <1>8 DEF s1, s2, s3, s4

\* What is encoded: four sextets to three bytes, and Equals in the place of what is not there.
LEMMA EncodedBase64 ==
  ASSUME NEW bytes \in Seq(Byte), NEW s, s = EncodeBase64(bytes)
  PROVE  LET size == Len(bytes)
             used == (8 * size + 5) \div 6
         IN  /\ s \in Seq(Sextet \cup {Equals})
             /\ Len(s) = 4 * ((size + 2) \div 3)
             /\ \A i \in 1 .. Len(s) : i <= used =>
                  s[i] = SextetAt(bytes, i - 1) /\ s[i] \in Sextet
             /\ \A i \in 1 .. Len(s) : i > used => s[i] = Equals
<1> DEFINE size == Len(bytes)
           used == (8 * size + 5) \div 6
           N == 4 * ((size + 2) \div 3)
<1>1. size \in Nat /\ used \in Nat /\ N \in Nat
  OBVIOUS
<1>2. ASSUME NEW i \in Nat PROVE SextetAt(bytes, i) \in Sextet
  <2> DEFINE At(j) == IF j <= Len(bytes) THEN bytes[j] ELSE 0
             first == (6 * i) \div 8 + 1
             pair == 256 * At(first) + At(first + 1)
  <2>1. ASSUME NEW j \in Nat \ {0} PROVE At(j) \in Byte
    <3>1. CASE j <= Len(bytes)
      BY <3>1
    <3>2. CASE ~(j <= Len(bytes))
      BY <3>2 DEF Byte
    <3> QED
      BY <3>1, <3>2
  <2>2. first \in Nat \ {0} /\ first + 1 \in Nat \ {0}
    OBVIOUS
  <2>3. pair \in Nat
    <3> DEFINE b == At(first)
               c == At(first + 1)
    <3>1. b \in Byte /\ c \in Byte
      BY <2>1, <2>2
    <3> HIDE DEF b, c
    <3>2. 256 * b + c \in Nat
      BY <3>1 DEF Byte
    <3> QED
      BY <3>2 DEF b, c
  <2> HIDE DEF pair
  <2>4. <<1024, 16, 64, 256>>[1 + (i % 4)] \in {1024, 16, 64, 256}
    <3>1. i % 4 \in 0 .. 3
      OBVIOUS
    <3> QED
      BY <3>1
  <2> DEFINE d == <<1024, 16, 64, 256>>[1 + (i % 4)]
  <2> HIDE DEF d
  <2>5. d \in {1024, 16, 64, 256}
    BY <2>4 DEF d
  <2>6. (pair \div d) % 64 \in Sextet
    <3>1. pair \div d \in Nat
      <4>1. /\ pair \div 1024 \in Nat /\ pair \div 16 \in Nat
            /\ pair \div 64 \in Nat /\ pair \div 256 \in Nat
        BY <2>3
      <4> QED
        BY <2>5, <4>1
    <3> DEFINE e == pair \div d
    <3> HIDE DEF e
    <3>2. e \in Nat
      BY <3>1 DEF e
    <3>3. e % 64 \in Sextet
      BY <3>2 DEF Sextet
    <3> QED
      BY <3>3 DEF e
  <2> QED
    BY <2>6 DEF SextetAt, d, pair
<1>3. s = [i \in 1 .. N |-> IF i <= used THEN SextetAt(bytes, i - 1) ELSE Equals]
  BY DEF EncodeBase64
<1> HIDE DEF size, used, N
<1>4. \A i \in 1 .. N : i - 1 \in Nat
  BY <1>1
<1>5. \A i \in 1 .. N : s[i] \in Sextet \cup {Equals}
  BY <1>2, <1>3, <1>4
<1>6. s \in Seq(Sextet \cup {Equals}) /\ Len(s) = N
  BY <1>1, <1>3, <1>5
<1>7. /\ \A i \in 1 .. Len(s) : i <= used => s[i] = SextetAt(bytes, i - 1) /\ s[i] \in Sextet
      /\ \A i \in 1 .. Len(s) : i > used => s[i] = Equals
  BY <1>1, <1>2, <1>3, <1>4, <1>6
<1> QED
  BY <1>6, <1>7 DEF size, used, N

\* The length and the padding of the last four characters.
LEMMA EncodedLength ==
  ASSUME NEW size \in Nat
  PROVE  LET N == 4 * ((size + 2) \div 3)
             used == (8 * size + 5) \div 6
         IN  /\ N \in Nat /\ N % 4 = 0 /\ used \in Nat /\ used <= N
             /\ size % 3 = 0 => used = N /\ 3 * (N \div 4) = size
             /\ size % 3 = 1 => used = N - 2 /\ 3 * (N \div 4) - 2 = size
             /\ size % 3 = 2 => used = N - 1 /\ 3 * (N \div 4) - 1 = size
             /\ size > 0 => N >= 4
<1>1. PICK g \in Nat : size = 3 * g \/ size = 3 * g + 1 \/ size = 3 * g + 2
  <2>1. size \div 3 \in Nat
    OBVIOUS
  <2>2. LET g == size \div 3 IN size = 3 * g \/ size = 3 * g + 1 \/ size = 3 * g + 2
    OBVIOUS
  <2> QED
    BY <2>1, <2>2
<1> QED
  BY <1>1

\* The encoded form is well formed.
LEMMA Base64Checked ==
  ASSUME NEW bytes \in Seq(Byte)
  PROVE  CheckBase64(EncodeBase64(bytes))
<1> DEFINE s == EncodeBase64(bytes)
           size == Len(bytes)
           used == (8 * size + 5) \div 6
           N == 4 * ((size + 2) \div 3)
<1>1. size \in Nat
  OBVIOUS
<1>2. /\ s \in Seq(Sextet \cup {Equals}) /\ Len(s) = N
      /\ \A i \in 1 .. N : i <= used => s[i] \in Sextet
      /\ \A i \in 1 .. N : i > used => s[i] = Equals
  BY EncodedBase64
<1>3. N \in Nat /\ N % 4 = 0 /\ used \in Nat /\ used >= N - 2 /\ used <= N
  BY <1>1, EncodedLength
<1> HIDE DEF s, size, used, N
<1>4. Ran(s) \subseteq Sextet \cup {Equals}
  BY <1>2 DEF Ran
<1>5. \A i \in 1 .. N : s[i] = Equals => i = N \/ (i = N - 1 /\ s[N] = Equals)
  <2> SUFFICES ASSUME NEW i \in 1 .. N, s[i] = Equals, i # N
               PROVE  i = N - 1 /\ s[N] = Equals
    OBVIOUS
  <2>1. i > used
    <3>1. Equals \notin Sextet
      BY DEF Equals, Sextet
    <3> QED
      BY <1>2, <1>3, <3>1
  <2>2. i = N - 1 /\ N > used /\ N \in 1 .. N
    BY <1>3, <2>1
  <2> QED
    BY <1>2, <2>2
<1> QED
  BY <1>2, <1>3, <1>4, <1>5 DEF CheckBase64, s

\* Byte k, and 0 behind the end.
ByteOrZero(bytes, k) == IF k <= Len(bytes) THEN bytes[k] ELSE 0

\* The four sextets that group g of three bytes becomes.
LEMMA SextetsOf ==
  ASSUME NEW bytes \in Seq(Byte), NEW g \in Nat
  PROVE  LET z(k) == ByteOrZero(bytes, 3 * g + k)
         IN  /\ \A k \in 1 .. 4 : z(k) \in Byte
             /\ SextetAt(bytes, 4 * g) = ((256 * z(1) + z(2)) \div 1024) % 64
             /\ SextetAt(bytes, 4 * g + 1) = ((256 * z(1) + z(2)) \div 16) % 64
             /\ SextetAt(bytes, 4 * g + 2) = ((256 * z(2) + z(3)) \div 64) % 64
             /\ SextetAt(bytes, 4 * g + 3) = ((256 * z(3) + z(4)) \div 256) % 64
<1> DEFINE z(k) == ByteOrZero(bytes, 3 * g + k)
<1>1. ASSUME NEW k \in 1 .. 4 PROVE z(k) \in Byte
  <2>1. 3 * g + k \in Nat \ {0}
    OBVIOUS
  <2> DEFINE j == 3 * g + k
  <2> HIDE DEF j
  <2>2. j \in Nat \ {0}
    BY <2>1 DEF j
  <2>3. CASE j <= Len(bytes)
    <3>1. bytes[j] \in Byte
      BY <2>2, <2>3
    <3> QED
      BY <2>3, <3>1 DEF ByteOrZero, j
  <2>4. CASE ~(j <= Len(bytes))
    BY <2>4 DEF ByteOrZero, j, Byte
  <2> QED
    BY <2>3, <2>4
<1>2. SextetAt(bytes, 4 * g) = ((256 * z(1) + z(2)) \div 1024) % 64
  <2>1. /\ (6 * (4 * g)) \div 8 + 1 = 3 * g + 1 /\ 1 + ((4 * g) % 4) = 1
        /\ 3 * g + 1 + 1 = 3 * g + 2
    OBVIOUS
  <2> QED
    BY <2>1 DEF SextetAt, ByteOrZero
<1>3. SextetAt(bytes, 4 * g + 1) = ((256 * z(1) + z(2)) \div 16) % 64
  <2>1. /\ (6 * (4 * g + 1)) \div 8 + 1 = 3 * g + 1 /\ 1 + ((4 * g + 1) % 4) = 2
        /\ 3 * g + 1 + 1 = 3 * g + 2
    OBVIOUS
  <2> QED
    BY <2>1 DEF SextetAt, ByteOrZero
<1>4. SextetAt(bytes, 4 * g + 2) = ((256 * z(2) + z(3)) \div 64) % 64
  <2>1. /\ (6 * (4 * g + 2)) \div 8 + 1 = 3 * g + 2 /\ 1 + ((4 * g + 2) % 4) = 3
        /\ 3 * g + 2 + 1 = 3 * g + 3
    OBVIOUS
  <2> QED
    BY <2>1 DEF SextetAt, ByteOrZero
<1>5. SextetAt(bytes, 4 * g + 3) = ((256 * z(3) + z(4)) \div 256) % 64
  <2>1. /\ (6 * (4 * g + 3)) \div 8 + 1 = 3 * g + 3 /\ 1 + ((4 * g + 3) % 4) = 4
        /\ 3 * g + 3 + 1 = 3 * g + 4
    OBVIOUS
  <2> QED
    BY <2>1 DEF SextetAt, ByteOrZero
<1> HIDE DEF z
<1> QED
  BY <1>1, <1>2, <1>3, <1>4, <1>5 DEF z

\* And every string of bytes comes back from it.
LEMMA Base64RoundTrip ==
  ASSUME NEW bytes \in Seq(Byte)
  PROVE  DecodeBase64(EncodeBase64(bytes)) = bytes
<1> DEFINE s == EncodeBase64(bytes)
           size == Len(bytes)
           used == (8 * size + 5) \div 6
           N == 4 * ((size + 2) \div 3)
<1>1. size \in Nat
  OBVIOUS
<1>2. /\ s \in Seq(Sextet \cup {Equals}) /\ Len(s) = N
      /\ \A i \in 1 .. N : i <= used => s[i] = SextetAt(bytes, i - 1) /\ s[i] \in Sextet
      /\ \A i \in 1 .. N : i > used => s[i] = Equals
  BY EncodedBase64
<1>3. /\ N \in Nat /\ used \in Nat /\ used <= N
      /\ size % 3 = 0 => used = N /\ 3 * (N \div 4) = size
      /\ size % 3 = 1 => used = N - 2 /\ 3 * (N \div 4) - 2 = size
      /\ size % 3 = 2 => used = N - 1 /\ 3 * (N \div 4) - 1 = size
      /\ size > 0 => N >= 4
  BY <1>1, EncodedLength
<1>4. CheckBase64(s)
  BY Base64Checked
<1>5. CASE size = 0
  <2>1. bytes = <<>>
    BY <1>5
  <2>2. N = 0
    BY <1>5
  <2> HIDE DEF s, N
  <2>3. s = <<>>
    BY <1>2, <2>2
  <2> QED
    BY <2>1, <2>3 DEF DecodeBase64, s
<1>6. CASE size > 0
  <2>1. DecodedSize(s) = size
    <3>1. Equals \notin Sextet
      BY DEF Equals, Sextet
    <3> HIDE DEF s, size, used, N
    <3>2. N \in 1 .. N /\ N - 1 \in 1 .. N
      BY <1>3, <1>6
    <3>3. DecodedSize(s) = 3 * (N \div 4) - (IF s[N] # Equals THEN 0
                                            ELSE IF s[N - 1] = Equals THEN 2 ELSE 1)
      BY <1>2 DEF DecodedSize
    <3>4. s[N] = Equals <=> N > used
      BY <1>2, <1>3, <3>1, <3>2
    <3>5. s[N - 1] = Equals <=> N - 1 > used
      BY <1>2, <1>3, <3>1, <3>2
    <3>6. size % 3 = 0 \/ size % 3 = 1 \/ size % 3 = 2
      BY <1>1 DEF size
    <3>7. CASE size % 3 = 0
      BY <1>3, <3>3, <3>4, <3>7
    <3>8. CASE size % 3 = 1
      BY <1>3, <3>3, <3>4, <3>5, <3>8
    <3>9. CASE size % 3 = 2
      BY <1>3, <3>3, <3>4, <3>5, <3>9
    <3> QED
      BY <3>6, <3>7, <3>8, <3>9
  <2>2. ASSUME NEW j \in 1 .. size PROVE ByteAt(s, j - 1) = bytes[j]
    <3>1. PICK g \in Nat : j = 3 * g + 1 \/ j = 3 * g + 2 \/ j = 3 * g + 3
      <4>1. (j - 1) \div 3 \in Nat
        OBVIOUS
      <4>2. LET g == (j - 1) \div 3
            IN  j = 3 * g + 1 \/ j = 3 * g + 2 \/ j = 3 * g + 3
        OBVIOUS
      <4> QED
        BY <4>1, <4>2
    <3> DEFINE z(k) == ByteOrZero(bytes, 3 * g + k)
               s1 == ((256 * z(1) + z(2)) \div 1024) % 64
               s2 == ((256 * z(1) + z(2)) \div 16) % 64
               s3 == ((256 * z(2) + z(3)) \div 64) % 64
               s4 == ((256 * z(3) + z(4)) \div 256) % 64
    <3>2. z(1) \in Byte /\ z(2) \in Byte /\ z(3) \in Byte /\ z(4) \in Byte
      BY SextetsOf
    <3>3. /\ SextetAt(bytes, 4 * g) = s1 /\ SextetAt(bytes, 4 * g + 1) = s2
          /\ SextetAt(bytes, 4 * g + 2) = s3 /\ SextetAt(bytes, 4 * g + 3) = s4
      BY SextetsOf
    <3>4. /\ s1 \in Sextet /\ s2 \in Sextet /\ s3 \in Sextet /\ s4 \in Sextet
          /\ ((64 * s1 + s2) \div 16) % 256 = z(1)
          /\ ((64 * s2 + s3) \div 4) % 256 = z(2)
          /\ ((64 * s3 + s4) \div 1) % 256 = z(3)
      <4> HIDE DEF z
      <4> QED
        BY <3>2, Sextets
    <3>5. \A k \in Nat : 3 * g + k = j => z(k) = bytes[j]
      BY DEF ByteOrZero
    <3> HIDE DEF s, z, s1, s2, s3, s4
    <3>6. ASSUME NEW i \in Nat, 6 * i + 1 <= 8 * size
          PROVE  i + 1 \in 1 .. N /\ s[i + 1] = SextetAt(bytes, i)
      <4>1. i + 1 <= used
        BY <1>1, <3>6
      <4>2. i + 1 \in 1 .. N /\ (i + 1) - 1 = i
        BY <1>3, <4>1
      <4> QED
        BY <1>2, <4>1, <4>2
    <3>7. s1 # Equals /\ s2 # Equals /\ s3 # Equals /\ s4 # Equals
      BY <3>4 DEF Sextet, Equals
    <3>8. CASE j = 3 * g + 1
      <4>1. s[4 * g + 1] = s1 /\ s[4 * g + 2] = s2
        <5>1. 6 * (4 * g) + 1 <= 8 * size /\ 6 * (4 * g + 1) + 1 <= 8 * size
          BY <1>1, <3>8
        <5>2. s[4 * g + 1] = SextetAt(bytes, 4 * g)
          BY <3>6, <5>1
        <5>3. s[4 * g + 1 + 1] = SextetAt(bytes, 4 * g + 1) /\ 4 * g + 1 + 1 = 4 * g + 2
          BY <3>6, <5>1
        <5> QED
          BY <3>3, <5>2, <5>3
      <4>2. /\ (8 * (j - 1)) \div 6 + 1 = 4 * g + 1 /\ 4 * g + 1 + 1 = 4 * g + 2
            /\ 1 + ((j - 1) % 3) = 1 /\ j - 1 \in Nat
        BY <3>8
      <4> DEFINE m == 4 * g + 1
      <4>3. m \in Nat /\ m = (8 * (j - 1)) \div 6 + 1 /\ s[m] = s1 /\ s[m + 1] = s2
        BY <4>1, <4>2
      <4> HIDE DEF m
      <4>4. ByteAt(s, j - 1) = ((64 * s1 + s2) \div <<16, 4, 1>>[1 + ((j - 1) % 3)]) % 256
        BY <3>7, <4>2, <4>3 DEF ByteAt
      <4> QED
        BY <3>4, <3>5, <3>8, <4>2, <4>4
    <3>9. CASE j = 3 * g + 2
      <4>1. s[4 * g + 2] = s2 /\ s[4 * g + 3] = s3
        <5>1. 6 * (4 * g + 1) + 1 <= 8 * size /\ 6 * (4 * g + 2) + 1 <= 8 * size
          BY <1>1, <3>9
        <5>2. s[4 * g + 1 + 1] = SextetAt(bytes, 4 * g + 1) /\ 4 * g + 1 + 1 = 4 * g + 2
          BY <3>6, <5>1
        <5>3. s[4 * g + 2 + 1] = SextetAt(bytes, 4 * g + 2) /\ 4 * g + 2 + 1 = 4 * g + 3
          BY <3>6, <5>1
        <5> QED
          BY <3>3, <5>2, <5>3
      <4>2. /\ (8 * (j - 1)) \div 6 + 1 = 4 * g + 2 /\ 4 * g + 2 + 1 = 4 * g + 3
            /\ 1 + ((j - 1) % 3) = 2 /\ j - 1 \in Nat
        BY <3>9
      <4>3. ByteAt(s, j - 1) = ((64 * s2 + s3) \div <<16, 4, 1>>[1 + ((j - 1) % 3)]) % 256
        BY <3>7, <4>1, <4>2 DEF ByteAt
      <4> QED
        BY <3>4, <3>5, <3>9, <4>2, <4>3
    <3>10. CASE j = 3 * g + 3
      <4>1. s[4 * g + 3] = s3 /\ s[4 * g + 4] = s4
        <5>1. 6 * (4 * g + 2) + 1 <= 8 * size /\ 6 * (4 * g + 3) + 1 <= 8 * size
          BY <1>1, <3>10
        <5>2. s[4 * g + 2 + 1] = SextetAt(bytes, 4 * g + 2) /\ 4 * g + 2 + 1 = 4 * g + 3
          BY <3>6, <5>1
        <5>3. s[4 * g + 3 + 1] = SextetAt(bytes, 4 * g + 3) /\ 4 * g + 3 + 1 = 4 * g + 4
          BY <3>6, <5>1
        <5> QED
          BY <3>3, <5>2, <5>3
      <4>2. /\ (8 * (j - 1)) \div 6 + 1 = 4 * g + 3 /\ 4 * g + 3 + 1 = 4 * g + 4
            /\ 1 + ((j - 1) % 3) = 3 /\ j - 1 \in Nat
        BY <3>10
      <4>3. ByteAt(s, j - 1) = ((64 * s3 + s4) \div <<16, 4, 1>>[1 + ((j - 1) % 3)]) % 256
        BY <3>7, <4>1, <4>2 DEF ByteAt
      <4> QED
        BY <3>4, <3>5, <3>10, <4>2, <4>3
    <3> QED
      BY <3>1, <3>8, <3>9, <3>10
  <2> HIDE DEF s
  <2>3. s # <<>>
    BY <1>2, <1>3, <1>6
  <2>4. DecodeBase64(s) = [j \in 1 .. size |-> ByteAt(s, j - 1)]
    BY <1>4, <2>1, <2>3 DEF DecodeBase64
  <2>5. bytes = [j \in 1 .. size |-> bytes[j]]
    OBVIOUS
  <2> HIDE DEF size
  <2> QED
    BY <2>2, <2>4, <2>5 DEF s
<1> QED
  BY <1>1, <1>5, <1>6

-----------------------------------------------------------------------------

\* A normal form is digits, as many as a card number has.
THEOREM NormalForm ==
  ASSUME NEW pan \in Seq(0 .. Space), NormalizePan(pan) # Error
  PROVE  /\ NormalizePan(pan) \in Seq(Digit)
         /\ Len(NormalizePan(pan)) \in PanMin .. PanMax
         /\ Len(NormalizePan(pan)) <= Len(pan)
<1>1. NormalizePan(pan) = Digits(pan) /\ Len(Digits(pan)) \in PanMin .. PanMax
  BY DEF NormalizePan
<1> QED
  BY <1>1, DigitsAre

\* encode_data and decode_data of a token: whatever is stored is decoded to digits, and
\* a card number or a CVN of digits, of any length from 1 that fits, to itself.
THEOREM NumbersReturn ==
  ASSUME NEW text \in Seq(0 .. Space), text # <<>>, NEW block \in BcdEncode(text),
         NEW key \in Int
  PROVE  LET data == EncodeBase64(Encrypt("ecb", key, block))
             plain == BcdDecode(Decrypt("ecb", key, DecodeBase64(data)))
         IN  /\ CheckBase64(data) /\ data # <<>>
             /\ plain \in Seq(Digit)
             /\ text \in Seq(Digit) => plain = text
<1> DEFINE cipher == Encrypt("ecb", key, block)
           data == EncodeBase64(cipher)
<1> text \in Seq(Nibble)
  <2>1. Ran(text) \subseteq Nibble
    BY DEF BcdEncode
  <2>2. \A i \in 1 .. Len(text) : text[i] \in Nibble
    BY <2>1 DEF Ran
  <2> QED
    BY <2>2
<1>1. /\ block \in [1 .. BlockSize -> Byte]
      /\ text \in Seq(Digit) => BcdDecode(block) = text
  BY BcdRoundTrip
<1>2. block \in Seq(Byte) /\ Len(block) > 0 /\ Len(block) % BlockSize = 0
  <2>1. BlockSize \in Nat /\ BlockSize > 0 /\ BlockSize % BlockSize = 0
    BY CodecsAssumption DEF CodecsAssumption
  <2>2. block \in Seq(Byte) /\ Len(block) = BlockSize
    BY <1>1, <2>1
  <2> QED
    BY <2>1, <2>2
<1>3. cipher \in Seq(Byte) /\ Decrypt("ecb", key, cipher) = block
  BY <1>2, EncryptRoundTrip
<1> HIDE DEF cipher
<1>4. CheckBase64(data) /\ DecodeBase64(data) = cipher
  BY <1>3, Base64Checked, Base64RoundTrip
<1> HIDE DEF data
<1>5. BcdDecode(block) \in Seq(Digit)
  BY <1>1, BcdDigits
<1>6. data # <<>>
  <2>1. cipher # <<>>
    <3>1. Decrypt("ecb", key, <<>>) = Error
      BY CodecsAssumption DEF Decrypt, CodecsAssumption
    <3>2. block # Error
      <4>1. block[1] \in Byte
        BY <1>2
      <4>2. Error[1] = -1
        BY DEF Error
      <4>3. -1 \notin Byte
        BY DEF Byte
      <4>4. block[1] # Error[1]
        BY <4>1, <4>2, <4>3
      <4> QED
        BY <4>4
    <3> QED
      BY <1>3, <3>1, <3>2
  <2> QED
    BY <1>4, <2>1 DEF DecodeBase64
<1> QED
  BY <1>1, <1>3, <1>4, <1>5, <1>6 DEF data, cipher

\* The same for texts of the vault, of any length.
THEOREM TextsReturn ==
  ASSUME NEW text \in Seq(Byte), NEW key \in Int
  PROVE  LET data == EncodeBase64(Encrypt("cbc", key, Pkcs7Encode(text)))
         IN  /\ CheckBase64(data)
             /\ Pkcs7Decode(Decrypt("cbc", key, DecodeBase64(data))) = text
<1> DEFINE blocks == Pkcs7Encode(text)
           cipher == Encrypt("cbc", key, blocks)
           data == EncodeBase64(cipher)
<1>1. /\ blocks \in Seq(Byte) /\ Len(blocks) > 0 /\ Len(blocks) % BlockSize = 0
      /\ Pkcs7Decode(blocks) = text
  BY Pkcs7RoundTrip
<1> HIDE DEF blocks
<1>2. cipher \in Seq(Byte) /\ Decrypt("cbc", key, cipher) = blocks
  BY <1>1, EncryptRoundTrip
<1> HIDE DEF cipher
<1>3. CheckBase64(data) /\ DecodeBase64(data) = cipher
  BY <1>2, Base64Checked, Base64RoundTrip
<1> QED
  BY <1>1, <1>2, <1>3 DEF data, cipher, blocks

=============================================================================
