---------------------------- MODULE SrfcMessageProofs ----------------------------
(***************************************************************************)
(* Theorems about SrfcMessage, for messages, texts and payloads of any     *)
(* size: what is written is what was counted, and what is read is what was *)
(* written.                                                                *)
(*                                                                         *)
(* A message is described by its lines and by where each of them ends      *)
(* (Offsets): the writing of a message puts them there (MessageLayout),    *)
(* the reading finds them there (LineRead).  Recursive definitions are     *)
(* reasoned about by induction, which follows from the fact that a set of  *)
(* numbers has a least element.                                            *)
(***************************************************************************)
EXTENDS SrfcMessage, FiniteSetTheorems, SequenceTheorems, WellFoundedInduction, TLAPS

-----------------------------------------------------------------------------
(* Induction and recursion on numbers, from least elements.                *)

(* There is a well-founded order under which the smaller of two numbers    *)
(* comes first.                                                            *)
LEMMA NatOrder ==
  \E LT : IsWellFoundedOn(LT, Nat) /\ \A m, n \in Nat : m < n => <<m, n>> \in LT
<1>1. IsWellFoundedOn(OpToRel(<, Nat), Nat)
  BY NatLessThanWellFounded
<1>2. \A m, n \in Nat : m < n => <<m, n>> \in OpToRel(<, Nat)
  BY Zenon DEF OpToRel
<1> QED BY <1>1, <1>2, Zenon

(* A set that is not empty has an element that is minimal under such an    *)
(* order.                                                                  *)
LEMMA MinimalIn ==
  ASSUME NEW S, NEW T, T \subseteq S, T # {}, NEW LT, IsWellFoundedOn(LT, S)
  PROVE  \E x \in T : \A y \in T : ~(<<y, x>> \in LT)
BY WFMin

(* A set of numbers that is not empty has a least element.                 *)
LEMMA NatMin ==
  ASSUME NEW T, T \subseteq Nat, T # {}
  PROVE  \E n \in T : \A m \in T : n <= m
<1>1. PICK LT : IsWellFoundedOn(LT, Nat) /\ \A m, n \in Nat : m < n => <<m, n>> \in LT
  BY NatOrder
<1>2. PICK n \in T : \A m \in T : ~(<<m, n>> \in LT)
  BY <1>1, MinimalIn
<1>3. ASSUME NEW m \in T PROVE n <= m
  <2>1. m \in Nat /\ n \in Nat OBVIOUS
  <2>2. ~(m < n) BY ONLY <2>1, <1>1, <1>2, m \in T, Zenon
  <2> QED BY ONLY <2>1, <2>2
<1> QED BY <1>3

(* Induction up to n, for the set of the numbers that have the property:   *)
(* there is no least number without it.                                    *)
LEMMA Induction ==
  ASSUME NEW n \in Nat, NEW T, 0 \in T, \A k \in 1..n : k-1 \in T => k \in T
  PROVE  \A k \in 0..n : k \in T
<1> DEFINE Bad == {k \in 0..n : k \notin T}
<1>1. SUFFICES ASSUME Bad # {} PROVE FALSE
  OBVIOUS
<1>2. Bad \subseteq Nat
  OBVIOUS
<1>3. PICK k \in Bad : \A m \in Bad : k <= m
  <2> HIDE DEF Bad
  <2> QED BY <1>1, <1>2, NatMin
<1>4. k \in 1..n /\ k-1 \in 0..n /\ ~(k <= k-1)
  OBVIOUS
<1>5. k-1 \in T
  BY <1>3, <1>4
<1> QED BY <1>4, <1>5

(* f begins with base and goes on as step says.                            *)
Recurs(f, X, base, n, step) ==
  f \in [0..n -> X] /\ f[0] = base /\ \A k \in 1..n : f[k] = step[<<f[k-1], k>>]

(* Such a function exists.                                                 *)
LEMMA Recursion ==
  ASSUME NEW X, NEW base \in X, NEW n \in Nat, NEW step \in [X \X (1..n) -> X]
  PROVE  \E f : Recurs(f, X, base, n, step)
<1> DEFINE F(g, m) == Recurs(g, X, base, m, step)
           T == {m \in 0..n : \E g : F(g, m)}
<1>1. 0 \in T
  <2> DEFINE g == [k \in 0..0 |-> base]
  <2>1. F(g, 0) BY DEF Recurs
  <2> HIDE DEF g
  <2>2. \E gg : F(gg, 0) BY ONLY <2>1
  <2> QED BY <2>2
<1>2. ASSUME NEW m \in 1..n, m-1 \in T PROVE m \in T
  <2>1. m-1 \in Nat /\ m \in 0..n OBVIOUS
  <2>2. PICK g : F(g, m-1) BY <1>2
  <2> DEFINE h == [k \in 0..m |-> IF k < m THEN g[k] ELSE step[<<g[m-1], m>>]]
  <2>3. h \in [0..m -> X] BY <2>2, <2>1 DEF Recurs
  <2>4. h[0] = base BY <2>2, <2>1 DEF Recurs
  <2>5. ASSUME NEW k \in 1..m PROVE h[k] = step[<<h[k-1], k>>]
    <3>1. k-1 \in 0..m /\ k-1 < m /\ k \in 0..m BY <2>1
    <3>2. h[k-1] = g[k-1] BY <3>1
    <3>3. CASE k < m BY <3>1, <3>2, <3>3, <2>2 DEF Recurs
    <3>4. CASE k = m BY <3>1, <3>2, <3>4
    <3> QED BY <3>3, <3>4, <3>1
  <2>6. F(h, m) BY <2>3, <2>4, <2>5 DEF Recurs
  <2> QED BY <2>1, <2>6
<1>3. n \in T
  <2> HIDE DEF T
  <2> QED BY <1>1, <1>2, Induction
<1> QED BY <1>3

-----------------------------------------------------------------------------
(* Numbers: what is written in decimal is read back.                       *)

(* Power is what its recursive definition says.                            *)
LEMMA PowerDef ==
  /\ Power \in [0..PreambleWidth -> Nat \ {0}] /\ Power[0] = 1
  /\ \A k \in 1..PreambleWidth : Power[k] = 10 * Power[k-1]
<1> DEFINE X == Nat \ {0}
           one == 1
           step == [a \in X \X (1..PreambleWidth) |-> 10 * a[1]]
<1>1. PreambleWidth \in Nat BY MessageAssumption
<1>2. step \in [X \X (1..PreambleWidth) -> X] /\ one \in X
  OBVIOUS
<1>3. PICK f : Recurs(f, X, one, PreambleWidth, step)
  <2> HIDE DEF X, one, step
  <2> QED BY <1>1, <1>2, Recursion
<1>4. ASSUME NEW k \in 1..PreambleWidth PROVE f[k] = 10 * f[k-1]
  <2>1. f[k-1] \in X BY <1>3, <1>1 DEF Recurs
  <2> QED BY <2>1, <1>3 DEF Recurs
<1>5. f = [k \in 0..PreambleWidth |-> IF k = 0 THEN 1 ELSE 10 * f[k-1]]
  BY <1>3, <1>4 DEF Recurs
<1>6. Power = [k \in 0..PreambleWidth |-> IF k = 0 THEN 1 ELSE 10 * Power[k-1]]
  BY <1>5 DEF Power
<1> DEFINE T == {k \in 0..PreambleWidth : Power[k] \in X}
<1>7. 0 \in T BY <1>6, <1>1
<1>8. ASSUME NEW k \in 1..PreambleWidth, k-1 \in T PROVE k \in T
  BY <1>6, <1>8, <1>1
<1>9. \A k \in 0..PreambleWidth : k \in T
  <2> HIDE DEF T
  <2> QED BY <1>1, <1>7, <1>8, Induction
<1> QED BY <1>6, <1>9, <1>1

(* A number below 10^PreambleWidth has the digits digits() counts.         *)
LEMMA NumberOfDigitsProperties ==
  ASSUME NEW n \in Nat, n < Power[PreambleWidth]
  PROVE  /\ NumberOfDigits(n) \in 1..PreambleWidth
         /\ n < Power[NumberOfDigits(n)]
         /\ NumberOfDigits(n) = 1 \/ n >= Power[NumberOfDigits(n) - 1]
<1> DEFINE T == {k \in 1..PreambleWidth : n < Power[k]}
<1>1. PreambleWidth \in Nat \ {0} BY MessageAssumption
<1>2. T \subseteq Nat /\ T # {}
  BY <1>1
<1>3. PICK k \in T : \A j \in T : k <= j
  <2> HIDE DEF T
  <2> QED BY <1>2, NatMin
<1>4. CASE k = 1
  BY <1>3, <1>4 DEF NumberOfDigits
<1>5. CASE k # 1
  <2>1. k-1 \in 1..PreambleWidth /\ ~(k <= k-1) BY <1>1, <1>5
  <2>2. k-1 \notin T BY <1>3, <2>1
  <2>3. Power[k-1] \in Nat BY <2>1, PowerDef
  <2>4. n >= Power[k-1] BY <2>1, <2>2, <2>3
  <2> QED BY <1>3, <2>4 DEF NumberOfDigits
<1> QED BY <1>4, <1>5

(* The ten digits differ, and are neither NUL nor separators.              *)
LEMMA DigitProperties ==
  /\ Digit \in [1..10 -> Character \ {NUL}]
  /\ \A i, j \in 1..10 : Digit[i] = Digit[j] => i = j
  /\ \A i \in 1..10 : Digit[i] \notin Separators
  /\ ToSet(Digit) = {Digit[i] : i \in 1..10}
<1>1. \A i, j \in 1..10 : Digit[i] = Digit[j] => i = j
  BY SMT DEF Digit
<1>2. \A i \in 1..10 : Digit[i] \in {"0", "1", "2", "3", "4", "5", "6", "7", "8", "9"}
  BY SMT DEF Digit
<1>3. \A c \in {"0", "1", "2", "3", "4", "5", "6", "7", "8", "9"} :
        c # NUL /\ c \notin Separators
  BY SMT DEF NUL, Separators
<1>4. DOMAIN Digit = 1..10 /\ Digit = [i \in 1..10 |-> Digit[i]]
  BY SMT DEF Digit
<1>5. ToSet(Digit) = {Digit[i] : i \in 1..10}
  BY <1>4 DEF ToSet
<1>6. \A i \in 1..10 : Digit[i] \in Character
  BY <1>5, MessageAssumption
<1> QED BY <1>1, <1>2, <1>3, <1>4, <1>5, <1>6

(* One more decimal of a quotient.                                         *)
LEMMA DivisionStep ==
  ASSUME NEW n \in Nat, NEW p \in Nat \ {0}
  PROVE  /\ n \div p \in Nat /\ n \div (10 * p) \in Nat
         /\ n \div p = 10 * (n \div (10 * p)) + ((n \div p) % 10)
OBVIOUS

(* What is written in decimal is text of that many digits.                 *)
LEMMA DecimalProperties ==
  ASSUME NEW n \in Nat, NEW w \in 0..PreambleWidth
  PROVE  /\ Decimal(n, w) \in Text /\ Len(Decimal(n, w)) = w
         /\ \A i \in 1..w : /\ (n \div Power[w - i]) % 10 \in 0..9
                            /\ Decimal(n, w)[i] = Digit[((n \div Power[w - i]) % 10) + 1]
                            /\ Decimal(n, w)[i] \in ToSet(Digit)
                            /\ Decimal(n, w)[i] \notin Separators
<1>1. PreambleWidth \in Nat BY MessageAssumption
<1>2. ASSUME NEW i \in 1..w
      PROVE  (n \div Power[w - i]) % 10 \in 0..9
  <2>1. w - i \in 0..PreambleWidth BY <1>1
  <2>2. Power[w - i] \in Nat \ {0} BY <2>1, PowerDef
  <2> QED BY <2>2
<1>3. ASSUME NEW i \in 1..w
      PROVE  /\ Decimal(n, w)[i] = Digit[((n \div Power[w - i]) % 10) + 1]
             /\ Decimal(n, w)[i] \in Character \ {NUL}
             /\ Decimal(n, w)[i] \in ToSet(Digit)
             /\ Decimal(n, w)[i] \notin Separators
  <2> DEFINE d == ((n \div Power[w - i]) % 10) + 1
  <2>1. d \in 1..10 BY <1>2
  <2>2. Decimal(n, w)[i] = Digit[d] BY DEF Decimal
  <2> HIDE DEF d
  <2>3. Digit[d] \in Character \ {NUL} /\ Digit[d] \in ToSet(Digit) /\ Digit[d] \notin Separators
    BY <2>1, DigitProperties
  <2> QED BY <2>2, <2>3 DEF d
<1>4. Decimal(n, w) \in [1..w -> Character \ {NUL}]
  BY <1>3 DEF Decimal
<1>5. w \in Nat BY <1>1
<1>6. Decimal(n, w) \in Seq(Character \ {NUL}) /\ Len(Decimal(n, w)) = w
  BY <1>4, <1>5
<1> QED BY <1>2, <1>3, <1>6 DEF Text

(* What is written as digits is read back.                                 *)
LEMMA StoulDecimal ==
  ASSUME NEW w \in 1..PreambleWidth, NEW n \in Nat, n < Power[w]
  PROVE  Stoul(Decimal(n, w)) = n
<1> DEFINE s == Decimal(n, w)
           f == [k \in 0..w |-> n \div Power[w - k]]
           Step(v, k) == 10 * v + (CHOOSE d \in 1..10 : Digit[d] = s[k]) - 1
<1>1. PreambleWidth \in Nat /\ w \in Nat /\ w \in 0..PreambleWidth
  BY MessageAssumption
<1>2. Len(s) = w /\ \A i \in 1..w : s[i] \in ToSet(Digit)
  BY <1>1, DecimalProperties
<1>3. \A k \in 0..w : Power[w - k] \in Nat \ {0}
  BY <1>1, PowerDef
<1>4. ASSUME NEW k \in 1..w PROVE f[k] = Step(f[k-1], k)
  <2> DEFINE p == Power[w - k]
  <2>1. p \in Nat \ {0} /\ Power[w - (k-1)] = 10 * p
    BY <1>1, <1>3, PowerDef
  <2> DEFINE e == (n \div p) % 10
  <2>2. e \in 0..9 /\ s[k] = Digit[e + 1]
    BY <1>1, DecimalProperties
  <2>3. \A d \in 1..10 : Digit[d] = Digit[e + 1] => d = e + 1
    BY <2>2, DigitProperties
  <2>4. (CHOOSE d \in 1..10 : Digit[d] = s[k]) = e + 1
    <3> HIDE DEF e, s
    <3>1. e + 1 \in 1..10 BY <2>2
    <3> QED BY <2>2, <2>3, <3>1
  <2>5. f[k] = n \div p /\ f[k-1] = n \div (10 * p)
    BY <2>1, <1>1
  <2>6. n \div p \in Nat /\ n \div (10 * p) \in Nat /\ n \div p = 10 * (n \div (10 * p)) + e
    BY <2>1, DivisionStep
  <2>7. Step(f[k-1], k) = 10 * f[k-1] + (e + 1) - 1
    BY <2>4
  <2> HIDE DEF f, e, p, Step
  <2> QED BY <2>2, <2>5, <2>6, <2>7
<1>5. f[0] = 0 /\ f[w] = n
  <2>1. f[0] = n \div Power[w] /\ f[w] = n \div Power[0] BY <1>1
  <2>2. Power[w] \in Nat \ {0} BY <1>1, PowerDef
  <2>3. n \div Power[w] = 0 BY <2>2
  <2>4. n \div Power[0] = n BY PowerDef
  <2> QED BY <2>1, <2>3, <2>4
<1>6. f = [k \in 0..w |-> IF k = 0 THEN 0 ELSE Step(f[k-1], k)]
  <2> DEFINE g == [k \in 0..w |-> IF k = 0 THEN 0 ELSE Step(f[k-1], k)]
  <2> HIDE DEF Step
  <2>1. ASSUME NEW k \in 0..w PROVE f[k] = g[k]
    <3>1. CASE k = 0 BY <3>1, <1>5, <1>1
    <3>2. CASE k # 0
      <4>1. k \in 1..w BY <3>2, <1>1
      <4>2. g[k] = Step(f[k-1], k) BY <3>2
      <4> QED BY ONLY <4>1, <4>2, <1>4
    <3> QED BY <3>1, <3>2
  <2> QED BY <2>1
<1> DEFINE V(v) == v = [k \in 0..w |-> IF k = 0 THEN 0 ELSE Step(v[k-1], k)]
           value == CHOOSE v : V(v)
<1>7. V(value)
  <2> HIDE DEF f, Step
  <2> QED BY <1>6
<1>8. value[w] = n
  <2> DEFINE T == {k \in 0..w : value[k] = f[k]}
  <2> HIDE DEF value, f, Step
  <2>1. 0 \in T BY <1>7, <1>5, <1>1
  <2>2. ASSUME NEW k \in 1..w, k-1 \in T PROVE k \in T
    <3>1. k \in 0..w /\ k # 0 BY <1>1
    <3>2. value[k] = Step(value[k-1], k) BY <1>7, <3>1
    <3> QED BY <3>1, <3>2, <1>4, <2>2
  <2>3. w \in T
    <3> HIDE DEF T
    <3> QED BY <1>1, <2>1, <2>2, Induction
  <2> QED BY <2>3, <1>5
<1>9. SelectInSeq(s, LAMBDA c : c \notin ToSet(Digit)) = 0
  <2> HIDE DEF s
  <2> QED BY <1>2, <1>1 DEF SelectInSeq
<1>10. Stoul(s) = value[w]
  BY <1>9, <1>2, <1>1 DEF Stoul
<1> QED BY <1>8, <1>10

(* What SubSeq returns.                                                    *)
LEMMA Piece ==
  ASSUME NEW S, NEW s \in Seq(S), NEW j \in Nat \ {0}, NEW k \in Nat, j <= k + 1, k <= Len(s)
  PROVE  /\ SubSeq(s, j, k) \in Seq(S)
         /\ Len(SubSeq(s, j, k)) = k - j + 1
         /\ \A i \in 1..(k - j + 1) : SubSeq(s, j, k)[i] = s[i + j - 1]
<1>1. \A i \in j..k : s[i] \in S
  OBVIOUS
<1>2. /\ SubSeq(s, j, k) \in Seq(S)
      /\ Len(SubSeq(s, j, k)) = IF j <= k THEN k - j + 1 ELSE 0
      /\ \A i \in 1..(k - j + 1) : SubSeq(s, j, k)[i] = s[j + i - 1]
  BY <1>1, SubSeqProperties
<1> QED BY <1>2

(* Powers grow.                                                            *)
LEMMA PowerGrows ==
  ASSUME NEW k \in 0..PreambleWidth, NEW j \in 0..PreambleWidth, k <= j
  PROVE  Power[k] <= Power[j]
<1> DEFINE T == {i \in 0..PreambleWidth : k <= i => Power[k] <= Power[i]}
<1>1. PreambleWidth \in Nat /\ Power[k] \in Nat
  BY MessageAssumption, PowerDef
<1>2. 0 \in T
  BY <1>1
<1>3. ASSUME NEW i \in 1..PreambleWidth, i-1 \in T PROVE i \in T
  <2>1. i \in 0..PreambleWidth /\ i-1 \in 0..PreambleWidth
    BY <1>1
  <2>2. Power[i-1] \in Nat /\ Power[i] = 10 * Power[i-1]
    BY <2>1, PowerDef
  <2>3. CASE k = i BY <1>1, <2>1, <2>3
  <2>4. CASE k # i /\ k <= i
    <3>1. k <= i-1 BY <2>1, <2>4
    <3> QED BY <1>1, <1>3, <2>1, <2>2, <3>1
  <2>5. CASE ~(k <= i) BY <2>1, <2>5
  <2> QED BY <2>3, <2>4, <2>5
<1>4. \A i \in 0..PreambleWidth : i \in T
  <2> HIDE DEF T
  <2> QED BY <1>1, <1>2, <1>3, Induction
<1> QED BY <1>4

(* Behind its digits a number has zeros, and its first digit is none unless*)
(* it is the only one.                                                     *)
LEMMA LeadingDigits ==
  ASSUME NEW n \in Nat, n < Power[PreambleWidth]
  PROVE  /\ \A e \in NumberOfDigits(n)..PreambleWidth : Digit[((n \div Power[e]) % 10) + 1] = "0"
         /\ NumberOfDigits(n) = 1
            \/ Digit[((n \div Power[NumberOfDigits(n) - 1]) % 10) + 1] # "0"
<1> DEFINE k == NumberOfDigits(n)
<1>1. /\ PreambleWidth \in Nat \ {0} /\ k \in 1..PreambleWidth /\ n < Power[k]
      /\ k = 1 \/ n >= Power[k - 1]
  BY MessageAssumption, NumberOfDigitsProperties
<1> HIDE DEF k
<1>2. Digit[1] = "0"
  BY DEF Digit
<1>3. ASSUME NEW e \in k..PreambleWidth PROVE Digit[((n \div Power[e]) % 10) + 1] = "0"
  <2> DEFINE p == Power[e]
  <2>1. e \in 0..PreambleWidth /\ k \in 0..PreambleWidth /\ k <= e
    BY <1>1
  <2>2. Power[k] <= p /\ Power[k] \in Nat /\ p \in Nat \ {0}
    BY <2>1, PowerGrows, PowerDef
  <2> HIDE DEF p
  <2>3. n < p
    BY <1>1, <2>2
  <2>4. n \div p = 0
    BY <2>2, <2>3
  <2>5. ((n \div p) % 10) + 1 = 1
    BY <2>4
  <2> QED BY <1>2, <2>5 DEF p
<1>4. ASSUME k # 1 PROVE Digit[((n \div Power[k - 1]) % 10) + 1] # "0"
  <2> DEFINE p == Power[k - 1]
             d == n \div p
  <2>1. k - 1 \in 0..PreambleWidth
    BY <1>1
  <2>2. p \in Nat \ {0} /\ n < 10 * p /\ n >= p
    BY <1>1, <1>4, <2>1, PowerDef
  <2> HIDE DEF p
  <2>3. d \in 1..9
    BY <2>2
  <2> HIDE DEF d
  <2>4. d % 10 = d /\ d + 1 \in 1..10 /\ d + 1 # 1 /\ 1 \in 1..10
    BY <2>3
  <2>5. Digit[(d % 10) + 1] # "0"
    BY <1>2, <2>4, DigitProperties
  <2> QED BY <2>5 DEF d, p
<1> QED BY <1>3, <1>4 DEF k

(* std::to_string writes as many digits as digits() counts.                *)
LEMMA NumberIsDecimal ==
  ASSUME NEW n \in Nat, n < Power[PreambleWidth]
  PROVE  Number(n) = Decimal(n, NumberOfDigits(n))
<1> DEFINE k == NumberOfDigits(n)
           w == PreambleWidth
           d == Decimal(n, w)
           f == (w - k) + 1
           First(i) == (i = w \/ d[i] # "0") /\ \A j \in 1..i - 1 : d[j] = "0"
           c == CHOOSE i \in 1..w : First(i)
           s == SubSeq(d, f, w)
           t == Decimal(n, k)
<1>1. w \in Nat \ {0} /\ k \in 1..w /\ f \in 1..w /\ w \in 0..w /\ k \in 0..w
  BY MessageAssumption, NumberOfDigitsProperties
<1>2. /\ \A e \in k..w : Digit[((n \div Power[e]) % 10) + 1] = "0"
      /\ k = 1 \/ Digit[((n \div Power[k - 1]) % 10) + 1] # "0"
  BY LeadingDigits
<1> HIDE DEF k
<1>3. d \in Text /\ Len(d) = w /\ \A i \in 1..w : d[i] = Digit[((n \div Power[w - i]) % 10) + 1]
  BY <1>1, DecimalProperties
<1>4. t \in Text /\ Len(t) = k /\ \A i \in 1..k : t[i] = Digit[((n \div Power[k - i]) % 10) + 1]
  BY <1>1, DecimalProperties
<1> HIDE DEF d, t, w
<1>5. \A j \in 1..f - 1 : d[j] = "0"
  <2>1. \A j \in 1..f - 1 : j \in 1..w /\ w - j \in k..w
    BY <1>1
  <2> QED BY <1>2, <1>3, <2>1
<1>6. f = w \/ d[f] # "0"
  <2>1. CASE k = 1 BY <1>1, <2>1
  <2>2. CASE k # 1
    <3>1. w - f = k - 1 BY <1>1
    <3> QED BY <1>1, <1>2, <1>3, <2>2, <3>1
  <2> QED BY <2>1, <2>2
<1>7. c = f
  <2>1. First(f)
    BY <1>5, <1>6
  <2>2. c \in 1..w /\ First(c)
    <3> HIDE DEF First, f
    <3> QED BY <1>1, <2>1
  <2> HIDE DEF c
  <2>3. ~(c < f)
    <3>1. SUFFICES ASSUME c < f PROVE FALSE
      OBVIOUS
    <3>2. c \in 1..f - 1 /\ c # w BY <1>1, <2>2, <3>1
    <3>3. d[c] = "0" /\ d[c] # "0" BY <1>5, <2>2, <3>2
    <3> QED BY <3>3
  <2>4. ~(f < c)
    <3>1. SUFFICES ASSUME f < c PROVE FALSE
      OBVIOUS
    <3>2. f \in 1..c - 1 /\ f # w BY <1>1, <2>2, <3>1
    <3>3. d[f] = "0" /\ d[f] # "0" BY <1>6, <2>2, <3>2
    <3> QED BY <3>3
  <2> QED BY <1>1, <2>2, <2>3, <2>4
<1>8. Number(n) = s
  BY <1>7 DEF Number, d, w
<1>9. s = t
  <2>1. d \in Seq(Character \ {NUL}) /\ f \in Nat \ {0} /\ w \in Nat /\ f <= w + 1 /\ w <= Len(d)
        /\ (w - f) + 1 = k
    BY <1>1, <1>3 DEF Text
  <2>2. /\ s \in Seq(Character \ {NUL}) /\ Len(s) = (w - f) + 1
        /\ \A i \in 1..(w - f) + 1 : s[i] = d[i + f - 1]
    <3>1. d \in Seq(Character \ {NUL}) BY <2>1
    <3>2. f \in Nat \ {0} BY <2>1
    <3>3. w \in Nat BY <2>1
    <3>4. f <= w + 1 BY <2>1
    <3>5. w <= Len(d) BY <2>1
    <3> HIDE DEF f
    <3> QED BY ONLY <3>1, <3>2, <3>3, <3>4, <3>5, Piece
  <2>3. \A i \in 1..k : i + f - 1 \in 1..w /\ w - (i + f - 1) = k - i
    BY <1>1
  <2> HIDE DEF s, f
  <2>4. \A i \in 1..k : s[i] = t[i]
    BY <1>3, <1>4, <2>1, <2>2, <2>3
  <2>5. t \in Seq(Character \ {NUL})
    BY <1>4 DEF Text
  <2>6. Len(s) = Len(t) /\ \A i \in 1..Len(s) : s[i] = t[i]
    BY <1>4, <2>1, <2>2, <2>4
  <2> QED BY ONLY <2>2, <2>5, <2>6, SeqEqual
<1> QED BY <1>8, <1>9 DEF k, t

(* A number whose size a preamble can tell is written as text of at most   *)
(* that width, of which digits() counts the length, and is read back.      *)
LEMMA NumberProperties ==
  ASSUME NEW n \in Nat, n < Power[PreambleWidth]
  PROVE  /\ Number(n) \in Text /\ Len(Number(n)) \in 1..PreambleWidth
         /\ Len(Number(n)) = NumberOfDigits(n)
         /\ \A i \in 1..Len(Number(n)) : Number(n)[i] \notin Separators
         /\ Stoul(Number(n)) = n
<1> DEFINE w == NumberOfDigits(n)
<1>1. w \in 1..PreambleWidth /\ n < Power[w]
  BY NumberOfDigitsProperties
<1>2. w \in 0..PreambleWidth /\ PreambleWidth \in Nat
  BY <1>1, MessageAssumption
<1>3. Number(n) = Decimal(n, w)
  BY NumberIsDecimal
<1> HIDE DEF w
<1>4. Len(Number(n)) = w /\ Number(n) \in Text
      /\ \A i \in 1..w : Number(n)[i] \notin Separators
  BY <1>2, <1>3, DecimalProperties
<1>5. Stoul(Number(n)) = n
  BY <1>1, <1>3, StoulDecimal
<1> QED BY <1>1, <1>4, <1>5 DEF w

-----------------------------------------------------------------------------
(* Lines: a name and a value, joined and separated.                        *)

(* Where a line is separated: at the first separator, if a name is before  *)
(* it and a value after it and the character that follows.                 *)
LEMMA SeparateAt ==
  ASSUME NEW s \in Text, NEW pos \in 1..Len(s), s[pos] \in Separators,
         \A i \in 1..pos - 1 : s[i] \notin Separators
  PROVE  SeparateParamVal(s) = IF pos > 1 /\ pos + 1 < Len(s)
                               THEN <<SubSeq(s, 1, pos - 1), SubSeq(s, pos + 2, Len(s))>> ELSE <<>>
<1> DEFINE I == {i \in 1..Len(s) : s[i] \in Separators}
<1>1. pos \in I /\ \A i \in I : pos <= i
  BY DEF Text
<1>2. I # {} /\ Min(I) = pos
  <2> HIDE DEF I
  <2>1. I \subseteq Int BY DEF I
  <2>2. \A x \in I : (\A y \in I : x <= y) => x = pos BY <1>1, <2>1
  <2> QED BY <1>1, <2>2 DEF Min
<1>3. SelectInSeq(s, LAMBDA c : c \in Separators) = pos
  BY <1>2 DEF SelectInSeq
<1> QED BY <1>3 DEF SeparateParamVal

(* A line that holds no separator, or whose first separator has no name    *)
(* before it or no value behind it, throws.                                *)
LEMMA SeparateNone ==
  ASSUME NEW s \in Text, \A i \in 1..Len(s) : s[i] \notin Separators
  PROVE  SeparateParamVal(s) = <<>>
<1>1. SelectInSeq(s, LAMBDA c : c \in Separators) = 0
  BY DEF SelectInSeq
<1> QED BY <1>1 DEF SeparateParamVal

(* What concatenation returns.                                             *)
LEMMA Joined ==
  ASSUME NEW S, NEW a \in Seq(S), NEW b \in Seq(S)
  PROVE  /\ a \o b \in Seq(S) /\ Len(a) \in Nat /\ Len(b) \in Nat
         /\ Len(a \o b) = Len(a) + Len(b)
         /\ \A i \in 1..Len(a) : (a \o b)[i] = a[i]
         /\ \A i \in 1..Len(b) : (a \o b)[Len(a) + i] = b[i]
<1>1. Len(a) \in Nat /\ Len(b) \in Nat /\ a \o b \in Seq(S) /\ Len(a \o b) = Len(a) + Len(b)
  OBVIOUS
<1>2. \A i \in 1..Len(a) + Len(b) : (a \o b)[i] = IF i <= Len(a) THEN a[i] ELSE b[i - Len(a)]
  OBVIOUS
<1>3. ASSUME NEW i \in 1..Len(a) PROVE (a \o b)[i] = a[i]
  BY <1>1, <1>2
<1>4. ASSUME NEW i \in 1..Len(b) PROVE (a \o b)[Len(a) + i] = b[i]
  <2>1. Len(a) + i \in 1..Len(a) + Len(b) /\ ~(Len(a) + i <= Len(a)) /\ Len(a) + i - Len(a) = i
    BY <1>1
  <2> QED BY <2>1, <1>2
<1> QED BY <1>1, <1>3, <1>4

(* Text is what its characters are.                                        *)
LEMMA Characters ==
  /\ NUL \in Character /\ NUL \notin Separators
  /\ <<":", "blank">> \in Text /\ Len(<<":", "blank">>) = 2
  /\ \A c \in Keywords : c \in Character \ {NUL} /\ c \notin Separators
  /\ \A c \in Keywords : <<c>> \in Text /\ Len(<<c>>) = 1 /\ <<c>>[1] = c
<1>1. NUL \notin Separators /\ NUL \notin Keywords /\ \A c \in Keywords : c \notin Separators
  BY DEF NUL, Separators, Keywords
<1>2. NUL \in Character /\ Separators \subseteq Character /\ Keywords \subseteq Character
  BY MessageAssumption
<1>3. ":" \in Separators /\ "blank" \in Separators
  BY DEF Separators
<1>4. ":" \in Character \ {NUL} /\ "blank" \in Character \ {NUL}
  BY <1>1, <1>2, <1>3
<1>5. \A C : \A c, d \in C : <<c, d>> \in Seq(C) /\ Len(<<c, d>>) = 2
  OBVIOUS
<1>6. \A C : \A c \in C : <<c>> \in Seq(C) /\ Len(<<c>>) = 1 /\ <<c>>[1] = c
  OBVIOUS
<1>7. <<":", "blank">> \in Text /\ Len(<<":", "blank">>) = 2
  BY <1>4, <1>5 DEF Text
<1>8. \A c \in Keywords : <<c>> \in Text /\ Len(<<c>>) = 1 /\ <<c>>[1] = c
  BY <1>1, <1>2, <1>6 DEF Text
<1> QED BY <1>1, <1>2, <1>7, <1>8

(* A parameter line is text, as long as LineSize says without its NUL, and *)
(* holds the name, a separator and the value.                              *)
LEMMA ParamLineProperties ==
  ASSUME NEW name \in Text, NEW value \in Text
  PROVE  /\ ParamLine(name, value) \in Text
         /\ Len(ParamLine(name, value)) = Len(name) + 2 + Len(value)
         /\ Len(ParamLine(name, value)) + 1 = LineSize(name, value)
         /\ \A i \in 1..Len(name) : ParamLine(name, value)[i] = name[i]
         /\ ParamLine(name, value)[Len(name) + 1] = ":"
         /\ \A i \in 1..Len(value) : ParamLine(name, value)[Len(name) + 2 + i] = value[i]
<1> DEFINE sep == <<":", "blank">>
           C == Character \ {NUL}
<1>1. name \in Seq(C) /\ value \in Seq(C) /\ sep \in Seq(C)
  BY Characters DEF Text
<1>2. sep \in Seq(C) /\ Len(sep) = 2 /\ sep[1] = ":"
  BY Characters DEF Text
<1>3. name \in Seq(C) /\ value \in Seq(C) /\ ParamLine(name, value) = (name \o sep) \o value
  BY DEF Text, ParamLine
<1>4. Len(name) \in Nat /\ Len(value) \in Nat
  BY <1>3
<1> HIDE DEF sep, C
<1> DEFINE t == name \o sep
<1>5. /\ t \in Seq(C) /\ Len(t) = Len(name) + 2
      /\ \A i \in 1..Len(name) : t[i] = name[i]
      /\ \A i \in 1..2 : t[Len(name) + i] = sep[i]
  <2>1. /\ t \in Seq(C) /\ Len(t) = Len(name) + Len(sep)
        /\ \A i \in 1..Len(name) : t[i] = name[i]
        /\ \A i \in 1..Len(sep) : t[Len(name) + i] = sep[i]
    BY ONLY <1>1, Joined
  <2> HIDE DEF t
  <2> QED BY <1>2, <2>1
<1> HIDE DEF t
<1> DEFINE l == t \o value
<1>6. /\ l \in Seq(C) /\ Len(l) = Len(t) + Len(value)
      /\ \A i \in 1..Len(t) : l[i] = t[i]
      /\ \A i \in 1..Len(value) : l[Len(t) + i] = value[i]
  <2>1. t \in Seq(C) BY ONLY <1>5
  <2> QED BY ONLY <1>1, <2>1, Joined
<1>7. ParamLine(name, value) = l
  BY <1>3 DEF t
<1> HIDE DEF l
<1>8. l \in Seq(C) /\ Len(l) = Len(name) + 2 + Len(value)
  BY <1>5, <1>6
<1>9. \A i \in 1..Len(name) : l[i] = name[i]
  BY <1>4, <1>5, <1>6
<1>10. l[Len(name) + 1] = ":"
  <2>1. Len(name) + 1 \in 1..Len(t) BY <1>4, <1>5
  <2> QED BY <2>1, <1>2, <1>5, <1>6
<1>11. \A i \in 1..Len(value) : l[Len(name) + 2 + i] = value[i]
  BY <1>5, <1>6
<1> QED BY <1>7, <1>8, <1>9, <1>10, <1>11 DEF LineSize, C, Text

(* A separated line has a name and a value, and is as long as they are.    *)
LEMMA SeparateProperties ==
  ASSUME NEW s \in Text, SeparateParamVal(s) # <<>>
  PROVE  \E a, b \in Text : SeparateParamVal(s) = <<a, b>> /\ Len(a) + 2 + Len(b) = Len(s)
<1> DEFINE I == {i \in 1..Len(s) : s[i] \in Separators}
<1>1. Len(s) \in Nat BY DEF Text
<1>2. I # {}
  BY SeparateNone
<1>3. PICK pos \in I : \A i \in I : pos <= i
  <2>1. I \subseteq Nat OBVIOUS
  <2> HIDE DEF I
  <2> QED BY <1>2, <2>1, NatMin
<1>4. \A i \in 1..pos - 1 : s[i] \notin Separators
  BY <1>1, <1>3
<1>5. pos > 1 /\ pos + 1 < Len(s)
      /\ SeparateParamVal(s) = <<SubSeq(s, 1, pos - 1), SubSeq(s, pos + 2, Len(s))>>
  BY <1>3, <1>4, SeparateAt
<1>6. pos \in Nat BY <1>1
<1> HIDE DEF I
<1>7. SubSeq(s, 1, pos - 1) \in Text /\ Len(SubSeq(s, 1, pos - 1)) = pos - 1
  BY <1>1, <1>5, <1>6, Piece, pos - 1 - 1 + 1 = pos - 1 DEF Text
<1>8. SubSeq(s, pos + 2, Len(s)) \in Text /\ Len(SubSeq(s, pos + 2, Len(s))) = Len(s) - (pos + 2) + 1
  <2>1. pos + 2 \in Nat \ {0} /\ pos + 2 <= Len(s) + 1 BY <1>1, <1>5, <1>6
  <2> QED BY <1>1, <2>1, Piece DEF Text
<1>9. pos - 1 + 2 + (Len(s) - (pos + 2) + 1) = Len(s)
  BY <1>1, <1>6
<1> QED BY <1>5, <1>7, <1>8, <1>9

(* A plain parameter is separated as it was joined.                        *)
LEMMA SeparateParamLine ==
  ASSUME NEW name \in Text, NEW value \in Text, name # <<>>, value # <<>>,
         \A i \in 1..Len(name) : name[i] \notin Separators
  PROVE  SeparateParamVal(ParamLine(name, value)) = <<name, value>>
<1> DEFINE l == ParamLine(name, value)
           pos == Len(name) + 1
<1>1. Len(name) \in Nat \ {0} /\ Len(value) \in Nat \ {0}
  BY EmptySeq DEF Text
<1>2. l \in Text /\ Len(l) = Len(name) + 2 + Len(value)
      /\ (\A i \in 1..Len(name) : l[i] = name[i]) /\ l[pos] = ":"
      /\ \A i \in 1..Len(value) : l[Len(name) + 2 + i] = value[i]
  BY ParamLineProperties
<1> HIDE DEF l
<1>3. ":" \in Separators
  BY DEF Separators
<1>4. pos \in 1..Len(l) /\ pos > 1 /\ pos + 1 < Len(l) /\ \A i \in 1..pos - 1 : l[i] \notin Separators
  BY <1>1, <1>2
<1>5. SeparateParamVal(l) = <<SubSeq(l, 1, pos - 1), SubSeq(l, pos + 2, Len(l))>>
  BY <1>2, <1>3, <1>4, SeparateAt
<1>6. SubSeq(l, 1, Len(name)) = name
  <2> DEFINE p == SubSeq(l, 1, Len(name))
  <2>1. p \in Text /\ Len(p) = Len(name) /\ \A i \in 1..Len(name) : p[i] = l[i]
    <3>1. p \in Seq(Character \ {NUL}) /\ Len(p) = Len(name) - 1 + 1
          /\ \A i \in 1..Len(name) - 1 + 1 : p[i] = l[i + 1 - 1]
      BY <1>1, <1>2, Piece DEF Text
    <3> HIDE DEF p
    <3> QED BY <1>1, <3>1 DEF Text
  <2> HIDE DEF p
  <2>2. p = name
    BY <2>1, <1>2, SeqEqual DEF Text
  <2> QED BY <2>2 DEF p
<1>7. SubSeq(l, Len(name) + 3, Len(l)) = value
  <2> DEFINE p == SubSeq(l, Len(name) + 3, Len(l))
  <2>1. p \in Text /\ Len(p) = Len(value) /\ \A i \in 1..Len(value) : p[i] = l[Len(name) + 2 + i]
    <3>1. p \in Seq(Character \ {NUL}) /\ Len(p) = Len(l) - (Len(name) + 3) + 1
          /\ \A i \in 1..Len(l) - (Len(name) + 3) + 1 : p[i] = l[i + (Len(name) + 3) - 1]
      BY <1>1, <1>2, Piece DEF Text
    <3> HIDE DEF p
    <3>2. Len(l) - (Len(name) + 3) + 1 = Len(value) BY <1>1, <1>2
    <3>3. \A i \in 1..Len(value) : i + (Len(name) + 3) - 1 = Len(name) + 2 + i BY <1>1
    <3> QED BY <3>1, <3>2, <3>3 DEF Text
  <2> HIDE DEF p
  <2>2. p = value
    BY <2>1, <1>2, SeqEqual DEF Text
  <2> QED BY <2>2 DEF p
<1>8. pos - 1 = Len(name) /\ pos + 2 = Len(name) + 3
  BY <1>1
<1> HIDE DEF pos
<1> QED BY <1>5, <1>6, <1>7, <1>8 DEF l

-----------------------------------------------------------------------------
(* Lines one after another, and where each of them is.                     *)

(* FlattenSeq joins its sequences one after another.                       *)
LEMMA FlattenDef ==
  ASSUME NEW S, NEW seqs \in Seq(Seq(S)), Len(seqs) >= 1
  PROVE  \E f \in [1..Len(seqs) -> Seq(S)] :
           /\ f[1] = seqs[1] /\ \A k \in 2..Len(seqs) : f[k] = f[k-1] \o seqs[k]
           /\ FlattenSeq(seqs) = f[Len(seqs)]
<1> DEFINE n == Len(seqs)
           X == Seq(S)
           none == <<>>
           step == [a \in X \X (1..n) |-> a[1] \o seqs[a[2]]]
           F(f) == f = [i \in 1..n |-> IF i = 1 THEN seqs[i] ELSE f[i-1] \o seqs[i]]
           flatten == CHOOSE f : F(f)
<1>1. n \in Nat \ {0} /\ \A k \in 1..n : seqs[k] \in X
  OBVIOUS
<1>2. none \in X /\ \A x \in X : none \o x = x
  OBVIOUS
<1>3. step \in [X \X (1..n) -> X]
  <2>1. \A a \in X \X (1..n) : a[1] \o seqs[a[2]] \in X
    BY <1>1
  <2> QED BY <2>1
<1>4. PICK g : Recurs(g, X, none, n, step)
  <2>1. n \in Nat /\ none \in X BY <1>1, <1>2
  <2> HIDE DEF n, X, none, step
  <2> QED BY ONLY <2>1, <1>3, Recursion
<1>5. /\ g[0] = none /\ \A k \in 0..n : g[k] \in X
      /\ \A k \in 1..n : g[k] = step[<<g[k-1], k>>]
  <2> HIDE DEF n, X, none, step
  <2> QED BY <1>4 DEF Recurs
<1>6. ASSUME NEW k \in 1..n PROVE g[k] = g[k-1] \o seqs[k] /\ g[k] \in X
  <2>1. k \in 0..n /\ k-1 \in 0..n BY <1>1
  <2>2. g[k-1] \in X /\ g[k] \in X
    <3> HIDE DEF X
    <3> QED BY <1>5, <2>1
  <2>3. g[k] = step[<<g[k-1], k>>]
    <3> HIDE DEF step
    <3> QED BY <1>5
  <2>4. \A x \in X : step[<<x, k>>] = x \o seqs[k] OBVIOUS
  <2> HIDE DEF step, X
  <2> QED BY <2>2, <2>3, <2>4
<1>7. g[1] = seqs[1]
  <2>1. 1 \in 1..n /\ g[1-1] = none BY <1>1, <1>5
  <2>2. g[1] = none \o seqs[1] /\ seqs[1] \in X BY <1>1, <1>6, <2>1
  <2> HIDE DEF n, none, X
  <2> QED BY ONLY <1>2, <2>2
<1>8. \E f : F(f)
  <2> DEFINE h == [k \in 1..n |-> g[k]]
             h2 == [i \in 1..n |-> IF i = 1 THEN seqs[i] ELSE h[i-1] \o seqs[i]]
  <2>1. ASSUME NEW k \in 1..n PROVE h[k] = h2[k]
    <3>1. CASE k = 1 BY <3>1, <1>7
    <3>2. CASE k # 1
      <4>1. k-1 \in 1..n BY <3>2, <1>1
      <4>2. h[k-1] = g[k-1] /\ h[k] = g[k] BY <4>1
      <4>3. h2[k] = h[k-1] \o seqs[k] BY <3>2
      <4> HIDE DEF h, h2
      <4> QED BY <4>2, <4>3, <1>6
    <3> QED BY <3>1, <3>2
  <2>2. h = h2 BY <2>1
  <2>3. F(h) BY <2>2
  <2> QED BY <2>3
<1>9. F(flatten)
  <2> HIDE DEF F
  <2> QED BY <1>8
<1>10. FlattenSeq(seqs) = flatten[n]
  BY <1>1 DEF FlattenSeq
<1>11. flatten[1] = seqs[1] /\ \A k \in 2..n : flatten[k] = flatten[k-1] \o seqs[k]
  <2> HIDE DEF flatten
  <2>1. \A k \in 1..n : flatten[k] = IF k = 1 THEN seqs[k] ELSE flatten[k-1] \o seqs[k]
    BY <1>9
  <2>2. \A k \in 2..n : k \in 1..n /\ k # 1 BY <1>1
  <2>3. 1 \in 1..n BY <1>1
  <2> HIDE DEF n
  <2> QED BY ONLY <2>1, <2>2, <2>3
<1> DEFINE T == {k \in 0..n : k = 0 \/ flatten[k] \in X}
<1>12. ASSUME NEW k \in 1..n, k-1 \in T PROVE k \in T
  <2> HIDE DEF flatten
  <2>1. CASE k = 1 BY <2>1, <1>11, <1>1
  <2>2. CASE k # 1
    <3>1. k \in 2..n /\ k-1 # 0 /\ k \in 0..n BY <2>2, <1>1
    <3>2. flatten[k-1] \in X /\ seqs[k] \in X BY <3>1, <1>12, <1>1
    <3>3. flatten[k] = flatten[k-1] \o seqs[k] BY <3>1, <1>11
    <3>4. flatten[k-1] \o seqs[k] \in X
      <4> DEFINE a == flatten[k-1]
                 b == seqs[k]
      <4> HIDE DEF a, b
      <4> QED BY <3>2 DEF a, b
    <3> HIDE DEF X
    <3> QED BY <3>1, <3>3, <3>4
  <2> QED BY <2>1, <2>2
<1>13. \A k \in 0..n : k \in T
  <2>1. 0 \in T BY <1>1
  <2> HIDE DEF T, n
  <2> QED BY <1>1, <1>12, <2>1, Induction
<1>14. flatten \in [1..n -> X]
  <2> HIDE DEF flatten
  <2>1. \A k \in 1..n : flatten[k] \in X BY <1>13
  <2> HIDE DEF X
  <2> QED BY <1>9, <2>1
<1> HIDE DEF flatten
<1> QED BY <1>10, <1>11, <1>14

(* at[k] is where the k-th line ends when each is followed by a NUL.       *)
Offsets(lines, at) == /\ at \in [0..Len(lines) -> Nat] /\ at[0] = 0
                      /\ \A k \in 1..Len(lines) : at[k] = at[k-1] + Len(lines[k]) + 1

(* From from on, s holds the lines, each followed by a NUL.                *)
Holds(s, from, lines, at, n) ==
  \A k \in 1..n : /\ \A i \in 1..Len(lines[k]) : s[from + at[k-1] + i] = lines[k][i]
                  /\ s[from + at[k]] = NUL

(* The lines as they are written.                                          *)
Terminated(lines) == [i \in DOMAIN lines |-> Append(lines[i], NUL)]

(* Every sequence of lines has offsets.                                    *)
LEMMA OffsetsExist ==
  ASSUME NEW lines \in Seq(Text)
  PROVE  \E at : Offsets(lines, at)
<1> DEFINE n == Len(lines)
           base == 0
           step == [a \in Nat \X (1..n) |-> a[1] + Len(lines[a[2]]) + 1]
<1>1. n \in Nat /\ \A k \in 1..n : Len(lines[k]) \in Nat
  BY DEF Text
<1>2. step \in [Nat \X (1..n) -> Nat] /\ base \in Nat
  BY <1>1
<1>3. PICK g : Recurs(g, Nat, base, n, step)
  <2>1. n \in Nat /\ base \in Nat /\ step \in [Nat \X (1..n) -> Nat] BY <1>1, <1>2
  <2> HIDE DEF n, base, step
  <2> QED BY ONLY <2>1, Recursion
<1>4. ASSUME NEW k \in 1..n PROVE g[k] = g[k-1] + Len(lines[k]) + 1
  <2>1. g[k-1] \in Nat BY <1>1, <1>3 DEF Recurs
  <2> QED BY <1>3, <2>1 DEF Recurs
<1>5. Offsets(lines, g)
  BY <1>3, <1>4 DEF Offsets, Recurs
<1> QED BY <1>5

(* A later line ends later, by at least one character for each between.    *)
LEMMA OffsetsGrow ==
  ASSUME NEW lines \in Seq(Text), NEW at, Offsets(lines, at)
  PROVE  \A k \in 0..Len(lines) : \A j \in 0..k : at[j] + (k - j) <= at[k]
<1> DEFINE n == Len(lines)
           T == {k \in 0..n : \A j \in 0..k : at[j] + (k - j) <= at[k]}
<1>1. n \in Nat /\ \A k \in 1..n : Len(lines[k]) \in Nat
  BY DEF Text
<1>2. at \in [0..n -> Nat] /\ \A k \in 1..n : at[k] = at[k-1] + Len(lines[k]) + 1
  BY DEF Offsets
<1>3. 0 \in T
  BY <1>1, <1>2
<1>4. ASSUME NEW k \in 1..n, k-1 \in T PROVE k \in T
  <2>1. k \in 0..n /\ k-1 \in 0..n /\ Len(lines[k]) \in Nat BY <1>1
  <2>2. at[k] = at[k-1] + Len(lines[k]) + 1 /\ at[k] \in Nat /\ at[k-1] \in Nat BY <1>2, <2>1
  <2>3. ASSUME NEW j \in 0..k PROVE at[j] + (k - j) <= at[k]
    <3>1. CASE j = k BY <3>1, <2>2
    <3>2. CASE j # k
      <4>1. j \in 0..k-1 /\ at[j] \in Nat BY <3>2, <2>1, <1>2
      <4>2. at[j] + (k - 1 - j) <= at[k-1] BY <4>1, <1>4
      <4> DEFINE a == at[j]
                 b == at[k-1]
                 c == at[k]
                 l == Len(lines[k])
      <4>3. a \in Nat /\ b \in Nat /\ c \in Nat /\ l \in Nat /\ c = b + l + 1 /\ a + (k - 1 - j) <= b
        BY <4>1, <4>2, <2>1, <2>2
      <4> HIDE DEF a, b, c, l
      <4>4. a + (k - j) <= c BY ONLY <4>3, k \in Nat, j \in Nat
      <4> QED BY <4>4 DEF a, c
    <3> QED BY <3>1, <3>2
  <2> QED BY <2>1, <2>3
<1>5. \A k \in 0..n : k \in T
  <2> HIDE DEF T, n
  <2> QED BY <1>1, <1>3, <1>4, Induction
<1> QED BY <1>5

(* A line that ends in the first r places is there with all of its         *)
(* characters.                                                             *)
LEMMA Within ==
  ASSUME NEW p \in Nat, NEW l \in Nat, NEW q, q = p + l + 1, NEW r \in Nat, q <= r
  PROVE  q \in 1..r /\ \A i \in 1..l : p + i \in 1..r
OBVIOUS

(* Every line and the NUL behind it are in the first at[n] places.         *)
LEMMA Places ==
  ASSUME NEW lines \in Seq(Text), NEW at, Offsets(lines, at), NEW n \in 0..Len(lines), NEW k \in 1..n
  PROVE  /\ Len(lines[k]) \in Nat /\ at[k] \in Nat /\ at[k-1] \in Nat /\ at[n] \in Nat
         /\ at[k] = at[k-1] + Len(lines[k]) + 1 /\ at[k] <= at[n]
         /\ at[k] \in 1..at[n] /\ \A i \in 1..Len(lines[k]) : at[k-1] + i \in 1..at[n]
<1>1. Len(lines) \in Nat /\ k \in 1..Len(lines) /\ k \in 0..Len(lines) /\ k-1 \in 0..Len(lines)
  OBVIOUS
<1>2. Len(lines[k]) \in Nat
  BY <1>1 DEF Text
<1>3. at[k] \in Nat /\ at[k-1] \in Nat /\ at[n] \in Nat /\ at[k] = at[k-1] + Len(lines[k]) + 1
  BY <1>1 DEF Offsets
<1>4. at[k] + (n - k) <= at[n]
  BY OffsetsGrow
<1>5. at[k] <= at[n]
  BY <1>3, <1>4
<1> QED BY <1>2, <1>3, <1>5, Within

(* Lines stay where they are when something is written behind them.        *)
LEMMA HoldsAppended ==
  ASSUME NEW lines \in Seq(Text), NEW at, Offsets(lines, at), NEW n \in 0..Len(lines),
         NEW s \in Seq(Character), NEW t \in Seq(Character),
         Holds(s, 0, lines, at, n), at[n] <= Len(s)
  PROVE  Holds(s \o t, 0, lines, at, n)
<1> DEFINE u == s \o t
<1>1. Len(s) \in Nat /\ \A i \in 1..Len(s) : u[i] = s[i]
  BY Joined
<1> HIDE DEF u
<1>2. ASSUME NEW k \in 1..n
      PROVE  /\ \A i \in 1..Len(lines[k]) : u[0 + at[k-1] + i] = lines[k][i]
             /\ u[0 + at[k]] = NUL
  <2>1. at[n] \in Nat /\ at[k-1] \in Nat /\ at[k] \in 1..at[n]
        /\ \A i \in 1..Len(lines[k]) : at[k-1] + i \in 1..at[n]
    BY Places
  <2>2. \A i \in 1..at[n] : i \in 1..Len(s)
    BY ONLY <1>1, <2>1, at[n] <= Len(s)
  <2>3. 0 + at[k-1] = at[k-1] /\ 0 + at[k] = at[k]
    BY ONLY <2>1
  <2>4. (\A i \in 1..Len(lines[k]) : s[0 + at[k-1] + i] = lines[k][i]) /\ s[0 + at[k]] = NUL
    BY DEF Holds
  <2> QED BY ONLY <1>1, <2>1, <2>2, <2>3, <2>4
<1> QED BY <1>2 DEF Holds, u

(* Lines move along when something is written before them.                 *)
LEMMA HoldsShifted ==
  ASSUME NEW lines \in Seq(Text), NEW at, Offsets(lines, at), NEW n \in 0..Len(lines),
         NEW a \in Seq(Character), NEW s \in Seq(Character),
         Holds(s, 0, lines, at, n), at[n] <= Len(s)
  PROVE  Holds(a \o s, Len(a), lines, at, n)
<1> DEFINE u == a \o s
           w == Len(a)
<1>1. Len(s) \in Nat /\ w \in Nat /\ \A i \in 1..Len(s) : u[w + i] = s[i]
  BY Joined
<1> HIDE DEF u, w
<1>2. ASSUME NEW k \in 1..n
      PROVE  /\ \A i \in 1..Len(lines[k]) : u[w + at[k-1] + i] = lines[k][i]
             /\ u[w + at[k]] = NUL
  <2>1. at[n] \in Nat /\ at[k-1] \in Nat /\ at[k] \in 1..at[n]
        /\ \A i \in 1..Len(lines[k]) : at[k-1] + i \in 1..at[n]
    BY Places
  <2>2. \A i \in 1..at[n] : i \in 1..Len(s)
    BY ONLY <1>1, <2>1, at[n] <= Len(s)
  <2>3. 0 + at[k-1] = at[k-1] /\ 0 + at[k] = at[k]
    BY ONLY <2>1
  <2>4. (\A i \in 1..Len(lines[k]) : s[0 + at[k-1] + i] = lines[k][i]) /\ s[0 + at[k]] = NUL
    BY DEF Holds
  <2> DEFINE p == at[k-1]
  <2>5. ASSUME NEW i \in 1..Len(lines[k]) PROVE u[w + p + i] = lines[k][i]
    <3>1. p + i \in 1..Len(s) BY ONLY <2>1, <2>2, i \in 1..Len(lines[k])
    <3>2. s[p + i] = lines[k][i] BY ONLY <2>3, <2>4, i \in 1..Len(lines[k])
    <3>3. u[w + (p + i)] = s[p + i] BY ONLY <1>1, <3>1
    <3>4. p \in Nat BY ONLY <2>1
    <3> HIDE DEF p
    <3>5. w + (p + i) = w + p + i BY ONLY <3>4, <1>1, i \in 1..Len(lines[k])
    <3> QED BY ONLY <3>2, <3>3, <3>5
  <2>6. u[w + at[k]] = NUL
    BY ONLY <1>1, <2>1, <2>2, <2>3, <2>4
  <2> QED BY ONLY <2>5, <2>6
<1> QED BY <1>2 DEF Holds, u, w

(* A written line is its text and a NUL.                                   *)
LEMMA TerminatedProperties ==
  ASSUME NEW lines \in Seq(Text)
  PROVE  /\ Terminated(lines) \in Seq(Seq(Character)) /\ Len(Terminated(lines)) = Len(lines)
         /\ \A k \in 1..Len(lines) :
              /\ Len(lines[k]) \in Nat /\ Len(Terminated(lines)[k]) = Len(lines[k]) + 1
              /\ \A i \in 1..Len(lines[k]) : Terminated(lines)[k][i] = lines[k][i]
              /\ Terminated(lines)[k][Len(lines[k]) + 1] = NUL
<1> DEFINE n == Len(lines)
           t == Terminated(lines)
<1>1. n \in Nat /\ DOMAIN lines = 1..n
  OBVIOUS
<1>2. ASSUME NEW k \in 1..n
      PROVE  /\ t[k] \in Seq(Character) /\ Len(lines[k]) \in Nat /\ Len(t[k]) = Len(lines[k]) + 1
             /\ \A i \in 1..Len(lines[k]) : t[k][i] = lines[k][i]
             /\ t[k][Len(lines[k]) + 1] = NUL
  <2>1. lines[k] \in Seq(Character) /\ NUL \in Character
    <3>1. lines[k] \in Seq(Character \ {NUL}) BY DEF Text
    <3>2. Character \ {NUL} \subseteq Character OBVIOUS
    <3> QED BY <3>1, <3>2, SeqMonotonic, Characters
  <2>2. t[k] = Append(lines[k], NUL) BY <1>1 DEF Terminated
  <2> DEFINE l == lines[k]
  <2> HIDE DEF l
  <2>3. /\ Append(l, NUL) \in Seq(Character) /\ Len(Append(l, NUL)) = Len(l) + 1 /\ Len(l) \in Nat
        /\ \A i \in 1..Len(l) : Append(l, NUL)[i] = l[i]
        /\ Append(l, NUL)[Len(l) + 1] = NUL
    <3>1. l \in Seq(Character) BY <2>1 DEF l
    <3> QED BY ONLY <3>1, <2>1, AppendProperties, LenProperties
  <2> HIDE DEF t
  <2> QED BY ONLY <2>2, <2>3 DEF l
<1>3. t \in [1..n -> Seq(Character)]
  BY <1>1, <1>2 DEF Terminated
<1>4. t \in Seq(Seq(Character)) /\ Len(t) = n
  <2> HIDE DEF t, n
  <2> QED BY ONLY <1>1, <1>3
<1> HIDE DEF t
<1> QED BY <1>2, <1>4 DEF t

(* The lines one after another are where their offsets say.                *)
LEMMA FlattenHolds ==
  ASSUME NEW lines \in Seq(Text), Len(lines) >= 1, NEW at, Offsets(lines, at)
  PROVE  /\ FlattenSeq(Terminated(lines)) \in Seq(Character)
         /\ Len(FlattenSeq(Terminated(lines))) = at[Len(lines)]
         /\ Holds(FlattenSeq(Terminated(lines)), 0, lines, at, Len(lines))
<1> DEFINE n == Len(lines)
           t == Terminated(lines)
           Fits(s, k) == s \in Seq(Character) /\ Len(s) = at[k] /\ Holds(s, 0, lines, at, k)
<1>1. n \in Nat /\ n \in 1..n /\ n \in 0..n
  OBVIOUS
<1>2. t \in Seq(Seq(Character)) /\ Len(t) = n
  BY TerminatedProperties
<1>3. PICK f \in [1..n -> Seq(Character)] :
        f[1] = t[1] /\ (\A k \in 2..n : f[k] = f[k-1] \o t[k]) /\ FlattenSeq(t) = f[n]
  <2>1. Len(t) >= 1 BY <1>2
  <2> HIDE DEF t, n
  <2> QED BY <1>2, <2>1, FlattenDef
<1>4. ASSUME NEW k \in 1..n, NEW s, Fits(s, k-1) PROVE Fits(s \o t[k], k)
  <2>1. k-1 \in 0..n /\ k \in 0..n /\ k \in Nat BY <1>1
  <2> DEFINE b == t[k]
             u == s \o b
  <2>2. /\ b \in Seq(Character) /\ Len(lines[k]) \in Nat /\ Len(b) = Len(lines[k]) + 1
        /\ (\A i \in 1..Len(lines[k]) : b[i] = lines[k][i]) /\ b[Len(lines[k]) + 1] = NUL
    BY <1>2, TerminatedProperties
  <2>3. s \in Seq(Character) /\ Len(s) = at[k-1] /\ Holds(s, 0, lines, at, k-1)
    BY <1>4
  <2>4. at[k-1] \in Nat /\ at[k] = at[k-1] + Len(lines[k]) + 1
    BY <2>1, Places
  <2>5. at[k-1] <= Len(s) BY <2>3, <2>4
  <2> HIDE DEF b
  <2>6. Holds(u, 0, lines, at, k-1)
    BY ONLY <2>1, <2>2, <2>3, <2>5, lines \in Seq(Text), Offsets(lines, at), HoldsAppended
  <2>7. /\ u \in Seq(Character) /\ Len(u) = Len(s) + Len(b)
        /\ \A i \in 1..Len(b) : u[Len(s) + i] = b[i]
    <3>1. s \in Seq(Character) BY <2>3
    <3>2. b \in Seq(Character) BY <2>2
    <3> QED BY ONLY <3>1, <3>2, Joined
  <2> HIDE DEF u
  <2>8. Len(u) = at[k]
    <3> DEFINE p == at[k-1]
               q == at[k]
               l == Len(lines[k])
    <3>1. Len(u) = p + (l + 1) /\ q = p + l + 1 /\ p \in Nat /\ l \in Nat
      BY <2>2, <2>3, <2>4, <2>7
    <3> HIDE DEF p, q, l
    <3> QED BY <3>1 DEF q
  <2>9. /\ \A i \in 1..Len(lines[k]) : u[0 + at[k-1] + i] = lines[k][i]
        /\ u[0 + at[k]] = NUL
    <3> DEFINE p == at[k-1]
               q == at[k]
               l == lines[k]
    <3>1. /\ p \in Nat /\ q = p + Len(l) + 1 /\ Len(l) \in Nat /\ Len(b) = Len(l) + 1
          /\ \A i \in 1..Len(b) : u[p + i] = b[i]
          /\ (\A i \in 1..Len(l) : b[i] = l[i]) /\ b[Len(l) + 1] = NUL
      BY ONLY <2>2, <2>3, <2>4, <2>7
    <3> HIDE DEF p, q, l
    <3>2. 0 + p = p /\ 0 + q = p + (Len(l) + 1) /\ Len(l) + 1 \in 1..Len(b)
          /\ \A i \in 1..Len(l) : i \in 1..Len(b)
      BY ONLY <3>1
    <3>3. (\A i \in 1..Len(l) : u[0 + p + i] = l[i]) /\ u[0 + q] = NUL
      BY ONLY <3>1, <3>2
    <3> QED BY <3>3 DEF p, q, l
  <2>10. Holds(u, 0, lines, at, k)
    <3> SUFFICES ASSUME NEW j \in 1..k
                 PROVE  /\ \A i \in 1..Len(lines[j]) : u[0 + at[j-1] + i] = lines[j][i]
                        /\ u[0 + at[j]] = NUL
      BY DEF Holds
    <3>1. CASE j = k BY <3>1, <2>9
    <3>2. CASE j # k
      <4>1. j \in 1..k-1 BY <3>2, <2>1
      <4> QED BY ONLY <4>1, <2>6 DEF Holds
    <3> QED BY <3>1, <3>2
  <2> QED BY <2>7, <2>8, <2>10 DEF u, b
<1>5. Fits(f[1], 1)
  <2> DEFINE none == <<>>
  <2>1. none \in Seq(Character) /\ Len(none) = 0 /\ at[0] = 0 BY DEF Offsets
  <2>2. Holds(none, 0, lines, at, 0) BY DEF Holds
  <2>3. Fits(none, 1-1) BY <2>1, <2>2
  <2>4. none \o t[1] = t[1]
    <3>1. t[1] \in Seq(Character) BY <1>2
    <3> QED BY <3>1
  <2>5. 1 \in 1..n BY <1>1
  <2> HIDE DEF Fits, none, t, n
  <2> QED BY ONLY <2>3, <2>4, <2>5, <1>3, <1>4
<1> DEFINE T == {k \in 0..n : k = 0 \/ Fits(f[k], k)}
<1>6. ASSUME NEW k \in 1..n, k-1 \in T PROVE k \in T
  <2>1. k \in 0..n BY <1>1
  <2> HIDE DEF Fits, t
  <2>2. CASE k = 1 BY <2>1, <2>2, <1>5
  <2>3. CASE k # 1
    <3>1. k \in 2..n /\ k-1 # 0 BY <2>3, <2>1
    <3>2. Fits(f[k-1], k-1) BY <3>1, <1>6
    <3>3. Fits(f[k-1] \o t[k], k) BY ONLY <3>2, <1>4, k \in 1..n
    <3>4. f[k] = f[k-1] \o t[k] BY <3>1, <1>3
    <3> QED BY ONLY <2>1, <3>3, <3>4
  <2> QED BY <2>2, <2>3
<1>7. \A k \in 0..n : k \in T
  <2>1. 0 \in T BY <1>1
  <2> HIDE DEF T, n
  <2> QED BY <1>1, <1>6, <2>1, Induction
<1>8. Fits(f[n], n)
  BY <1>1, <1>7
<1> QED BY <1>3, <1>8

-----------------------------------------------------------------------------
(* The k-th NUL of a message ends its k-th line.                           *)

(* A set that is numbered without repetition has as many elements.         *)
LEMMA Counted ==
  ASSUME NEW n \in Nat, NEW S, NEW f \in [1..n -> S],
         \A i, j \in 1..n : f[i] = f[j] => i = j, \A x \in S : \E i \in 1..n : f[i] = x
  PROVE  IsFiniteSet(S) /\ Cardinality(S) = n
<1>1. f \in Bijection(1..n, S)
  BY DEF Bijection, Injection, Surjection, IsInjective
<1>2. ExistsBijection(1..n, S)
  BY <1>1 DEF ExistsBijection
<1> QED BY <1>2, FS_CountingElements, FS_NatBijection

(* The ends up to a line's end are those of the lines up to it.            *)
LEMMA EndsUpTo ==
  ASSUME NEW lines \in Seq(Text), NEW at, Offsets(lines, at),
         NEW m \in Seq(Character), Holds(m, PreambleWidth, lines, at, Len(lines)),
         PreambleWidth + at[Len(lines)] <= Len(m), NEW n \in 0..Len(lines)
  PROVE  /\ \A i \in Ends(m) : i <= PreambleWidth + at[n] <=> \E k \in 1..n : i = PreambleWidth + at[k]
         /\ \A k \in 1..n : PreambleWidth + at[k] \in Ends(m)
<1> DEFINE w == PreambleWidth
<1>1. w \in Nat /\ Len(m) \in Nat /\ Len(lines) \in Nat /\ n \in Nat
  BY MessageAssumption
<1>2. ASSUME NEW k \in 1..n PROVE w + at[k] \in Ends(m)
  <2>1. k \in 1..Len(lines) /\ Len(lines) \in 0..Len(lines) BY <1>1
  <2>2. at[k] \in 1..at[Len(lines)] /\ at[Len(lines)] \in Nat BY <2>1, Places
  <2>3. m[w + at[k]] = NUL BY <2>1 DEF Holds
  <2>4. w + at[k] \in w + 1..Len(m) BY <1>1, <2>2
  <2> QED BY <2>3, <2>4 DEF Ends
<1>3. ASSUME NEW i \in Ends(m), i <= w + at[n]
      PROVE  \E k \in 1..n : i = w + at[k]
  <2> DEFINE x == i - w
             K == {k \in 1..n : x <= at[k]}
  <2>1. i \in Nat /\ w + 1 <= i /\ m[i] = NUL BY <1>1 DEF Ends
  <2>2. at[n] \in Nat /\ at[0] = 0 BY <1>1 DEF Offsets
  <2>3. x \in 1..at[n] /\ i = w + x BY <1>1, <1>3, <2>1, <2>2
  <2>4. n # 0 BY <2>2, <2>3
  <2>5. n \in K BY <1>1, <2>3, <2>4, <2>2
  <2>6. PICK k \in K : \A j \in K : k <= j
    <3>1. K \subseteq Nat /\ K # {} BY <2>5
    <3> HIDE DEF K
    <3> QED BY <3>1, NatMin
  <2>7. k \in 1..n /\ x <= at[k] BY <2>6
  <2>8. at[k-1] < x
    <3>1. CASE k = 1 BY <3>1, <2>2, <2>3
    <3>2. CASE k # 1
      <4>1. k-1 \in 1..n /\ ~(k <= k-1) BY <3>2, <2>7, <1>1
      <4>2. k-1 \notin K BY <2>6, <4>1
      <4>3. at[k-1] \in Nat BY <2>7, Places
      <4> QED BY <4>1, <4>2, <4>3, <2>3
    <3> QED BY <3>1, <3>2
  <2>9. at[k-1] \in Nat /\ at[k] \in Nat /\ Len(lines[k]) \in Nat /\ at[k] = at[k-1] + Len(lines[k]) + 1
    BY <2>7, Places
  <2>10. x = at[k]
    <3> SUFFICES ASSUME x # at[k] PROVE FALSE
      OBVIOUS
    <3> DEFINE j == x - at[k-1]
    <3>1. j \in 1..Len(lines[k]) /\ x = at[k-1] + j
      <4> DEFINE p == at[k-1]
                 q == at[k]
                 l == Len(lines[k])
      <4>1. p \in Nat /\ q \in Nat /\ l \in Nat /\ q = p + l + 1 /\ p < x /\ x <= q /\ x # q /\ x \in Nat
        BY <2>3, <2>7, <2>8, <2>9
      <4> HIDE DEF p, q, l, x
      <4>2. x - p \in 1..l /\ x = p + (x - p) BY ONLY <4>1
      <4> QED BY <4>2 DEF p, l
    <3> HIDE DEF j, x
    <3>2. k \in 1..Len(lines) BY <2>7, <1>1
    <3>3. m[w + at[k-1] + j] = lines[k][j] BY <3>1, <3>2 DEF Holds
    <3>4. w + at[k-1] + j = i
      <4> DEFINE p == at[k-1]
      <4>1. p \in Nat /\ x = p + j /\ i = w + x /\ j \in Nat BY <2>3, <2>9, <3>1
      <4> HIDE DEF p, w
      <4> QED BY <4>1, <1>1 DEF p
    <3>5. lines[k][j] \in Character \ {NUL}
      <4>1. lines[k] \in Seq(Character \ {NUL}) BY <3>2 DEF Text
      <4> QED BY <4>1, <3>1, ElementOfSeq
    <3> QED BY <2>1, <3>3, <3>4, <3>5
  <2> QED BY <2>7, <2>10, <2>3
<1>4. ASSUME NEW k \in 1..n PROVE w + at[k] <= w + at[n]
  BY Places, <1>1
<1> QED BY <1>2, <1>3, <1>4

(* m has lines, of which at tells the ends, behind its preamble.           *)
Headed(m, lines, at) ==
  /\ lines \in Seq(Text) /\ Offsets(lines, at) /\ m \in Seq(Character)
  /\ Holds(m, PreambleWidth, lines, at, Len(lines))
  /\ PreambleWidth + at[Len(lines)] <= Len(m)

(* A message has finitely many NULs.                                       *)
LEMMA EndsFinite ==
  ASSUME NEW m \in Seq(Character)
  PROVE  Ends(m) \subseteq Nat /\ IsFiniteSet(Ends(m))
<1>1. PreambleWidth \in Nat /\ Len(m) \in Nat
  BY MessageAssumption
<1>2. Ends(m) \subseteq 0..Len(m)
  BY <1>1 DEF Ends
<1>3. IsFiniteSet(0..Len(m))
  BY <1>1, FS_Interval
<1>4. IsFiniteSet(Ends(m))
  BY <1>2, <1>3, FS_Subset
<1> QED BY <1>1, <1>2, <1>4

(* Up to the end of line k there are k ends.                               *)
LEMMA EndCount ==
  ASSUME NEW m, NEW lines, NEW at, Headed(m, lines, at), NEW k \in 0..Len(lines)
  PROVE  Cardinality({i \in Ends(m) : i <= PreambleWidth + at[k]}) = k
<1> DEFINE w == PreambleWidth
           S == {i \in Ends(m) : i <= w + at[k]}
           f == [j \in 1..k |-> w + at[j]]
<1>1. w \in Nat /\ Len(lines) \in Nat /\ k \in Nat
  BY MessageAssumption DEF Headed
<1>2. /\ \A i \in Ends(m) : i <= w + at[k] <=> \E j \in 1..k : i = w + at[j]
      /\ \A j \in 1..k : w + at[j] \in Ends(m)
  BY EndsUpTo DEF Headed
<1>3. \A j \in 1..k : f[j] \in S
  <2> SUFFICES ASSUME NEW j \in 1..k PROVE w + at[j] \in S
    OBVIOUS
  <2>1. w + at[j] \in Ends(m) BY <1>2
  <2>2. w + at[j] <= w + at[k] BY <1>2, <2>1
  <2> QED BY <2>1, <2>2
<1>4. \A x \in S : \E j \in 1..k : f[j] = x
  BY <1>2
<1>5. \A i, j \in 1..k : f[i] = f[j] => i = j
  <2>1. ASSUME NEW i \in 1..k, NEW j \in 1..k, i < j PROVE f[i] # f[j]
    <3>1. j \in 0..Len(lines) /\ i \in 0..j /\ i \in 0..Len(lines) BY <1>1, <2>1
    <3>2. at[i] + (j - i) <= at[j] BY <3>1, OffsetsGrow DEF Headed
    <3>3. at[i] \in Nat /\ at[j] \in Nat BY <3>1 DEF Headed, Offsets
    <3>4. f[i] = w + at[i] /\ f[j] = w + at[j] OBVIOUS
    <3> DEFINE a == at[i]
               b == at[j]
    <3>5. a \in Nat /\ b \in Nat /\ a + (j - i) <= b /\ f[i] = w + a /\ f[j] = w + b
      BY <3>2, <3>3, <3>4
    <3> HIDE DEF a, b, f, w
    <3> QED BY <3>5, <2>1, <1>1
  <2> SUFFICES ASSUME NEW i \in 1..k, NEW j \in 1..k, f[i] = f[j] PROVE i = j
    OBVIOUS
  <2>2. ~(i < j) /\ ~(j < i) BY <2>1
  <2> HIDE DEF f
  <2> QED BY <2>2
<1>6. f \in [1..k -> S]
  BY <1>3
<1> HIDE DEF f, S
<1>7. Cardinality(S) = k
  BY <1>1, <1>4, <1>5, <1>6, Counted
<1> QED BY <1>7 DEF S

(* So the k-th NUL is that of line k: none is in the text of a line.       *)
LEMMA EndOfLine ==
  ASSUME NEW m, NEW lines, NEW at, Headed(m, lines, at), NEW k \in 1..Len(lines)
  PROVE  End(m, k) = PreambleWidth + at[k]
<1> DEFINE e == PreambleWidth + at[k]
           Upto(i) == {j \in Ends(m) : j <= i}
<1>1. Len(lines) \in Nat /\ k \in 0..Len(lines) /\ m \in Seq(Character)
  BY DEF Headed
<1>2. Cardinality(Upto(e)) = k
  BY <1>1, EndCount
<1>3. e \in Ends(m)
  BY <1>1, EndsUpTo, k \in 1..k DEF Headed
<1>4. Ends(m) \subseteq Nat /\ IsFiniteSet(Ends(m))
  BY <1>1, EndsFinite
<1> HIDE DEF e
<1>5. ASSUME NEW i \in Ends(m), Cardinality(Upto(i)) = k PROVE i = e
  <2>1. IsFiniteSet(Upto(i)) /\ IsFiniteSet(Upto(e))
    BY <1>4, FS_Subset
  <2>2. CASE i <= e
    <3>1. Upto(i) \subseteq Upto(e) BY <1>3, <1>4, <2>2
    <3>2. Upto(i) = Upto(e)
      <4> HIDE DEF Upto
      <4> QED BY <1>2, <1>5, <2>1, <3>1, FS_Subset
    <3>3. e \in Upto(e) BY <1>3, <1>4
    <3> QED BY <1>3, <1>4, <2>2, <3>2, <3>3
  <2>3. CASE e <= i
    <3>1. Upto(e) \subseteq Upto(i) BY <1>3, <1>4, <2>3
    <3>2. Upto(i) = Upto(e)
      <4> HIDE DEF Upto
      <4> QED BY <1>2, <1>5, <2>1, <3>1, FS_Subset
    <3>3. i \in Upto(i) BY <1>3, <1>4
    <3> QED BY <1>3, <1>4, <2>3, <3>2, <3>3
  <2> QED BY <1>3, <1>4, <2>2, <2>3
<1>6. (CHOOSE i \in Ends(m) : Cardinality(Upto(i)) = k) = e
  <2> HIDE DEF Upto
  <2> QED BY <1>2, <1>3, <1>5
<1> QED BY <1>6 DEF End, e

(* A line begins behind the NUL of the one before it.                      *)
LEMMA StartOfLine ==
  ASSUME NEW m, NEW lines, NEW at, Headed(m, lines, at), NEW k \in 1..Len(lines) + 1
  PROVE  Start(m, k) = PreambleWidth + at[k-1] + 1
<1>1. Len(lines) \in Nat /\ PreambleWidth \in Nat
  BY MessageAssumption DEF Headed
<1>2. CASE k = 1
  BY <1>1, <1>2 DEF Start, Headed, Offsets
<1>3. CASE k # 1
  <2>1. k-1 \in 1..Len(lines) BY <1>1, <1>3
  <2> QED BY <1>3, <2>1, EndOfLine DEF Start
<1> QED BY <1>2, <1>3

(* The lines of a message are read as they were written.                   *)
LEMMA LineRead ==
  ASSUME NEW m, NEW lines, NEW at, Headed(m, lines, at), NEW k \in 1..Len(lines)
  PROVE  Line(m, k) = lines[k]
<1> DEFINE w == PreambleWidth
           n == Len(lines)
           C == Character
           l == lines[k]
           s == w + at[k-1] + 1
           e == (w + at[k]) - 1
           t == SubSeq(m, s, e)
<1>1. /\ w \in Nat /\ n \in Nat /\ k \in 1..n + 1 /\ n \in 0..n /\ lines \in Seq(Text)
      /\ m \in Seq(C) /\ Len(m) \in Nat
  BY MessageAssumption DEF Headed
<1>2. Line(m, k) = t
  <2>1. Start(m, k) = s BY <1>1, StartOfLine
  <2>2. End(m, k) = w + at[k] BY <1>1, EndOfLine
  <2> HIDE DEF w, s
  <2>3. Line(m, k) = SubSeq(m, s, (w + at[k]) - 1) BY ONLY <2>1, <2>2 DEF Line
  <2> QED BY ONLY <2>3 DEF t, e
<1>3. /\ Len(l) \in Nat /\ at[k] \in Nat /\ at[k-1] \in Nat /\ at[n] \in Nat
      /\ at[k] = at[k-1] + Len(l) + 1 /\ at[k] <= at[n] /\ w + at[n] <= Len(m)
  BY <1>1, Places DEF Headed
<1>4. s \in Nat \ {0} /\ e \in Nat /\ s <= e + 1 /\ e <= Len(m) /\ e - s + 1 = Len(l)
      /\ \A i \in 1..Len(l) : i + s - 1 = w + at[k-1] + i
  <2> DEFINE p == at[k-1]
             q == at[k]
             r == at[n]
  <2>1. /\ w \in Nat /\ Len(l) \in Nat /\ q \in Nat /\ p \in Nat /\ r \in Nat /\ Len(m) \in Nat
        /\ q = p + Len(l) + 1 /\ q <= r /\ w + r <= Len(m)
    BY <1>1, <1>3
  <2>2. s = w + p + 1 /\ e = (w + q) - 1
    OBVIOUS
  <2> HIDE DEF p, q, r, w, n, l, s, e
  <2>3. s \in Nat \ {0} /\ e \in Nat /\ s <= e + 1 /\ e <= Len(m) /\ e - s + 1 = Len(l)
    BY ONLY <2>1, <2>2
  <2>4. \A i \in 1..Len(l) : i + s - 1 = w + p + i
    BY ONLY <2>1, <2>2
  <2> QED BY <2>3, <2>4 DEF p
<1>5. l \in Seq(C)
  <2>1. l \in Seq(C \ {NUL}) BY DEF Headed, Text
  <2>2. C \ {NUL} \subseteq C OBVIOUS
  <2> QED BY <2>1, <2>2, SeqMonotonic
<1>6. \A i \in 1..Len(l) : m[w + at[k-1] + i] = l[i]
  BY DEF Headed, Holds
<1> HIDE DEF w, n, C, l, s, e
<1>7. t \in Seq(C) /\ Len(t) = e - s + 1 /\ \A i \in 1..(e - s + 1) : t[i] = m[i + s - 1]
  BY <1>1, <1>4, Piece
<1> HIDE DEF t
<1>8. Len(t) = Len(l) /\ \A i \in 1..Len(l) : t[i] = l[i]
  BY ONLY <1>4, <1>6, <1>7
<1>9. t = l
  BY ONLY <1>5, <1>7, <1>8, SeqEqual
<1> QED BY <1>2, <1>9 DEF l

-----------------------------------------------------------------------------
(* Messages: preamble, lines and payload.                                  *)

(* A message has as many lines as were written, if not more.               *)
LEMMA HasLines ==
  ASSUME NEW m, NEW lines, NEW at, Headed(m, lines, at), NEW k \in 0..Len(lines)
  PROVE  HasLine(m, k)
<1> DEFINE n == Len(lines)
           S == {i \in Ends(m) : i <= PreambleWidth + at[n]}
<1>1. n \in Nat /\ n \in 0..n /\ m \in Seq(Character)
  BY DEF Headed
<1>2. Cardinality(S) = n
  BY <1>1, EndCount
<1>3. IsFiniteSet(Ends(m)) /\ S \subseteq Ends(m)
  BY <1>1, EndsFinite
<1>4. Cardinality(Ends(m)) \in Nat
  BY <1>3, FS_CardinalityType
<1> HIDE DEF S
<1>5. Cardinality(S) <= Cardinality(Ends(m))
  BY <1>3, FS_Subset
<1> QED BY <1>1, <1>2, <1>4, <1>5 DEF HasLine

(* The lines that end before the payload begins are all but the last.      *)
LEMMA LinesBefore ==
  ASSUME NEW m, NEW lines, NEW at, Headed(m, lines, at), Len(lines) >= 1
  PROVE  Cardinality({i \in Ends(m) : i < PreambleWidth + at[Len(lines)]}) = Len(lines) - 1
<1> DEFINE n == Len(lines)
           w == PreambleWidth
           p == at[n-1]
           q == at[n]
<1>1. n \in Nat \ {0} /\ w \in Nat /\ n-1 \in 0..n /\ n \in 0..n
  BY MessageAssumption DEF Headed
<1>2. lines \in Seq(Text) /\ Offsets(lines, at)
  BY DEF Headed
<1>3. p \in Nat /\ q \in Nat /\ p < q
  <2>1. n \in 1..n BY <1>1
  <2>2. /\ p \in Nat /\ q \in Nat /\ Len(lines[n]) \in Nat /\ q = p + Len(lines[n]) + 1
    BY <1>1, <1>2, <2>1, Places
  <2> HIDE DEF p, q, n
  <2> QED BY <2>2
<1>4. \A i \in Ends(m) : i < w + q <=> i <= w + p
  <2> SUFFICES ASSUME NEW i \in Ends(m) PROVE i < w + q <=> i <= w + p
    OBVIOUS
  <2>1. i \in Nat
    BY EndsFinite DEF Headed
  <2>2. ASSUME i < w + q PROVE i <= w + p
    <3>1. i <= w + at[n] BY <2>1, <2>2, <1>1, <1>3
    <3>2. PICK k \in 1..n : i = w + at[k]
      <4>1. \A j \in Ends(m) : j <= w + at[n] <=> \E k \in 1..n : j = w + at[k]
        BY <1>1, EndsUpTo DEF Headed
      <4> QED BY <3>1, <4>1
    <3>3. k # n BY <3>2, <2>2, <2>1, <1>3, <1>1
    <3>4. k \in 1..n-1 BY <3>2, <3>3, <1>1
    <3>5. at[k] \in Nat /\ at[k] <= p BY <3>4, <1>1, <1>2, Places
    <3> QED BY <3>2, <3>5, <1>1, <1>3
  <2> QED BY <2>1, <2>2, <1>1, <1>3
<1>5. {i \in Ends(m) : i < w + q} = {i \in Ends(m) : i <= w + p}
  BY <1>4
<1>6. Cardinality({i \in Ends(m) : i <= w + p}) = n-1
  BY <1>1, EndCount
<1> QED BY <1>5, <1>6

(* m is its own size, the lines and the payload, in this order.            *)
PayloadAt(m, lines, at, payload) ==
  /\ Headed(m, lines, at) /\ payload \in Seq(Character)
  /\ Len(m) = PreambleWidth + at[Len(lines)] + Len(payload)
  /\ GetSizeFromPreamble(m) = Len(m)
  /\ SubSeq(m, PreambleWidth + at[Len(lines)] + 1, Len(m)) = payload

(* As many bytes are copied for the payload as the stored size says, and   *)
(* the payload itself if that is its size.                                 *)
LEMMA PayloadBytesProperties ==
  ASSUME NEW r, r.payload \in Seq(Character), r.payload_size \in Nat
  PROVE  /\ PayloadBytes(r) \in Seq(Character) /\ Len(PayloadBytes(r)) = r.payload_size
         /\ r.payload_size = Len(r.payload) => PayloadBytes(r) = r.payload
<1> DEFINE p == r.payload
           n == r.payload_size
           b == PayloadBytes(r)
<1>1. p \in Seq(Character) /\ DOMAIN p = 1..Len(p) /\ Len(p) \in Nat /\ n \in Nat
      /\ p = [i \in 1..Len(p) |-> p[i]]
  <2>1. p \in Seq(Character) /\ n \in Nat OBVIOUS
  <2> HIDE DEF p, n
  <2> QED BY <2>1
<1>2. b = [i \in 1..n |-> IF i \in DOMAIN p THEN p[i] ELSE "uninitialised"]
  BY DEF PayloadBytes
<1>3. "uninitialised" \in Character
  BY MessageAssumption
<1> HIDE DEF p, n, b
<1>4. ASSUME NEW i \in 1..n PROVE b[i] \in Character
  <2>1. CASE i \in DOMAIN p BY <1>1, <1>2, <2>1
  <2>2. CASE i \notin DOMAIN p BY <1>2, <1>3, <2>2
  <2> QED BY <2>1, <2>2
<1>5. b \in [1..n -> Character]
  BY <1>2, <1>4
<1>6. b \in Seq(Character) /\ Len(b) = n
  BY <1>1, <1>5
<1>7. ASSUME n = Len(p) PROVE b = p
  <2>1. \A i \in 1..n : b[i] = p[i]
    BY <1>1, <1>2, <1>7
  <2> QED BY <1>1, <1>6, <1>7, <2>1, SeqEqual
<1> QED BY <1>6, <1>7 DEF b, n, p

(* A preamble is the number, as wide as it is.                             *)
LEMMA PreambleIsDecimal ==
  ASSUME NEW n \in Nat, n < Power[PreambleWidth]
  PROVE  Preamble(n) = Decimal(n, PreambleWidth)
<1> DEFINE w == PreambleWidth
           k == NumberOfDigits(n)
           z == [i \in 1..w - k |-> "0"]
           t == Number(n)
           c == z \o t
           d == Decimal(n, w)
           s == SubSeq(c, 1, w)
<1>1. w \in Nat \ {0} /\ k \in 1..w /\ w \in 0..w /\ k \in 0..w
  BY MessageAssumption, NumberOfDigitsProperties
<1>2. \A e \in k..w : Digit[((n \div Power[e]) % 10) + 1] = "0"
  BY LeadingDigits
<1>3. d \in Text /\ Len(d) = w /\ \A i \in 1..w : d[i] = Digit[((n \div Power[w - i]) % 10) + 1]
  BY <1>1, DecimalProperties
<1>4. t \in Text /\ Len(t) = k /\ \A i \in 1..k : t[i] = Digit[((n \div Power[k - i]) % 10) + 1]
  BY <1>1, NumberIsDecimal, DecimalProperties
<1>5. "0" \in Character \ {NUL}
  <2>1. Digit[1] = "0" BY DEF Digit
  <2> QED BY <2>1, DigitProperties
<1> HIDE DEF k, t, d
<1>6. z \in Text /\ Len(z) = w - k /\ \A i \in 1..w - k : z[i] = "0"
  <2>1. w - k \in Nat BY <1>1
  <2>2. z \in [1..w - k -> Character \ {NUL}] BY <1>5
  <2> QED BY <2>1, <2>2 DEF Text
<1> HIDE DEF z, w
<1>7. /\ c \in Text /\ Len(c) = w
      /\ \A i \in 1..w - k : c[i] = "0"
      /\ \A i \in 1..k : c[(w - k) + i] = t[i]
  <2>1. z \in Seq(Character \ {NUL}) BY <1>6 DEF Text
  <2>2. t \in Seq(Character \ {NUL}) BY <1>4 DEF Text
  <2>3. /\ c \in Seq(Character \ {NUL}) /\ Len(c) = Len(z) + Len(t)
        /\ \A i \in 1..Len(z) : c[i] = z[i]
        /\ \A i \in 1..Len(t) : c[Len(z) + i] = t[i]
    BY ONLY <2>1, <2>2, Joined
  <2> HIDE DEF c
  <2>4. (w - k) + k = w
    BY <1>1
  <2> QED BY <1>4, <1>6, <2>3, <2>4 DEF Text
<1> HIDE DEF c
<1>8. ASSUME NEW i \in 1..w PROVE c[i] = d[i]
  <2>1. CASE i <= w - k
    <3>1. i \in 1..w - k /\ w - i \in k..w BY <1>1, <2>1
    <3> QED BY <1>2, <1>3, <1>7, <3>1
  <2>2. CASE ~(i <= w - k)
    <3> DEFINE j == i - (w - k)
    <3>1. j \in 1..k /\ (w - k) + j = i /\ w - i = k - j BY <1>1, <2>2
    <3> HIDE DEF j
    <3> QED BY <1>3, <1>4, <1>7, <3>1
  <2> QED BY <2>1, <2>2
<1>9. c = d
  <2>1. c \in Seq(Character \ {NUL}) /\ d \in Seq(Character \ {NUL})
    BY <1>3, <1>7 DEF Text
  <2>2. Len(c) = Len(d) /\ \A i \in 1..Len(c) : c[i] = d[i]
    BY <1>3, <1>7, <1>8
  <2> QED BY <2>1, <2>2, SeqEqual
<1>10. s = c
  <2>1. c \in Seq(Character \ {NUL}) BY <1>7 DEF Text
  <2>2. 1 \in Nat \ {0} /\ w \in Nat /\ 1 <= w + 1 /\ w <= Len(c) /\ (w - 1) + 1 = w
        /\ \A i \in 1..w : i + 1 - 1 = i
    BY <1>1, <1>7
  <2>3. w \in Nat BY <2>2
  <2>4. 1 <= w + 1 BY <2>2
  <2>5. w <= Len(c) BY <2>2
  <2>6. /\ s \in Seq(Character \ {NUL}) /\ Len(s) = (w - 1) + 1
        /\ \A i \in 1..(w - 1) + 1 : s[i] = c[i + 1 - 1]
    BY ONLY <2>1, <2>3, <2>4, <2>5, 1 \in Nat \ {0}, Piece
  <2> HIDE DEF s
  <2>7. Len(s) = Len(c) /\ \A i \in 1..Len(s) : s[i] = c[i]
    BY <1>7, <2>2, <2>6
  <2> QED BY <2>1, <2>6, <2>7, SeqEqual
<1>11. Preamble(n) = s
  BY DEF Preamble, s, c, z, t, k, w
<1> QED BY <1>9, <1>10, <1>11 DEF d, w

(* Message writes the lines behind a preamble that holds the size, and the *)
(* payload behind the lines, if its header is as large as they are.        *)
LEMMA MessageLayout ==
  ASSUME NEW lines \in Seq(Text), Len(lines) >= 1, NEW at, Offsets(lines, at),
         NEW r, r.payload \in Seq(Character), r.payload_size \in Nat,
         PreambleWidth + at[Len(lines)] + r.payload_size < Power[PreambleWidth]
  PROVE  PayloadAt(Message(PreambleWidth + at[Len(lines)], lines, r), lines, at, PayloadBytes(r))
<1> DEFINE n == Len(lines)
           w == PreambleWidth
           e == at[n]
           b == PayloadBytes(r)
           l == Len(b)
           N == (w + e) + l
           a == Decimal(N, w)
           f == FlattenSeq(Terminated(lines))
           c == f \o b
           m == a \o c
<1>0. b \in Seq(Character) /\ l = r.payload_size /\ l \in Nat
  BY PayloadBytesProperties
<1>1. w \in Nat \ {0} /\ n \in Nat \ {0} /\ n \in 0..n /\ e \in Nat /\ l \in Nat
  <2>1. w \in Nat \ {0} BY MessageAssumption
  <2>2. n \in Nat \ {0} /\ n \in 0..n BY DEF Text
  <2>3. e \in Nat BY <2>2 DEF Offsets
  <2>4. l \in Nat BY <1>0
  <2> QED BY ONLY <2>1, <2>2, <2>3, <2>4
<1>2. N \in Nat /\ w \in 0..w /\ w \in 1..w /\ N < Power[w]
  <2>1. (w + e) + l < Power[w] BY <1>0
  <2> HIDE DEF l, b, e
  <2> QED BY <1>1, <2>1
<1>3. a \in Seq(Character) /\ Len(a) = w /\ Stoul(a) = N
  <2>1. a \in Text /\ Len(a) = w BY <1>2, DecimalProperties
  <2>2. Character \ {NUL} \subseteq Character OBVIOUS
  <2>3. a \in Seq(Character) BY <2>1, <2>2, SeqMonotonic DEF Text
  <2>4. Stoul(a) = N BY <1>2, StoulDecimal
  <2> QED BY <2>1, <2>3, <2>4
<1>4. f \in Seq(Character) /\ Len(f) = e /\ Holds(f, 0, lines, at, n)
  BY <1>1, FlattenHolds
<1>5. b \in Seq(Character)
  BY <1>0
<1>6. Message(w + e, lines, r) = (a \o f) \o b
  <2>1. PayloadBytes(r) = b OBVIOUS
  <2>2. (w + e) + r.payload_size = N BY <1>0
  <2>3. Terminated(lines) = [i \in DOMAIN lines |-> Append(lines[i], NUL)] BY DEF Terminated
  <2>4. Preamble(N) = a BY <1>2, PreambleIsDecimal
  <2> HIDE DEF b, l, e, N, a
  <2> QED BY <2>1, <2>2, <2>3, <2>4 DEF Message
<1> HIDE DEF a, f, b
<1>7. (a \o f) \o b = m
  <2>1. a \in Seq(Character) BY <1>3
  <2>2. f \in Seq(Character) BY <1>4
  <2> QED BY ONLY <2>1, <2>2, <1>5, ConcatAssociative DEF m, c
<1>8. c \in Seq(Character) /\ Len(c) = e + l /\ \A i \in 1..l : c[e + i] = b[i]
  <2>1. f \in Seq(Character) BY <1>4
  <2>2. Len(f) = e BY <1>4
  <2>3. /\ f \o b \in Seq(Character) /\ Len(f \o b) = Len(f) + Len(b)
        /\ \A i \in 1..Len(b) : (f \o b)[Len(f) + i] = b[i]
    BY ONLY <2>1, <1>5, Joined
  <2> HIDE DEF e
  <2> QED BY ONLY <2>2, <2>3
<1>9. Holds(c, 0, lines, at, n)
  <2>1. f \in Seq(Character) BY <1>4
  <2>2. at[n] <= Len(f) BY <1>4, <1>1
  <2>3. n \in 0..Len(lines) BY <1>1
  <2>4. Holds(f, 0, lines, at, n) BY <1>4
  <2> HIDE DEF n
  <2> QED BY ONLY <2>1, <2>2, <2>3, <2>4, <1>5, lines \in Seq(Text), Offsets(lines, at), HoldsAppended
<1> HIDE DEF c
<1>10. Holds(m, w, lines, at, n)
  <2>1. a \in Seq(Character) BY <1>3
  <2>2. at[n] <= Len(c) BY <1>8, <1>1
  <2>3. n \in 0..Len(lines) BY <1>1
  <2>4. c \in Seq(Character) BY <1>8
  <2>5. Len(a) = w BY <1>3
  <2>6. Holds(a \o c, Len(a), lines, at, n)
    <3> HIDE DEF n
    <3> QED BY ONLY <2>1, <2>2, <2>3, <2>4, <1>9, lines \in Seq(Text), Offsets(lines, at), HoldsShifted
  <2> QED BY ONLY <2>5, <2>6 DEF m
<1>11. /\ m \in Seq(Character) /\ Len(m) = w + Len(c)
       /\ \A i \in 1..w : m[i] = a[i]
       /\ \A i \in 1..Len(c) : m[w + i] = c[i]
  <2>1. a \in Seq(Character) BY <1>3
  <2>2. c \in Seq(Character) BY <1>8
  <2>3. Len(a) = w BY <1>3
  <2>4. /\ a \o c \in Seq(Character) /\ Len(a \o c) = Len(a) + Len(c)
        /\ \A i \in 1..Len(a) : (a \o c)[i] = a[i]
        /\ \A i \in 1..Len(c) : (a \o c)[Len(a) + i] = c[i]
    BY ONLY <2>1, <2>2, Joined
  <2> HIDE DEF w
  <2> QED BY ONLY <2>3, <2>4 DEF m
<1> HIDE DEF m, w, e, l
<1>12. Len(m) = N /\ Len(m) = (w + e) + l
  BY ONLY <1>1, <1>8, <1>11 DEF N
<1>13. SubSeq(m, 1, w) = a
  <2> DEFINE p == SubSeq(m, 1, w)
  <2>1. m \in Seq(Character) /\ w \in Nat /\ 1 <= w + 1 /\ w <= Len(m) /\ w - 1 + 1 = w
    BY ONLY <1>1, <1>11, <1>12
  <2>2. p \in Seq(Character) /\ Len(p) = w - 1 + 1 /\ \A i \in 1..(w - 1 + 1) : p[i] = m[i + 1 - 1]
    BY ONLY <2>1, Piece, 1 \in Nat \ {0}
  <2> HIDE DEF p
  <2>3. Len(p) = Len(a) /\ \A i \in 1..Len(a) : p[i] = a[i]
    BY ONLY <1>3, <1>11, <2>1, <2>2
  <2>4. a \in Seq(Character) BY <1>3
  <2>5. p = a
    BY ONLY <2>2, <2>3, <2>4, SeqEqual
  <2> QED BY <2>5 DEF p
<1>14. SubSeq(m, (w + e) + 1, Len(m)) = b
  <2> DEFINE s == (w + e) + 1
             p == SubSeq(m, s, Len(m))
  <2>1. m \in Seq(Character) /\ s \in Nat \ {0} /\ Len(m) \in Nat /\ s <= Len(m) + 1 /\ Len(m) - s + 1 = l
        /\ \A i \in 1..l : i + s - 1 = w + (e + i)
    BY ONLY <1>1, <1>11, <1>12
  <2> HIDE DEF s
  <2>2. p \in Seq(Character) /\ Len(p) = Len(m) - s + 1 /\ \A i \in 1..(Len(m) - s + 1) : p[i] = m[i + s - 1]
    BY ONLY <2>1, Piece, Len(m) <= Len(m)
  <2> HIDE DEF p
  <2>3. \A i \in 1..l : m[w + (e + i)] = b[i]
    BY ONLY <1>1, <1>8, <1>11
  <2>4. Len(p) = Len(b) /\ \A i \in 1..Len(b) : p[i] = b[i]
    BY ONLY <2>1, <2>2, <2>3 DEF l
  <2>5. p = b
    BY ONLY <2>2, <2>4, <1>5, SeqEqual
  <2> QED BY <2>5 DEF p, s
<1>15. GetSizeFromPreamble(m) = Len(m)
  BY <1>3, <1>12, <1>13 DEF GetSizeFromPreamble, w
<1>16. w + at[Len(lines)] <= Len(m)
  BY <1>1, <1>12 DEF e, n
<1>17. Headed(m, lines, at)
  <2>1. m \in Seq(Character) BY <1>11
  <2> QED BY <2>1, <1>10, <1>16 DEF Headed, w, n
<1>18. PayloadAt(m, lines, at, b)
  BY <1>5, <1>12, <1>14, <1>15, <1>17 DEF PayloadAt, w, e, l, n
<1> QED BY <1>6, <1>7, <1>18 DEF w, e, n, b

-----------------------------------------------------------------------------
(* The lines that requests and responses begin with.                       *)

(* What a sequence of four elements is.                                    *)
LEMMA FourLines ==
  ASSUME NEW S, NEW a \in S, NEW b \in S, NEW c \in S, NEW d \in S
  PROVE  /\ <<a, b, c, d>> \in Seq(S) /\ Len(<<a, b, c, d>>) = 4
         /\ <<a, b, c, d>>[1] = a /\ <<a, b, c, d>>[2] = b
         /\ <<a, b, c, d>>[3] = c /\ <<a, b, c, d>>[4] = d
OBVIOUS

(* A line with a number is separated as it was joined, and its number      *)
(* read.                                                                   *)
LEMMA NumberLine ==
  ASSUME NEW c \in Keywords, NEW n \in Nat, n < Power[PreambleWidth]
  PROVE  /\ ParamLine(<<c>>, Number(n)) \in Text
         /\ Len(ParamLine(<<c>>, Number(n))) + 1 = NumberSize(<<c>>, n)
         /\ NumberSize(<<c>>, n) \in 0..PreambleWidth + 4
         /\ SeparateParamVal(ParamLine(<<c>>, Number(n))) = <<<<c>>, Number(n)>>
         /\ Stoul(Number(n)) = n
<1> DEFINE a == <<c>>
           b == Number(n)
<1>1. a \in Text /\ Len(a) = 1 /\ a[1] \notin Separators
  BY Characters
<1>2. b \in Text /\ Len(b) \in 1..PreambleWidth /\ Stoul(b) = n /\ Len(b) = NumberOfDigits(n)
  BY NumberProperties
<1>3. a # <<>> /\ b # <<>> /\ PreambleWidth \in Nat
  BY <1>1, <1>2, MessageAssumption DEF Text
<1> HIDE DEF a, b
<1>4. \A i \in 1..Len(a) : a[i] \notin Separators
  BY <1>1
<1>5. ParamLine(a, b) \in Text /\ Len(ParamLine(a, b)) + 1 = LineSize(a, b)
  BY <1>1, <1>2, ParamLineProperties
<1>6. LineSize(a, b) \in 0..PreambleWidth + 4
  BY <1>1, <1>2, <1>3 DEF LineSize
<1>7. SeparateParamVal(ParamLine(a, b)) = <<a, b>>
  BY <1>1, <1>2, <1>3, <1>4, SeparateParamLine
<1>8. LineSize(a, b) = NumberSize(a, n)
  BY <1>2 DEF LineSize, NumberSize
<1> QED BY <1>2, <1>5, <1>6, <1>7, <1>8 DEF a, b

(* So is one with a keyword for its value.                                 *)
LEMMA TypeLine ==
  ASSUME NEW c \in Keywords, NEW t \in Keywords
  PROVE  /\ ParamLine(<<c>>, <<t>>) \in Text /\ Len(ParamLine(<<c>>, <<t>>)) + 1 = 5
         /\ LineSize(<<c>>, <<t>>) = 5
         /\ SeparateParamVal(ParamLine(<<c>>, <<t>>)) = <<<<c>>, <<t>>>>
<1> DEFINE a == <<c>>
           b == <<t>>
<1>1. a \in Text /\ Len(a) = 1 /\ a[1] \notin Separators /\ b \in Text /\ Len(b) = 1
  BY Characters
<1>2. a # <<>> /\ b # <<>>
  BY <1>1 DEF Text
<1> HIDE DEF a, b
<1>3. \A i \in 1..Len(a) : a[i] \notin Separators
  BY <1>1
<1>4. ParamLine(a, b) \in Text /\ Len(ParamLine(a, b)) + 1 = LineSize(a, b)
  BY <1>1, ParamLineProperties
<1>5. LineSize(a, b) = 5
  BY <1>1 DEF LineSize
<1>6. SeparateParamVal(ParamLine(a, b)) = <<a, b>>
  BY <1>1, <1>2, <1>3, SeparateParamLine
<1> QED BY <1>4, <1>5, <1>6 DEF a, b

(* A message of this type, id and payload size begins with these lines.    *)
Begins(lines, type, id, size) ==
  /\ type \in Keywords
  /\ id \in Nat /\ id < Power[PreambleWidth] /\ size \in Nat /\ size < Power[PreambleWidth]
  /\ lines \in Seq(Text) /\ Len(lines) >= 5
  /\ lines[1] = <<"SRFCv1">> /\ lines[2] = ParamLine(<<"TYPE">>, <<type>>)
  /\ lines[3] = ParamLine(<<"RI">>, Number(id)) /\ lines[4] = ParamLine(<<"PS">>, Number(size))

(* Both kinds of message are written with these lines first.               *)
LEMMA CommonLinesProperties ==
  ASSUME NEW type \in Keywords,
         NEW id \in Nat, id < Power[PreambleWidth], NEW size \in Nat, size < Power[PreambleWidth]
  PROVE  /\ CommonLines(type, id, size) \in Seq(Text) /\ Len(CommonLines(type, id, size)) = 4
         /\ CommonLines(type, id, size)[1] = <<"SRFCv1">>
         /\ CommonLines(type, id, size)[2] = ParamLine(<<"TYPE">>, <<type>>)
         /\ CommonLines(type, id, size)[3] = ParamLine(<<"RI">>, Number(id))
         /\ CommonLines(type, id, size)[4] = ParamLine(<<"PS">>, Number(size))
<1> DEFINE a == <<"SRFCv1">>
           b == ParamLine(<<"TYPE">>, <<type>>)
           c == ParamLine(<<"RI">>, Number(id))
           d == ParamLine(<<"PS">>, Number(size))
<1>1. "SRFCv1" \in Keywords /\ "TYPE" \in Keywords /\ "RI" \in Keywords /\ "PS" \in Keywords
  BY DEF Keywords
<1>2. a \in Text
  BY <1>1, Characters
<1>3. b \in Text
  BY <1>1, TypeLine
<1>4. c \in Text /\ d \in Text
  BY <1>1, NumberLine
<1>5. CommonLines(type, id, size) = <<a, b, c, d>>
  BY DEF CommonLines
<1> HIDE DEF a, b, c, d
<1>6. /\ <<a, b, c, d>> \in Seq(Text) /\ Len(<<a, b, c, d>>) = 4
      /\ <<a, b, c, d>>[1] = a /\ <<a, b, c, d>>[2] = b
      /\ <<a, b, c, d>>[3] = c /\ <<a, b, c, d>>[4] = d
  BY <1>2, <1>3, <1>4, FourLines
<1> QED BY <1>5, <1>6 DEF a, b, c, d

(* The first four lines are as large as both header sizes count them.      *)
LEMMA CommonOffset ==
  ASSUME NEW lines, NEW type, NEW id, NEW size, Begins(lines, type, id, size),
         NEW at, Offsets(lines, at)
  PROVE  /\ PreambleWidth + at[4] = CommonSize(id, size)
         /\ CommonSize(id, size) \in 0..3 * PreambleWidth + 15 /\ at[4] \in Nat
<1> DEFINE w == PreambleWidth
           ri == NumberSize(<<"RI">>, id)
           ps == NumberSize(<<"PS">>, size)
<1>1. w \in Nat /\ 1 \in 1..Len(lines) /\ 2 \in 1..Len(lines) /\ 3 \in 1..Len(lines)
      /\ 4 \in 1..Len(lines)
  BY MessageAssumption DEF Begins
<1>2. /\ at[0] = 0 /\ at[1] = at[0] + Len(lines[1]) + 1 /\ at[2] = at[1] + Len(lines[2]) + 1
      /\ at[3] = at[2] + Len(lines[3]) + 1 /\ at[4] = at[3] + Len(lines[4]) + 1
  <2>1. at[1-1] = at[0] /\ at[2-1] = at[1] /\ at[3-1] = at[2] /\ at[4-1] = at[3]
    OBVIOUS
  <2> QED BY <1>1, <2>1 DEF Offsets
<1>3. "SRFCv1" \in Keywords /\ "TYPE" \in Keywords /\ "RI" \in Keywords /\ "PS" \in Keywords
      /\ "REQ" \in Keywords
  BY DEF Keywords
<1>4. Len(lines[1]) = 1
  BY <1>3, Characters DEF Begins
<1>5. Len(lines[2]) + 1 = 5 /\ LineSize(<<"TYPE">>, <<"REQ">>) = 5
  BY <1>3, TypeLine DEF Begins
<1>6. Len(lines[3]) + 1 = ri /\ ri \in 0..w + 4
  BY <1>3, NumberLine DEF Begins
<1>7. Len(lines[4]) + 1 = ps /\ ps \in 0..w + 4
  BY <1>3, NumberLine DEF Begins
<1>8. CommonSize(id, size) = w + 2 + 5 + ri + ps
  BY <1>5 DEF CommonSize
<1>9. Len(lines[2]) \in Nat /\ Len(lines[3]) \in Nat /\ Len(lines[4]) \in Nat
  <2>1. lines \in Seq(Text)
    BY DEF Begins
  <2>2. lines[2] \in Text /\ lines[3] \in Text /\ lines[4] \in Text
    BY <1>1, <2>1, ElementOfSeq
  <2> QED BY <2>2 DEF Text
<1> DEFINE l2 == Len(lines[2])
           l3 == Len(lines[3])
           l4 == Len(lines[4])
           a4 == at[4]
<1>10. a4 = 0 + 1 + 1 + l2 + 1 + l3 + 1 + l4 + 1
  BY <1>2, <1>4
<1>11. l2 \in Nat /\ l3 \in Nat /\ l4 \in Nat /\ l2 + 1 = 5 /\ l3 + 1 = ri /\ l4 + 1 = ps
  BY <1>5, <1>6, <1>7, <1>9
<1> HIDE DEF w, ri, ps, l2, l3, l4, a4
<1>12. w + a4 = w + 2 + 5 + ri + ps /\ a4 \in Nat
  BY ONLY <1>1, <1>10, <1>11
<1>13. w + 2 + 5 + ri + ps \in 0..3 * w + 15
  BY ONLY <1>1, <1>6, <1>7
<1> QED BY <1>8, <1>12, <1>13 DEF w, a4

(* What the first four lines of a message say is read from it.             *)
LEMMA CommonRead ==
  ASSUME NEW m, NEW lines, NEW at, Headed(m, lines, at),
         NEW type, NEW id, NEW size, Begins(lines, type, id, size)
  PROVE  /\ Line(m, 1) = <<"SRFCv1">> /\ ExtractType(m) = <<<<"TYPE">>, <<type>>>>
         /\ NumberIn(m, 3, "RI") = id /\ NumberIn(m, 4, "PS") = size
         /\ \A k \in 1..5 : HasLine(m, k)
<1>1. 1 \in 1..Len(lines) /\ 2 \in 1..Len(lines) /\ 3 \in 1..Len(lines) /\ 4 \in 1..Len(lines)
      /\ \A k \in 1..5 : k \in 0..Len(lines)
  BY DEF Begins
<1>2. Line(m, 1) = lines[1] /\ Line(m, 2) = lines[2] /\ Line(m, 3) = lines[3] /\ Line(m, 4) = lines[4]
  BY <1>1, LineRead
<1>3. "TYPE" \in Keywords /\ "RI" \in Keywords /\ "PS" \in Keywords
  BY DEF Keywords
<1>4. ExtractType(m) = <<<<"TYPE">>, <<type>>>>
  BY <1>2, <1>3, TypeLine DEF ExtractType, Begins
<1>5. ASSUME NEW k, NEW c \in Keywords, NEW n \in Nat, n < Power[PreambleWidth],
             Line(m, k) = ParamLine(<<c>>, Number(n))
      PROVE  NumberIn(m, k, c) = n
  <2> DEFINE a == <<c>>
             b == Number(n)
  <2>1. SeparateParamVal(Line(m, k)) = <<a, b>> /\ Stoul(b) = n
    BY <1>5, NumberLine
  <2> HIDE DEF a, b
  <2>2. <<a, b>> # <<>> /\ <<a, b>>[1] = a /\ <<a, b>>[2] = b
    OBVIOUS
  <2>3. a = <<c>>
    BY DEF a
  <2> QED BY <2>1, <2>2, <2>3 DEF NumberIn
<1>6. NumberIn(m, 3, "RI") = id
  BY <1>2, <1>3, <1>5 DEF Begins
<1>7. NumberIn(m, 4, "PS") = size
  BY <1>2, <1>3, <1>5 DEF Begins
<1>8. \A k \in 1..5 : HasLine(m, k)
  BY <1>1, HasLines
<1> QED BY <1>2, <1>4, <1>6, <1>7, <1>8 DEF Begins

(* What all that read a message check first holds of one that was written, *)
(* and the lines behind the fifth are its parameters.                      *)
LEMMA LayoutRead ==
  ASSUME NEW m, NEW lines, NEW at, NEW payload, PayloadAt(m, lines, at, payload),
         NEW type, NEW id, Begins(lines, type, id, Len(payload))
  PROVE  /\ ParamLines(m) = 6..Len(lines) /\ PayloadOf(m) = payload
         /\ \A types : ValidStart(m, types) <=> type \in types
<1> DEFINE n == Len(lines)
           w == PreambleWidth
           e == at[n]
           l == Len(payload)
           M == Len(m)
<1>1. w \in Nat /\ n \in Nat /\ n >= 5 /\ e \in Nat /\ l \in Nat
  <2>1. w \in Nat BY MessageAssumption
  <2>2. n \in Nat /\ n >= 5 BY DEF Begins
  <2>3. e \in Nat
    <3>1. n \in 0..n BY <2>2
    <3> QED BY <3>1 DEF PayloadAt, Headed, Offsets
  <2>4. l \in Nat BY DEF PayloadAt
  <2> QED BY ONLY <2>1, <2>2, <2>3, <2>4
<1>2. Headed(m, lines, at) /\ M = (w + e) + l /\ GetSizeFromPreamble(m) = M
      /\ SubSeq(m, (w + e) + 1, M) = payload
  BY DEF PayloadAt
<1>3. /\ Line(m, 1) = <<"SRFCv1">> /\ ExtractType(m) = <<<<"TYPE">>, <<type>>>>
      /\ NumberIn(m, 3, "RI") = id /\ NumberIn(m, 4, "PS") = l /\ HasLine(m, 5)
  <2>1. Headed(m, lines, at) BY <1>2
  <2>2. 5 \in 1..5 OBVIOUS
  <2> QED BY <2>1, <2>2, CommonRead
<1>4. M - l = w + e /\ (M - l) + 1 = (w + e) + 1 /\ M \in Nat /\ w <= M
  <2> HIDE DEF M, l, w, e
  <2> QED BY <1>1, <1>2
<1>5. PayloadOf(m) = payload
  BY <1>2, <1>3, <1>4 DEF PayloadOf
<1>6. ParamLines(m) = 6..n
  <2>1. Cardinality({i \in Ends(m) : i < w + e}) = n - 1
    <3>1. Headed(m, lines, at) BY <1>2
    <3>2. Len(lines) >= 1 BY <1>1
    <3> QED BY <3>1, <3>2, LinesBefore
  <2>2. {i \in Ends(m) : i < M - NumberIn(m, 4, "PS")} = {i \in Ends(m) : i < w + e}
    BY <1>3, <1>4
  <2>3. (n - 1) + 1 = n BY <1>1
  <2> HIDE DEF n, w, e
  <2>4. Cardinality({i \in Ends(m) : i < M - NumberIn(m, 4, "PS")}) + 1 = n
    BY <2>1, <2>2, <2>3
  <2> QED BY <2>4 DEF ParamLines
<1>7. id # NoNumber /\ l # NoNumber
  BY <1>1 DEF NoNumber, Begins
<1>8. ASSUME NEW types PROVE ValidStart(m, types) <=> type \in types
  <2>1. ExtractType(m) \in {<<<<"TYPE">>, <<t>>>> : t \in types} <=> type \in types
    BY <1>3
  <2> QED BY <1>2, <1>3, <1>4, <1>7, <2>1 DEF ValidStart
<1> QED BY <1>5, <1>6, <1>8

-----------------------------------------------------------------------------
(* A parameter as an object may hold it, also one that was read.           *)
Param == {p \in Text \X Text : ParamSize(p) <= MaxText + 1}

(* What every object keeps to.                                             *)
WellFormed(r) ==
  /\ r.my_request_id \in 0..LastId
  /\ r.method_name \in Text /\ Len(r.method_name) <= MaxText
  /\ r.parameters \in Seq(Param) /\ Len(r.parameters) <= MaxParams
  /\ r.payload \in Seq(Character) /\ Len(r.payload) <= MaxText
  /\ r.payload_size \in Nat /\ r.payload_size <= MaxText

(* The lines of the parameters.                                            *)
ParamText(r) == [i \in DOMAIN r.parameters |-> ParamLine(r.parameters[i][1], r.parameters[i][2])]

(* All lines of a request.                                                 *)
RequestLines(r) ==
  CommonLines("REQ", r.my_request_id, r.payload_size) \o <<r.method_name>> \o ParamText(r)

(* What is needed of multiplication, which the provers do not know         *)
(* otherwise.                                                              *)
LEMMA Product ==
  ASSUME NEW k \in Nat, NEW n \in Nat, k <= n, NEW s \in Nat
  PROVE  /\ k * s \in Nat /\ n * s \in Nat /\ k * s <= n * s
         /\ (k + 1) * s = k * s + s /\ 0 * s = 0
<1>1. k * s \in Nat /\ n * s \in Nat /\ (n - k) * s \in Nat /\ n - k \in Nat
  OBVIOUS
<1>2. n * s = k * s + (n - k) * s
  OBVIOUS
<1>3. (k + 1) * s = k * s + s /\ 0 * s = 0
  OBVIOUS
<1> QED BY <1>1, <1>2, <1>3

(* The sizes of what an object holds are within what a preamble can tell.  *)
LEMMA Sizes ==
  /\ PreambleWidth \in Nat \ {0} /\ MaxParams \in Nat /\ MaxText \in Nat
  /\ Power[PreambleWidth] \in Nat /\ MaxParams * (MaxText + 1) \in Nat
  /\ 4 * PreambleWidth + 20 + MaxParams * (MaxText + 1) + MaxText + MaxText + 2 < Power[PreambleWidth]
<1> DEFINE s == MaxText + 1
           P == Power[PreambleWidth]
           q == MaxParams * s
<1>1. PreambleWidth \in Nat \ {0} /\ MaxParams \in Nat /\ MaxText \in Nat
      /\ 4 * PreambleWidth + 20 + (MaxParams + 2) * s < P
  BY MessageAssumption
<1>2. P \in Nat
  BY <1>1, PowerDef
<1>3. q \in Nat /\ (MaxParams + 2) * s = q + s + s
  <2>1. s \in Nat BY <1>1
  <2> HIDE DEF s
  <2>2. (MaxParams + 1) * s = MaxParams * s + s /\ MaxParams * s \in Nat
    BY <1>1, <2>1, Product, MaxParams <= MaxParams
  <2>3. MaxParams + 1 \in Nat /\ MaxParams + 1 <= MaxParams + 1 /\ (MaxParams + 1) + 1 = MaxParams + 2
    BY <1>1
  <2>4. ((MaxParams + 1) + 1) * s = (MaxParams + 1) * s + s
    BY <2>1, <2>3, Product
  <2> HIDE DEF q
  <2> QED BY ONLY <2>1, <2>2, <2>3, <2>4 DEF q
<1> HIDE DEF P, q
<1>4. 4 * PreambleWidth + 20 + q + MaxText + MaxText + 2 < P
  BY ONLY <1>1, <1>2, <1>3 DEF s
<1> QED BY <1>1, <1>2, <1>3, <1>4 DEF P, q

-----------------------------------------------------------------------------
(* Requests: what is written, how large it is, and how it is read.         *)

(* The parameters of an object are lines of the size that is counted for   *)
(* them.                                                                   *)
LEMMA ParamTextProperties ==
  ASSUME NEW r, WellFormed(r)
  PROVE  /\ ParamText(r) \in Seq(Text) /\ Len(ParamText(r)) = Len(r.parameters)
         /\ Len(r.parameters) \in Nat
         /\ \A k \in 1..Len(r.parameters) :
              /\ r.parameters[k] \in Text \X Text
              /\ ParamText(r)[k] = ParamLine(r.parameters[k][1], r.parameters[k][2])
              /\ Len(ParamText(r)[k]) + 1 = ParamSize(r.parameters[k])
              /\ ParamSize(r.parameters[k]) \in 0..MaxText + 1
<1> DEFINE p == r.parameters
           n == Len(p)
           t == ParamText(r)
<1>1. p \in Seq(Param)
  BY DEF WellFormed
<1>2. n \in Nat /\ DOMAIN p = 1..n /\ \A k \in 1..n : p[k] \in Param
  BY <1>1
<1>3. t = [k \in 1..n |-> ParamLine(p[k][1], p[k][2])]
  BY <1>2 DEF ParamText
<1> HIDE DEF p, n, t
<1>4. ASSUME NEW k \in 1..n
      PROVE  /\ p[k] \in Text \X Text /\ t[k] = ParamLine(p[k][1], p[k][2]) /\ t[k] \in Text
             /\ Len(t[k]) + 1 = ParamSize(p[k]) /\ ParamSize(p[k]) \in 0..MaxText + 1
  <2> DEFINE a == p[k][1]
             b == p[k][2]
  <2>1. p[k] \in Text \X Text /\ ParamSize(p[k]) <= MaxText + 1
    BY <1>2 DEF Param
  <2>2. a \in Text /\ b \in Text
    BY <2>1
  <2>3. ParamSize(p[k]) = LineSize(a, b)
    BY DEF ParamSize
  <2>4. t[k] = ParamLine(a, b)
    BY <1>3
  <2> HIDE DEF a, b
  <2>5. ParamLine(a, b) \in Text /\ Len(ParamLine(a, b)) + 1 = LineSize(a, b)
    BY <2>2, ParamLineProperties
  <2>6. Len(t[k]) \in Nat
    BY <2>4, <2>5 DEF Text
  <2>7. ParamSize(p[k]) \in 0..MaxText + 1
    BY <2>1, <2>3, <2>4, <2>5, <2>6, Sizes
  <2> QED BY <2>1, <2>3, <2>4, <2>5, <2>7 DEF a, b
<1>5. t \in [1..n -> Text]
  BY <1>3, <1>4
<1>6. t \in Seq(Text) /\ Len(t) = n
  BY <1>2, <1>5
<1> QED BY <1>2, <1>4, <1>6 DEF p, n, t

(* Which line of a request is which.                                       *)
LEMMA RequestLinesProperties ==
  ASSUME NEW r, WellFormed(r)
  PROVE  /\ Begins(RequestLines(r), "REQ", r.my_request_id, r.payload_size)
         /\ Len(RequestLines(r)) = 5 + Len(r.parameters)
         /\ RequestLines(r)[5] = r.method_name
         /\ \A k \in 1..Len(r.parameters) : RequestLines(r)[5 + k] = ParamText(r)[k]
<1> DEFINE c == CommonLines("REQ", r.my_request_id, r.payload_size)
           one == <<r.method_name>>
           t == ParamText(r)
           d == c \o one
           n == Len(r.parameters)
           P == Power[PreambleWidth]
<1>1. /\ r.my_request_id \in Nat /\ r.my_request_id < P
      /\ r.payload_size \in Nat /\ r.payload_size < P
  <2>1. r.my_request_id \in 0..LastId /\ LastId \in Nat /\ LastId < P /\ P \in Nat
    BY MessageAssumption, Sizes DEF WellFormed
  <2> DEFINE l == r.payload_size
             q == MaxParams * (MaxText + 1)
  <2>2. l \in Nat /\ l <= MaxText
    BY DEF WellFormed
  <2>3. /\ MaxText \in Nat /\ PreambleWidth \in Nat /\ P \in Nat /\ q \in Nat
        /\ 4 * PreambleWidth + 20 + q + MaxText + MaxText + 2 < P
    BY Sizes
  <2> HIDE DEF l, q, P
  <2>4. l < P
    BY <2>2, <2>3
  <2> QED BY <2>1, <2>2, <2>4 DEF l
<1>2. "REQ" \in Keywords
  BY DEF Keywords
<1>3. /\ c \in Seq(Text) /\ Len(c) = 4
      /\ c[1] = <<"SRFCv1">> /\ c[2] = ParamLine(<<"TYPE">>, <<"REQ">>)
      /\ c[3] = ParamLine(<<"RI">>, Number(r.my_request_id))
      /\ c[4] = ParamLine(<<"PS">>, Number(r.payload_size))
  BY <1>1, <1>2, CommonLinesProperties
<1>4. one \in Seq(Text) /\ Len(one) = 1 /\ one[1] = r.method_name
  <2>1. r.method_name \in Text BY DEF WellFormed
  <2> QED BY <2>1
<1>5. t \in Seq(Text) /\ Len(t) = n /\ n \in Nat
  BY ParamTextProperties
<1> HIDE DEF c, one, t, n
<1>6. /\ d \in Seq(Text) /\ Len(d) = 5 /\ \A i \in 1..4 : d[i] = c[i]
      /\ d[5] = r.method_name
  <2>1. c \in Seq(Text) BY <1>3
  <2>2. one \in Seq(Text) BY <1>4
  <2>3. /\ d \in Seq(Text) /\ Len(d) = Len(c) + Len(one)
        /\ \A i \in 1..Len(c) : d[i] = c[i]
        /\ \A i \in 1..Len(one) : d[Len(c) + i] = one[i]
    BY ONLY <2>1, <2>2, Joined
  <2>4. Len(c) = 4 /\ Len(one) = 1 /\ one[1] = r.method_name /\ 4 + 1 = 5 /\ 1 \in 1..1
    BY <1>3, <1>4
  <2> HIDE DEF d
  <2> QED BY ONLY <2>3, <2>4
<1> HIDE DEF d
<1> DEFINE lines == d \o t
<1>7. /\ lines \in Seq(Text) /\ Len(lines) = 5 + n
      /\ \A i \in 1..5 : lines[i] = d[i]
      /\ \A k \in 1..n : lines[5 + k] = t[k]
  <2>1. d \in Seq(Text) BY <1>6
  <2>2. t \in Seq(Text) BY <1>5
  <2>3. /\ lines \in Seq(Text) /\ Len(lines) = Len(d) + Len(t)
        /\ \A i \in 1..Len(d) : lines[i] = d[i]
        /\ \A i \in 1..Len(t) : lines[Len(d) + i] = t[i]
    BY ONLY <2>1, <2>2, Joined
  <2>4. Len(d) = 5 /\ Len(t) = n
    BY <1>5, <1>6
  <2> HIDE DEF lines
  <2> QED BY ONLY <2>3, <2>4
<1>8. RequestLines(r) = lines
  BY DEF RequestLines, c, one, t, d
<1> HIDE DEF lines
<1>9. lines[5] = r.method_name /\ \A i \in 1..4 : lines[i] = c[i]
  BY <1>6, <1>7
<1>10. Begins(lines, "REQ", r.my_request_id, r.payload_size)
  <2>1. lines[1] = c[1] /\ lines[2] = c[2] /\ lines[3] = c[3] /\ lines[4] = c[4]
    BY <1>9
  <2>2. Len(lines) >= 5
    BY <1>5, <1>7
  <2> QED BY <1>1, <1>2, <1>3, <1>7, <2>1, <2>2 DEF Begins
<1> QED BY <1>7, <1>8, <1>9, <1>10 DEF t, n

(* request_header_size counts to the byte what the lines are.              *)
LEMMA RequestSize ==
  ASSUME NEW r, WellFormed(r), NEW at, Offsets(RequestLines(r), at)
  PROVE  /\ PreambleWidth + at[Len(RequestLines(r))] = RequestHeaderSize(r)
         /\ PreambleWidth + at[Len(RequestLines(r))] + r.payload_size < Power[PreambleWidth]
<1> DEFINE n == Len(r.parameters)
           w == PreambleWidth
           lines == RequestLines(r)
           s == MaxText + 1
           base == CommonSize(r.my_request_id, r.payload_size) + Len(r.method_name) + 1
           g == [k \in 0..n |-> w + at[5 + k]]
           Sum(f) == f = [k \in 0..n |-> IF k = 0 THEN base ELSE f[k-1] + ParamSize(r.parameters[k])]
           size == CHOOSE f : Sum(f)
<1>1. n \in Nat /\ w \in Nat /\ s \in Nat /\ n <= MaxParams /\ MaxParams \in Nat
  BY Sizes, ParamTextProperties DEF WellFormed
<1>2. Begins(lines, "REQ", r.my_request_id, r.payload_size) /\ Len(lines) = 5 + n
      /\ lines[5] = r.method_name
  BY RequestLinesProperties
<1>3. \A k \in 0..n : 5 + k \in 0..Len(lines) /\ at[5 + k] \in Nat
  <2>1. \A k \in 0..n : 5 + k \in 0..Len(lines)
    BY <1>1, <1>2
  <2>2. \A i \in 0..Len(lines) : at[i] \in Nat
    BY DEF Offsets
  <2> QED BY <2>1, <2>2
<1>4. \A i \in 1..Len(lines) : at[i] = at[i-1] + Len(lines[i]) + 1
  BY DEF Offsets
<1>5. w + at[4] = CommonSize(r.my_request_id, r.payload_size)
      /\ CommonSize(r.my_request_id, r.payload_size) \in 0..3 * w + 15 /\ at[4] \in Nat
  BY <1>2, CommonOffset
<1>6. Len(r.method_name) \in Nat /\ Len(r.method_name) <= MaxText /\ MaxText \in Nat
  BY Sizes DEF WellFormed, Text
<1>7. w + at[5] = base /\ base \in 0..3 * w + 15 + s
  <2> DEFINE b == CommonSize(r.my_request_id, r.payload_size)
             l == Len(r.method_name)
             p == at[4]
             q == at[5]
  <2>1. 5 \in 1..Len(lines) /\ 5 - 1 = 4
    BY <1>1, <1>2
  <2>2. q = p + l + 1
    BY <1>2, <1>4, <2>1
  <2>3. w + p = b /\ b \in 0..3 * w + 15 /\ p \in Nat /\ l \in Nat /\ l <= MaxText
    BY <1>5, <1>6
  <2>4. base = b + l + 1 /\ s = MaxText + 1
    OBVIOUS
  <2> HIDE DEF b, l, p, q, base, s, w
  <2>5. w + q = base /\ base \in 0..3 * w + 15 + s
    BY ONLY <2>2, <2>3, <2>4, <1>1, <1>6
  <2> QED BY <2>5 DEF q
<1> HIDE DEF base, w, s
<1>8. ASSUME NEW k \in 1..n
      PROVE  /\ g[k] = g[k-1] + ParamSize(r.parameters[k]) /\ ParamSize(r.parameters[k]) \in 0..s
             /\ g[k] \in Nat /\ g[k-1] \in Nat
  <2> DEFINE p == at[5 + (k-1)]
             q == at[5 + k]
             l == Len(lines[5 + k])
             z == ParamSize(r.parameters[k])
  <2>1. k \in 0..n /\ k-1 \in 0..n /\ 5 + k \in 1..Len(lines) /\ (5 + k) - 1 = 5 + (k-1)
    BY <1>1, <1>2
  <2>2. p \in Nat /\ q \in Nat /\ q = p + l + 1
    BY <1>3, <1>4, <2>1
  <2>3. l + 1 = z /\ z \in 0..s
    BY RequestLinesProperties, ParamTextProperties DEF s
  <2>4. l \in Nat
    <3>1. lines \in Seq(Text) BY <1>2 DEF Begins
    <3>2. lines[5 + k] \in Text BY <2>1, <3>1, ElementOfSeq
    <3> QED BY <3>2 DEF Text
  <2>5. g[k] = w + q /\ g[k-1] = w + p
    BY <2>1
  <2> HIDE DEF p, q, l, z, g
  <2>6. g[k] = g[k-1] + z /\ g[k] \in Nat /\ g[k-1] \in Nat
    BY ONLY <2>2, <2>3, <2>4, <2>5, <1>1
  <2> QED BY <2>3, <2>6 DEF z
<1>9. g[0] = base
  <2>1. 0 \in 0..n /\ 5 + 0 = 5 BY <1>1
  <2> QED BY <1>7, <2>1
<1>10. Sum(g)
  <2>1. \A k \in 0..n : g[k] = IF k = 0 THEN base ELSE g[k-1] + ParamSize(r.parameters[k])
    <3> SUFFICES ASSUME NEW k \in 0..n
                 PROVE  g[k] = IF k = 0 THEN base ELSE g[k-1] + ParamSize(r.parameters[k])
      OBVIOUS
    <3> HIDE DEF g
    <3>1. CASE k = 0 BY <3>1, <1>9
    <3>2. CASE k # 0
      <4>1. k \in 1..n BY <3>2, <1>1
      <4> QED BY <3>2, <4>1, <1>8
    <3> QED BY <3>1, <3>2
  <2>2. g = [k \in 0..n |-> g[k]]
    OBVIOUS
  <2> HIDE DEF g
  <2> QED BY <2>1, <2>2
<1>11. Sum(size)
  <2>1. \E f : Sum(f) BY <1>10
  <2> HIDE DEF Sum
  <2> QED BY <2>1
<1>12. RequestHeaderSize(r) = size[n]
  BY DEF RequestHeaderSize, base
<1> HIDE DEF size
<1> DEFINE T == {k \in 0..n : size[k] = g[k] /\ g[k] \in Nat /\ g[k] <= base + k * s}
<1>13. 0 \in T
  <2>1. 0 \in 0..n BY <1>1
  <2>2. size[0] = base BY <1>11, <2>1
  <2>3. 0 * s = 0 BY <1>1
  <2> HIDE DEF g
  <2> QED BY <1>7, <1>9, <2>1, <2>2, <2>3, <1>1
<1>14. ASSUME NEW k \in 1..n, k-1 \in T PROVE k \in T
  <2>1. k \in 0..n /\ k-1 \in 0..n /\ k # 0 /\ k-1 \in Nat BY <1>1
  <2>2. size[k] = size[k-1] + ParamSize(r.parameters[k]) BY <1>11, <2>1
  <2> HIDE DEF g, Sum
  <2> DEFINE z == ParamSize(r.parameters[k])
             a == g[k-1]
             b == g[k]
             h == (k-1) * s
             i == k * s
  <2>3. size[k] = b BY <2>2, <1>8, <1>14
  <2>4. b = a + z /\ z \in 0..s /\ a \in Nat /\ b \in Nat /\ a <= base + h
    BY <1>8, <1>14
  <2>5. h \in Nat /\ i = h + s
    <3>1. k-1 <= k-1 /\ (k-1) + 1 = k BY <2>1
    <3>2. (k-1) * s \in Nat /\ ((k-1) + 1) * s = (k-1) * s + s
      BY <2>1, <3>1, <1>1, Product
    <3> QED BY <3>1, <3>2
  <2>6. base \in Nat BY <1>7, <1>1
  <2> HIDE DEF z, a, b, h, i
  <2>7. b <= base + i
    BY ONLY <2>4, <2>5, <2>6, <1>1
  <2> QED BY <2>1, <2>3, <2>4, <2>7 DEF b, i
<1>15. n \in T
  <2>1. n \in 0..n BY <1>1
  <2> HIDE DEF T, n
  <2> QED BY <1>1, <1>13, <1>14, <2>1, Induction
<1>16. size[n] = w + at[Len(lines)] /\ w + at[Len(lines)] <= base + n * s /\ at[Len(lines)] \in Nat
  <2>1. n \in 0..n BY <1>1
  <2> QED BY <1>15, <1>2, <1>3, <2>1
<1>17. w + at[Len(lines)] + r.payload_size < Power[PreambleWidth]
  <2> DEFINE e == at[Len(lines)]
             l == r.payload_size
             i == n * s
             j == MaxParams * s
             P == Power[PreambleWidth]
  <2>1. i \in Nat /\ i <= j /\ j \in Nat
    BY <1>1, Product
  <2>2. l \in Nat /\ l <= MaxText
    BY DEF WellFormed
  <2>3. P \in Nat /\ 4 * w + 20 + j + MaxText + MaxText + 2 < P
    BY Sizes DEF w, s
  <2>4. e \in Nat /\ w + e <= base + i
    BY <1>16
  <2>5. s = MaxText + 1
    BY DEF s
  <2> HIDE DEF e, l, i, j, P, n
  <2>6. w + e + l < P
    BY ONLY <2>1, <2>2, <2>3, <2>4, <2>5, <1>1, <1>6, <1>7
  <2> QED BY <2>6 DEF e, l, P
<1> QED BY <1>12, <1>16, <1>17 DEF w

(* What is read from a request that was written, line by line, and the     *)
(* size it has.                                                            *)
LEMMA RequestRead ==
  ASSUME NEW r, WellFormed(r), NEW m, m = SerializeRequest(r)
  PROVE  /\ Len(m) = RequestHeaderSize(r) + r.payload_size /\ GetSizeFromPreamble(m) = Len(m)
         /\ (\A types : ValidStart(m, types) <=> "REQ" \in types) /\ ExtractType(m)[2] = <<"REQ">>
         /\ NumberIn(m, 3, "RI") = r.my_request_id /\ NumberIn(m, 4, "PS") = r.payload_size
         /\ Line(m, 5) = r.method_name /\ PayloadOf(m) = PayloadBytes(r)
         /\ ParamLines(m) = 6..5 + Len(r.parameters)
         /\ \A k \in 1..Len(r.parameters) :
              /\ HasLine(m, 5 + k)
              /\ Line(m, 5 + k) = ParamLine(r.parameters[k][1], r.parameters[k][2])
<1> DEFINE lines == RequestLines(r)
           n == Len(r.parameters)
<1>1. Begins(lines, "REQ", r.my_request_id, r.payload_size) /\ Len(lines) = 5 + n
      /\ lines[5] = r.method_name /\ \A k \in 1..n : lines[5 + k] = ParamText(r)[k]
  BY RequestLinesProperties
<1>2. n \in Nat /\ \A k \in 1..n : ParamText(r)[k] = ParamLine(r.parameters[k][1], r.parameters[k][2])
  BY ParamTextProperties
<1>3. lines \in Seq(Text) /\ Len(lines) >= 1
  BY <1>1, <1>2 DEF Begins
<1>4. PICK at : Offsets(lines, at)
  BY <1>3, OffsetsExist
<1>5. /\ PreambleWidth + at[Len(lines)] = RequestHeaderSize(r)
      /\ PreambleWidth + at[Len(lines)] + r.payload_size < Power[PreambleWidth]
  BY <1>4, RequestSize
<1>6. /\ r.payload \in Seq(Character) /\ r.payload_size \in Nat
      /\ Len(PayloadBytes(r)) = r.payload_size
  BY PayloadBytesProperties DEF WellFormed
<1>7. PayloadAt(m, lines, at, PayloadBytes(r))
  <2>1. PayloadAt(Message(PreambleWidth + at[Len(lines)], lines, r), lines, at, PayloadBytes(r))
    <3>1. lines \in Seq(Text) BY <1>3
    <3>2. Len(lines) >= 1 BY <1>3
    <3>3. r.payload \in Seq(Character) BY <1>6
    <3>4. r.payload_size \in Nat BY <1>6
    <3>5. PreambleWidth + at[Len(lines)] + r.payload_size < Power[PreambleWidth] BY <1>5
    <3> HIDE DEF lines
    <3> QED BY ONLY <1>4, <3>1, <3>2, <3>3, <3>4, <3>5, MessageLayout
  <2>2. m = Message(RequestHeaderSize(r), lines, r)
    BY DEF SerializeRequest, RequestLines, ParamText
  <2> HIDE DEF lines
  <2> QED BY <1>5, <2>1, <2>2
<1>8. Headed(m, lines, at) /\ Len(m) = PreambleWidth + at[Len(lines)] + Len(PayloadBytes(r))
      /\ GetSizeFromPreamble(m) = Len(m)
  BY <1>7 DEF PayloadAt
<1>9. /\ ParamLines(m) = 6..Len(lines) /\ PayloadOf(m) = PayloadBytes(r)
      /\ \A types : ValidStart(m, types) <=> "REQ" \in types
  <2>1. Begins(lines, "REQ", r.my_request_id, Len(PayloadBytes(r))) BY <1>1, <1>6
  <2> HIDE DEF lines
  <2> QED BY ONLY <1>7, <2>1, LayoutRead
<1>10. /\ ExtractType(m) = <<<<"TYPE">>, <<"REQ">>>>
       /\ NumberIn(m, 3, "RI") = r.my_request_id /\ NumberIn(m, 4, "PS") = r.payload_size
  <2>1. Headed(m, lines, at) BY <1>8
  <2>2. Begins(lines, "REQ", r.my_request_id, r.payload_size) BY <1>1
  <2> HIDE DEF lines
  <2> QED BY ONLY <2>1, <2>2, CommonRead
<1>11. \A k \in 1..Len(lines) : Line(m, k) = lines[k] /\ HasLine(m, k)
  <2>1. Headed(m, lines, at) BY <1>8
  <2>2. \A k \in 1..Len(lines) : k \in 0..Len(lines)
    BY <1>1, <1>2
  <2> HIDE DEF lines
  <2> QED BY ONLY <2>1, <2>2, LineRead, HasLines
<1>12. 5 \in 1..Len(lines) /\ \A k \in 1..n : 5 + k \in 1..Len(lines)
  BY <1>1, <1>2
<1>13. ExtractType(m)[2] = <<"REQ">>
  BY <1>10
<1> HIDE DEF lines, n
<1>14. Line(m, 5) = r.method_name
  BY <1>1, <1>11, <1>12
<1>15. \A k \in 1..n : HasLine(m, 5 + k) /\ Line(m, 5 + k) = ParamLine(r.parameters[k][1], r.parameters[k][2])
  BY <1>1, <1>2, <1>11, <1>12
<1>16. Len(m) = RequestHeaderSize(r) + r.payload_size
  BY <1>5, <1>6, <1>8
<1> QED BY <1>1, <1>8, <1>9, <1>10, <1>13, <1>14, <1>15, <1>16 DEF n

(* The parameters of a request, each as it is split when it is read.       *)
Split(r, i) == SeparateParamVal(ParamLine(r.parameters[i][1], r.parameters[i][2]))

(* Parameters that are read are those, behind what the object held.        *)
LEMMA ParametersRead ==
  ASSUME NEW r, WellFormed(r), NEW m, m = SerializeRequest(r), NEW q, NEW n \in 0..Len(r.parameters)
  PROVE  Parameters(m, q, n) = q.parameters \o [i \in 1..n |-> Split(r, i)]
<1>1. Len(r.parameters) \in Nat
  BY ParamTextProperties
<1>2. \A k \in 1..Len(r.parameters) :
        Line(m, 5 + k) = ParamLine(r.parameters[k][1], r.parameters[k][2])
  BY RequestRead
<1>3. [i \in 1..n |-> SeparateParamVal(Line(m, 5 + i))] = [i \in 1..n |-> Split(r, i)]
  BY <1>1, <1>2 DEF Split
<1> QED BY <1>3 DEF Parameters

(* A request is read as it was sent, but for how its parameters are split. *)
LEMMA DeserializedRequest ==
  ASSUME NEW r, WellFormed(r), NEW m, m = SerializeRequest(r), NEW q
  PROVE  DeserializeRequest(m, q) =
           [my_request_id |-> r.my_request_id, method_name |-> r.method_name,
            parameters |-> q.parameters \o [i \in 1..Len(r.parameters) |-> Split(r, i)],
            payload |-> PayloadBytes(r), payload_size |-> r.payload_size]
<1> DEFINE n == Len(r.parameters)
<1>1. n \in Nat
  BY ParamTextProperties
<1>2. /\ NumberIn(m, 3, "RI") = r.my_request_id /\ NumberIn(m, 4, "PS") = r.payload_size
      /\ Line(m, 5) = r.method_name /\ PayloadOf(m) = PayloadBytes(r)
      /\ ParamLines(m) = 6..5 + n
  BY RequestRead
<1>3. Cardinality(6..5 + n) = n
  <2>1. 6 \in Int /\ 5 + n \in Int /\ (IF 6 > 5 + n THEN 0 ELSE (5 + n) - 6 + 1) = n BY <1>1
  <2> QED BY <2>1, FS_Interval
<1>4. Cardinality(ParamLines(m)) = n
  BY <1>2, <1>3
<1>5. Parameters(m, q, n) = q.parameters \o [i \in 1..n |-> Split(r, i)]
  BY <1>1, ParametersRead
<1> HIDE DEF n
<1> QED BY <1>2, <1>4, <1>5 DEF DeserializeRequest, n

(* d is what reading r into q left when parameter n + 1 threw.             *)
StoppedAt(d, r, q, n) ==
  /\ \A k \in 1..n : Split(r, k) # <<>>
  /\ d = [my_request_id |-> r.my_request_id, method_name |-> r.method_name,
          parameters |-> q.parameters \o [i \in 1..n |-> Split(r, i)],
          payload |-> q.payload, payload_size |-> r.payload_size]

(* Where a parameter throws, those before it have been read.               *)
LEMMA DeserializeStops ==
  ASSUME NEW r, WellFormed(r), NEW m, m = SerializeRequest(r), NEW q, ~ValidParameters(m)
  PROVE  \E n \in 0..Len(r.parameters) : StoppedAt(DeserializeThrows(m, q), r, q, n)
<1> DEFINE l == Len(r.parameters)
           Reads(k) == ReadsParameter(m, k)
           Bad(k) == ~Reads(k) /\ \A j \in 6..k - 1 : Reads(j)
           bad == CHOOSE k \in ParamLines(m) : Bad(k)
           n == bad - 6
           T == {k \in 6..5 + l : ~Reads(k)}
<1>1. l \in Nat
  BY ParamTextProperties
<1>2. /\ NumberIn(m, 3, "RI") = r.my_request_id /\ NumberIn(m, 4, "PS") = r.payload_size
      /\ Line(m, 5) = r.method_name /\ ParamLines(m) = 6..5 + l
      /\ \A k \in 1..l : HasLine(m, 5 + k)
                         /\ Line(m, 5 + k) = ParamLine(r.parameters[k][1], r.parameters[k][2])
  BY RequestRead
<1>3. T \subseteq Nat /\ T # {}
  BY <1>1, <1>2 DEF ValidParameters
<1>4. PICK k \in T : \A j \in T : k <= j
  <2> HIDE DEF T
  <2> QED BY <1>3, NatMin
<1>5. Bad(k) /\ k \in 6..5 + l
  <2>1. ~Reads(k) /\ k \in 6..5 + l
    BY <1>4
  <2>2. ASSUME NEW j \in 6..k - 1 PROVE Reads(j)
    <3>1. j \in 6..5 + l /\ ~(k <= j) BY <1>1, <2>1
    <3> HIDE DEF Reads
    <3> QED BY <1>4, <3>1
  <2> QED BY <2>1, <2>2
<1>6. bad \in 6..5 + l /\ Bad(bad)
  <2>1. \E i \in ParamLines(m) : Bad(i) BY <1>2, <1>5
  <2> HIDE DEF Bad
  <2> QED BY <1>2, <2>1
<1>7. DeserializeThrows(m, q) =
        [my_request_id |-> r.my_request_id, method_name |-> r.method_name,
         parameters |-> Parameters(m, q, n), payload |-> q.payload, payload_size |-> r.payload_size]
  BY <1>2 DEF DeserializeThrows
<1> HIDE DEF bad
<1>8. n \in 0..l
  BY <1>1, <1>6
<1>9. Parameters(m, q, n) = q.parameters \o [i \in 1..n |-> Split(r, i)]
  <2> HIDE DEF n
  <2> QED BY <1>8, ParametersRead
<1>10. ASSUME NEW i \in 1..n PROVE Split(r, i) # <<>>
  <2>1. 5 + i \in 6..bad - 1 /\ i \in 1..l
    BY <1>1, <1>6
  <2>2. Reads(5 + i)
    BY <1>6, <2>1
  <2> QED BY <1>2, <2>1, <2>2 DEF ReadsParameter, Split
<1> HIDE DEF n
<1>11. StoppedAt(DeserializeThrows(m, q), r, q, n)
  BY <1>7, <1>9, <1>10 DEF StoppedAt
<1> QED BY <1>8, <1>11

(* What IsValidMessage and deserialize check of a request are the same.    *)
LEMMA RequestAccepted ==
  ASSUME NEW r, WellFormed(r), NEW m, m = SerializeRequest(r)
  PROVE  /\ IsValidMessage(m) <=> RequestReads(m)
         /\ RequestReads(m) <=>
              \A k \in 1..Len(r.parameters) :
                Split(r, k) # <<>>
<1> DEFINE n == Len(r.parameters)
<1>1. n \in Nat
  BY ParamTextProperties
<1>2. /\ (\A types : ValidStart(m, types) <=> "REQ" \in types) /\ ExtractType(m)[2] = <<"REQ">>
      /\ ParamLines(m) = 6..5 + n
      /\ \A k \in 1..n : HasLine(m, 5 + k)
                         /\ Line(m, 5 + k) = ParamLine(r.parameters[k][1], r.parameters[k][2])
  BY RequestRead
<1>3. ValidStart(m, {"REQ"}) /\ ValidStart(m, {"REQ", "RES"})
  BY <1>2
<1>4. IsValidMessage(m) <=> RequestReads(m)
  BY <1>2, <1>3 DEF IsValidMessage, RequestReads, ValidParameters
<1>5. RequestReads(m) <=> \A k \in 6..5 + n : HasLine(m, k) /\ SeparateParamVal(Line(m, k)) # <<>>
  BY <1>2, <1>3 DEF RequestReads, ValidParameters, ReadsParameter
<1>6. /\ \A k \in 1..n : 5 + k \in 6..5 + n
      /\ \A j \in 6..5 + n : j - 5 \in 1..n /\ 5 + (j - 5) = j
  BY <1>1
<1> HIDE DEF n
<1>7. (\A k \in 6..5 + n : HasLine(m, k) /\ SeparateParamVal(Line(m, k)) # <<>>)
        <=> \A k \in 1..n : HasLine(m, 5 + k) /\ SeparateParamVal(Line(m, 5 + k)) # <<>>
  BY <1>6
<1> QED BY <1>2, <1>4, <1>5, <1>7 DEF n, Split

(* What the state of an object says of it: what a reset forgets, and that  *)
(* only a deserialize that threw tears the payload from its size.          *)
Fits(r, s) ==
  /\ s = "clean" => r.parameters = <<>>
  /\ s # "torn" => r.payload_size = Len(r.payload)

(* The types, and every object as it may be.                               *)
IInv ==
  /\ TypeOK
  /\ \A o \in Objects : WellFormed(request[o]) /\ Fits(request[o], state[o])

(* What the types of the objects say of each.                              *)
Record == [my_request_id : 0..LastId, method_name : Methods \cup {<<>>},
           parameters : Seq(Text \X Text), payload : Seq(Character), payload_size : Nat]

States == {"clean", "used", "torn"}

-----------------------------------------------------------------------------
(* The objects: what every operation keeps.                                *)

(* What the application gives is what an object may hold.                  *)
LEMMA ParamsAreParam ==
  /\ \A p \in Params : p \in Param
  /\ Seq(Param) \subseteq Seq(Text \X Text)
  /\ Methods \subseteq Text /\ Payloads \subseteq Seq(Character)
<1>1. Param \subseteq Text \X Text
  BY DEF Param
<1> QED BY <1>1, SeqMonotonic, MessageAssumption DEF Param

(* So is nothing.                                                          *)
LEMMA EmptyText ==
  /\ <<>> \in Text /\ <<>> \in Seq(Param) /\ <<>> \in Seq(Text \X Text) /\ <<>> \in Seq(Character)
  /\ Len(<<>>) = 0 /\ MaxText \in Nat /\ MaxParams \in Nat
<1>1. \A S : <<>> \in Seq(S) OBVIOUS
<1>2. Len(<<>>) = 0 OBVIOUS
<1> HIDE DEF Param
<1> QED BY <1>1, <1>2, MessageAssumption DEF Text

(* An object that was constructed or reset may be as it is.                *)
LEMMA BlankWellFormed ==
  ASSUME NEW id \in 0..LastId
  PROVE  /\ WellFormed([Blank EXCEPT !.my_request_id = id])
         /\ [Blank EXCEPT !.my_request_id = id] \in Record
         /\ \A s : Fits([Blank EXCEPT !.my_request_id = id], s)
<1> DEFINE none == <<>>
           r == [Blank EXCEPT !.my_request_id = id]
<1>1. r = [my_request_id |-> id, method_name |-> none, parameters |-> none, payload |-> none,
           payload_size |-> 0]
  BY DEF Blank
<1>2. /\ none \in Text /\ none \in Seq(Param) /\ none \in Seq(Text \X Text) /\ none \in Seq(Character)
      /\ Len(none) = 0 /\ MaxText \in Nat /\ MaxParams \in Nat
  BY EmptyText
<1>3. none \in Methods \cup {<<>>} /\ r.parameters = <<>>
  BY <1>1
<1> HIDE DEF none, r
<1>4. r \in Record
  BY <1>1, <1>2, <1>3 DEF Record
<1>5. r.my_request_id = id /\ r.method_name = none /\ r.parameters = none /\ r.payload = none
      /\ r.payload_size = 0
  BY <1>1
<1>6. WellFormed(r)
  BY <1>2, <1>5 DEF WellFormed
<1>7. \A s : Fits(r, s)
  BY <1>2, <1>3, <1>5 DEF Fits
<1> QED BY <1>4, <1>6, <1>7 DEF r

(* So may one that draws no id.                                            *)
LEMMA BlankItself ==
  WellFormed(Blank) /\ Blank \in Record /\ \A s : Fits(Blank, s)
<1>1. 0 \in 0..LastId BY MessageAssumption
<1>2. [Blank EXCEPT !.my_request_id = 0] = Blank BY DEF Blank
<1> QED BY <1>1, <1>2, BlankWellFormed

(* An object that holds only what it may, and of the right types.          *)
Proper(r) == r \in Record /\ WellFormed(r)

(* setMethod keeps an object proper.                                       *)
LEMMA MethodKept ==
  ASSUME NEW r, Proper(r), NEW method \in Methods
  PROVE  /\ Proper([r EXCEPT !.method_name = method])
         /\ \A s : Fits(r, s) => Fits([r EXCEPT !.method_name = method], s)
BY MessageAssumption DEF Proper, Record, WellFormed, Fits

(* So does any change of the parameters to others that it may hold.        *)
LEMMA ParametersKept ==
  ASSUME NEW r, Proper(r), NEW ps \in Seq(Param), Len(ps) <= MaxParams
  PROVE  /\ Proper([r EXCEPT !.parameters = ps])
         /\ \A s, t : /\ Fits(r, s) /\ (s = "torn" => t = "torn") /\ (t = "clean" => ps = <<>>)
                     => Fits([r EXCEPT !.parameters = ps], t)
<1>1. ps \in Seq(Text \X Text)
  BY ParamsAreParam
<1>2. Proper([r EXCEPT !.parameters = ps])
  BY <1>1 DEF Proper, Record, WellFormed
<1>3. /\ [r EXCEPT !.parameters = ps].parameters = ps
      /\ [r EXCEPT !.parameters = ps].payload = r.payload
      /\ [r EXCEPT !.parameters = ps].payload_size = r.payload_size
  BY DEF Proper, Record
<1> QED BY <1>2, <1>3 DEF Fits

(* So does setPayload, which stores the size with the payload.             *)
LEMMA PayloadKept ==
  ASSUME NEW r, Proper(r), NEW payload \in Payloads
  PROVE  /\ Proper([r EXCEPT !.payload = payload, !.payload_size = Len(payload)])
         /\ \A s, t : /\ Fits(r, s) /\ (t = "clean" => s = "clean")
                     => Fits([r EXCEPT !.payload = payload, !.payload_size = Len(payload)], t)
<1>1. payload \in Seq(Character) /\ Len(payload) <= MaxText /\ Len(payload) \in Nat
  BY MessageAssumption
<1> QED BY <1>1 DEF Proper, Record, WellFormed, Fits

(* Without one of its elements a sequence is shorter by one.               *)
LEMMA Removed ==
  ASSUME NEW S, NEW s \in Seq(S), NEW at \in 1..Len(s)
  PROVE  RemoveAt(s, at) \in Seq(S) /\ Len(RemoveAt(s, at)) = Len(s) - 1
<1> DEFINE a == SubSeq(s, 1, at - 1)
           b == SubSeq(s, at + 1, Len(s))
           n == Len(s)
<1>1. n \in Nat /\ at \in Nat /\ at <= n /\ 1 \in Nat \ {0} /\ at - 1 \in Nat /\ 1 <= (at - 1) + 1
      /\ at - 1 <= n /\ at + 1 \in Nat \ {0} /\ at + 1 <= n + 1 /\ n <= n
  OBVIOUS
<1>2. a \in Seq(S) /\ Len(a) = (at - 1) - 1 + 1
  BY <1>1, Piece
<1>3. b \in Seq(S) /\ Len(b) = n - (at + 1) + 1
  BY <1>1, Piece
<1>4. RemoveAt(s, at) = a \o b
  BY DEF RemoveAt
<1> HIDE DEF a, b
<1>5. a \o b \in Seq(S) /\ Len(a \o b) = Len(a) + Len(b)
  <2>1. a \in Seq(S) BY <1>2
  <2>2. b \in Seq(S) BY <1>3
  <2> QED BY ONLY <2>1, <2>2, Joined
<1> HIDE DEF n
<1>6. Len(a) + Len(b) = n - 1
  BY ONLY <1>1, <1>2, <1>3
<1> QED BY <1>4, <1>5, <1>6 DEF n

(* Reading splits a parameter elsewhere, and keeps its size.               *)
LEMMA ReadParameters ==
  ASSUME NEW r, WellFormed(r),
         NEW n \in 0..Len(r.parameters), \A k \in 1..n : Split(r, k) # <<>>
  PROVE  [i \in 1..n |-> Split(r, i)] \in Seq(Param)
<1> DEFINE F(i) == Split(r, i)
<1>1. n \in Nat /\ \A i \in 1..n : i \in 1..Len(r.parameters)
  BY ParamTextProperties
<1>2. ASSUME NEW i \in 1..n PROVE F(i) \in Param
  <2> DEFINE a == r.parameters[i][1]
             b == r.parameters[i][2]
             s == ParamLine(a, b)
  <2>1. r.parameters[i] \in Text \X Text /\ ParamSize(r.parameters[i]) \in 0..MaxText + 1
    BY <1>1, ParamTextProperties
  <2>2. a \in Text /\ b \in Text
    BY <2>1
  <2>3. ParamSize(r.parameters[i]) = LineSize(a, b)
    BY DEF ParamSize
  <2>4. F(i) = SeparateParamVal(s) /\ SeparateParamVal(s) # <<>>
    BY DEF Split
  <2> HIDE DEF a, b, F
  <2>5. s \in Text /\ Len(s) + 1 = LineSize(a, b)
    BY <2>2, ParamLineProperties
  <2> HIDE DEF s
  <2>6. PICK c \in Text, d \in Text :
          SeparateParamVal(s) = <<c, d>> /\ Len(c) + 2 + Len(d) = Len(s)
    BY <2>4, <2>5, SeparateProperties
  <2>7. <<c, d>> \in Text \X Text /\ ParamSize(<<c, d>>) = Len(c) + 2 + Len(d) + 1
    BY DEF ParamSize, LineSize
  <2>8. ParamSize(<<c, d>>) <= MaxText + 1
    BY <2>1, <2>3, <2>5, <2>6, <2>7
  <2> QED BY <2>4, <2>6, <2>7, <2>8 DEF Param
<1> HIDE DEF F
<1>3. [i \in 1..n |-> F(i)] \in [1..n -> Param]
  BY <1>2
<1>4. [i \in 1..n |-> F(i)] \in Seq(Param)
  BY <1>1, <1>3
<1> QED BY <1>4 DEF F

(* An object into which deserialize put the first n parameters of a request*)
(* that was serialized, its id, method and size, and some payload.         *)
LEMMA Filled ==
  ASSUME NEW r, Proper(r), NEW q, Proper(q), NEW n \in 0..Len(r.parameters),
         \A k \in 1..n : Split(r, k) # <<>>,
         NEW payload \in Seq(Character), Len(payload) <= MaxText,
         NEW d, d = [my_request_id |-> r.my_request_id, method_name |-> r.method_name,
                     parameters |-> q.parameters \o [i \in 1..n |-> Split(r, i)],
                     payload |-> payload, payload_size |-> r.payload_size],
         Len(d.parameters) <= MaxParams
  PROVE  Proper(d)
<1> DEFINE ps == [i \in 1..n |-> Split(r, i)]
           all == q.parameters \o ps
<1>1. WellFormed(r) /\ WellFormed(q) /\ r \in Record
  BY DEF Proper
<1>2. ps \in Seq(Param)
  BY <1>1, ReadParameters
<1>3. q.parameters \in Seq(Param)
  BY <1>1 DEF WellFormed
<1>4. d = [my_request_id |-> r.my_request_id, method_name |-> r.method_name, parameters |-> all,
           payload |-> payload, payload_size |-> r.payload_size]
  OBVIOUS
<1> HIDE DEF ps
<1>5. all \in Seq(Param)
  BY <1>2, <1>3
<1>6. all \in Seq(Text \X Text)
  BY <1>5, ParamsAreParam
<1> HIDE DEF all
<1>7. /\ r.my_request_id \in 0..LastId /\ r.method_name \in Methods \cup {<<>>}
      /\ r.payload_size \in Nat
  BY <1>1 DEF Record
<1>8. d \in Record
  BY ONLY <1>4, <1>6, <1>7, payload \in Seq(Character) DEF Record
<1>9. /\ d.my_request_id = r.my_request_id /\ d.method_name = r.method_name
      /\ d.parameters = all /\ d.payload = payload /\ d.payload_size = r.payload_size
  BY <1>4
<1>10. WellFormed(d)
  BY <1>1, <1>5, <1>9 DEF WellFormed
<1> QED BY <1>8, <1>10 DEF Proper

(* An object that is filled by deserialize is proper: it has what was in   *)
(* the object that was serialized, and the parameters as they were split.  *)
LEMMA Received ==
  ASSUME NEW r, Proper(r), NEW q, Proper(q), NEW m, m = SerializeRequest(r), RequestReads(m),
         NEW d, d = DeserializeRequest(m, q), Len(d.parameters) <= MaxParams
  PROVE  Proper(d) /\ Fits(d, "used")
<1> DEFINE n == Len(r.parameters)
           b == PayloadBytes(r)
<1>1. WellFormed(r)
  BY DEF Proper
<1>2. d = [my_request_id |-> r.my_request_id, method_name |-> r.method_name,
           parameters |-> q.parameters \o [i \in 1..n |-> Split(r, i)],
           payload |-> b, payload_size |-> r.payload_size]
  BY <1>1, DeserializedRequest
<1>3. b \in Seq(Character) /\ Len(b) = r.payload_size /\ r.payload_size <= MaxText
  BY <1>1, PayloadBytesProperties DEF WellFormed
<1>4. n \in 0..n /\ \A k \in 1..n : Split(r, k) # <<>>
  BY <1>1, ParamTextProperties, RequestAccepted
<1> HIDE DEF b
<1>5. Len(b) <= MaxText
  BY <1>3
<1>6. Proper(d)
  BY <1>2, <1>3, <1>4, <1>5, Filled
<1>7. d.payload = b /\ d.payload_size = r.payload_size
  BY <1>2
<1>8. Fits(d, "used")
  BY <1>3, <1>7 DEF Fits
<1> QED BY <1>6, <1>8

(* So is one that a deserialize which threw left, but for its payload.     *)
LEMMA ReceivedInPart ==
  ASSUME NEW r, Proper(r), NEW q, Proper(q), NEW m, m = SerializeRequest(r), ~ValidParameters(m),
         NEW d, d = DeserializeThrows(m, q), Len(d.parameters) <= MaxParams
  PROVE  Proper(d) /\ Fits(d, "torn")
<1>1. WellFormed(r) /\ q.payload \in Seq(Character) /\ Len(q.payload) <= MaxText
  BY DEF Proper, WellFormed
<1>2. PICK n \in 0..Len(r.parameters) : StoppedAt(d, r, q, n)
  BY <1>1, DeserializeStops
<1>3. \A k \in 1..n : Split(r, k) # <<>>
  BY <1>2 DEF StoppedAt
<1>4. d = [my_request_id |-> r.my_request_id, method_name |-> r.method_name,
           parameters |-> q.parameters \o [i \in 1..n |-> Split(r, i)],
           payload |-> q.payload, payload_size |-> r.payload_size]
  BY <1>2 DEF StoppedAt
<1>5. q.payload \in Seq(Character)
  BY <1>1
<1>6. Len(q.payload) <= MaxText
  BY <1>1
<1>7. Proper(d)
  BY <1>3, <1>4, <1>5, <1>6, Filled
<1> QED BY <1>7 DEF Fits

-----------------------------------------------------------------------------
(* The inductive invariant.                                                *)

(* The invariant, object by object.                                        *)
LEMMA InvariantParts ==
  IInv <=> /\ req_id_counter \in FirstId..LastId + 1
           /\ DOMAIN request = Objects /\ request = [o \in Objects |-> request[o]]
           /\ \A o \in Objects : Proper(request[o]) /\ Fits(request[o], state[o])
           /\ state \in [Objects -> States]
<1>1. request \in [Objects -> Record] <=>
        /\ DOMAIN request = Objects /\ request = [o \in Objects |-> request[o]]
        /\ \A o \in Objects : request[o] \in Record
  <2> HIDE DEF Record
  <2> QED OBVIOUS
<1> QED BY <1>1 DEF IInv, TypeOK, Proper, Record, States

(* An action that gives one object a proper value keeps the invariant.     *)
LEMMA BecomesKeeps ==
  ASSUME IInv, NEW o \in Objects, NEW r, Proper(r), NEW s \in States, Fits(r, s),
         Becomes(o, r, s), req_id_counter' \in FirstId..LastId + 1
  PROVE  IInv'
<1>1. /\ DOMAIN request = Objects
      /\ \A p \in Objects : Proper(request[p]) /\ Fits(request[p], state[p])
      /\ state \in [Objects -> States]
  BY InvariantParts
<1>2. request' = [request EXCEPT ![o] = r] /\ state' = [state EXCEPT ![o] = s]
  BY DEF Becomes
<1>3. ASSUME NEW p \in Objects
      PROVE  Proper(request'[p]) /\ Fits(request'[p], state'[p])
  <2>1. CASE p = o BY <1>1, <1>2, <2>1
  <2>2. CASE p # o BY <1>1, <1>2, <2>2
  <2> QED BY <2>1, <2>2
<1>4. DOMAIN request' = Objects /\ request' = [p \in Objects |-> request'[p]]
  BY <1>1, <1>2
<1>5. state' \in [Objects -> States]
  BY <1>1, <1>2
<1>6. /\ request' \in [Objects -> Record] /\ \A p \in Objects : WellFormed(request'[p])
  <2>1. \A p \in Objects : request'[p] \in Record /\ WellFormed(request'[p])
    BY <1>3 DEF Proper
  <2> HIDE DEF Record
  <2> QED BY <1>4, <2>1
<1> QED BY <1>3, <1>5, <1>6 DEF IInv, TypeOK, Record, States

(* The first objects are blank.                                            *)
LEMMA Initially == Init => IInv
<1> SUFFICES ASSUME Init PROVE IInv
  OBVIOUS
<1>1. WellFormed(Blank) /\ Blank \in Record /\ \A s : Fits(Blank, s)
  BY BlankItself
<1>2. request = [o \in Objects |-> Blank] /\ state = [o \in Objects |-> "clean"]
      /\ req_id_counter = FirstId
  BY DEF Init
<1>3. req_id_counter \in FirstId..LastId + 1
  BY <1>2, MessageAssumption
<1>4. request \in [Objects -> Record] /\ state \in [Objects -> States]
  BY <1>1, <1>2 DEF States
<1>5. \A o \in Objects : request[o] = Blank
  BY <1>2
<1> QED BY <1>1, <1>3, <1>4, <1>5 DEF IInv, TypeOK, Record, States

(* No operation leaves an object that its next serialize could not write.  *)
LEMMA Inductive == IInv /\ [Next]_vars => IInv'
<1> SUFFICES ASSUME IInv, [Next]_vars PROVE IInv'
  OBVIOUS
<1>1. /\ req_id_counter \in FirstId..LastId + 1 /\ DOMAIN request = Objects
      /\ \A o \in Objects : Proper(request[o]) /\ Fits(request[o], state[o])
      /\ state \in [Objects -> States]
  BY InvariantParts
<1>2. \A o \in Objects : request[o].my_request_id \in 0..LastId
                         /\ request[o].parameters \in Seq(Param)
                         /\ Len(request[o].parameters) <= MaxParams
  BY <1>1 DEF Proper, WellFormed
<1>3. FirstId \in Nat \ {0} /\ LastId \in Nat
  BY MessageAssumption
<1> DEFINE new == "clean"
           used == "used"
           torn == "torn"
<1>0. new \in States /\ used \in States /\ torn \in States
  BY DEF States
<1>4. ASSUME NEW o \in Objects, Construct(o) PROVE IInv'
  <2> DEFINE r == [Blank EXCEPT !.my_request_id = req_id_counter]
  <2>1. req_id_counter \in 0..LastId /\ req_id_counter' \in FirstId..LastId + 1
        /\ Becomes(o, r, new)
    <3>1. req_id_counter <= LastId /\ req_id_counter' = req_id_counter + 1 /\ Becomes(o, r, new)
      BY <1>4 DEF Construct
    <3> HIDE DEF r
    <3>2. req_id_counter \in 0..LastId /\ req_id_counter' \in FirstId..LastId + 1
      <4>1. req_id_counter <= LastId /\ req_id_counter' = req_id_counter + 1
        BY <3>1
      <4>2. req_id_counter \in FirstId..LastId + 1
        BY <1>1
      <4> QED BY ONLY <4>1, <4>2, <1>3
    <3> QED BY <3>1, <3>2
  <2>2. Proper(r) /\ Fits(r, new)
    BY <2>1, BlankWellFormed DEF Proper
  <2> HIDE DEF r, new
  <2> QED BY <1>0, <2>1, <2>2, BecomesKeeps
<1>5. ASSUME NEW o \in Objects, Reset(o) PROVE IInv'
  <2> DEFINE id == request[o].my_request_id
             r == [Blank EXCEPT !.my_request_id = id]
  <2>1. id \in 0..LastId /\ req_id_counter' \in FirstId..LastId + 1 /\ Becomes(o, r, new)
    BY <1>1, <1>2, <1>5 DEF Reset
  <2> HIDE DEF id
  <2>2. Proper(r) /\ Fits(r, new)
    BY <2>1, BlankWellFormed DEF Proper
  <2> HIDE DEF r, new
  <2> QED BY <1>0, <2>1, <2>2, BecomesKeeps
<1>6. ASSUME NEW o \in Objects, NEW method \in Methods, SetMethod(o, method) PROVE IInv'
  <2> DEFINE old == request[o]
             r == [old EXCEPT !.method_name = method]
             c == state[o]
  <2>1. req_id_counter' \in FirstId..LastId + 1 /\ Becomes(o, r, c)
    BY <1>1, <1>6 DEF SetMethod
  <2>2. Proper(old) /\ c \in States /\ Fits(old, c)
    BY <1>1
  <2> HIDE DEF old, c
  <2>3. Proper(r) /\ Fits(r, c)
    BY <2>2, MethodKept
  <2> HIDE DEF r
  <2> QED BY <2>1, <2>2, <2>3, BecomesKeeps
<1>7. ASSUME NEW o \in Objects, NEW ps \in Seq(Param), Len(ps) <= MaxParams, NEW c \in States,
             state[o] = torn => c = torn, c # new, req_id_counter' = req_id_counter,
             Becomes(o, [request[o] EXCEPT !.parameters = ps], c)
      PROVE  IInv'
  <2> DEFINE old == request[o]
             r == [old EXCEPT !.parameters = ps]
  <2>1. req_id_counter' \in FirstId..LastId + 1 /\ Becomes(o, r, c)
    BY <1>1, <1>7
  <2>2. Proper(old) /\ Fits(old, state[o])
    BY <1>1
  <2> HIDE DEF old
  <2>3. Proper(r) /\ Fits(r, c)
    BY <1>7, <2>2, ParametersKept
  <2> HIDE DEF r
  <2> QED BY <1>7, <2>1, <2>3, BecomesKeeps
<1>8. ASSUME NEW o \in Objects, NEW param \in Params, AddParam(o, param) PROVE IInv'
  <2> DEFINE old == request[o].parameters
             ps == Append(old, param)
             c == Used(o)
  <2>1. old \in Seq(Param) /\ param \in Param /\ Len(old) < MaxParams /\ MaxParams \in Nat
    BY <1>2, <1>8, ParamsAreParam, Sizes DEF AddParam
  <2>2. Becomes(o, [request[o] EXCEPT !.parameters = ps], c) /\ req_id_counter' = req_id_counter
    BY <1>8 DEF AddParam
  <2> HIDE DEF old
  <2>3. ps \in Seq(Param) /\ Len(ps) <= MaxParams
    BY <2>1
  <2>4. c \in States /\ c # new /\ (state[o] = torn => c = torn)
    BY <1>0 DEF Used
  <2> HIDE DEF ps, c, new, torn
  <2> QED BY <1>7, <2>2, <2>3, <2>4
<1>9. ASSUME NEW o \in Objects, NEW from \in Objects, SetParams(o, request[from].parameters)
      PROVE  IInv'
  <2> DEFINE ps == request[from].parameters
             c == Used(o)
  <2>1. ps \in Seq(Param) /\ Len(ps) <= MaxParams
    BY <1>2
  <2>2. Becomes(o, [request[o] EXCEPT !.parameters = ps], c) /\ req_id_counter' = req_id_counter
    BY <1>9 DEF SetParams
  <2>3. c \in States /\ c # new /\ (state[o] = torn => c = torn)
    BY <1>0 DEF Used
  <2> HIDE DEF ps, c, new, torn
  <2> QED BY <1>7, <2>1, <2>2, <2>3
<1>10. ASSUME NEW o \in Objects, NEW name, RemoveParam(o, name) PROVE IInv'
  <2> DEFINE old == request[o].parameters
             I == {i \in 1..Len(old) : old[i][1] = name}
             at == SelectInSeq(old, LAMBDA p : p[1] = name)
             ps == RemoveAt(old, at)
             c == state[o]
  <2>1. old \in Seq(Param) /\ Len(old) <= MaxParams /\ c \in States /\ (c = new => Len(old) = 0)
        /\ MaxParams \in Nat
    BY <1>1, <1>2, Sizes, EmptyText DEF Fits
  <2>2. at # 0 /\ Becomes(o, [request[o] EXCEPT !.parameters = ps], c)
        /\ req_id_counter' = req_id_counter
    BY <1>10 DEF RemoveParam
  <2> HIDE DEF old
  <2>3. at = IF I # {} THEN Min(I) ELSE 0
    BY DEF SelectInSeq
  <2>4. I # {} /\ at = Min(I)
    BY <2>2, <2>3
  <2>5. PICK i \in I : \A j \in I : i <= j
    <3>1. I \subseteq Nat /\ I # {} BY <2>4
    <3> HIDE DEF I
    <3> QED BY <3>1, NatMin
  <2>6. at = i
    <3>1. Min(I) \in I /\ \A j \in I : Min(I) <= j
      <4>1. \E k \in I : \A j \in I : k <= j BY <2>5
      <4> HIDE DEF I
      <4> QED BY <4>1 DEF Min
    <3> HIDE DEF at
    <3>2. i \in Nat /\ Min(I) \in Nat BY <3>1
    <3>3. Min(I) <= i /\ i <= Min(I) BY <3>1, <2>5
    <3> HIDE DEF I
    <3> QED BY <2>4, <3>2, <3>3
  <2>7. at \in 1..Len(old)
    <3> HIDE DEF at
    <3> QED BY <2>5, <2>6
  <2> HIDE DEF at, I
  <2>8. ps \in Seq(Param) /\ Len(ps) = Len(old) - 1
    <3>1. old \in Seq(Param) BY <2>1
    <3> QED BY ONLY <3>1, <2>7, Removed DEF ps
  <2>9. Len(old) \in Nat /\ Len(old) >= 1
    BY <2>1, <2>7
  <2>10. Len(ps) <= MaxParams
    <3> HIDE DEF ps
    <3> QED BY <2>1, <2>8, <2>9
  <2>11. c # new /\ (state[o] = torn => c = torn)
    BY <2>1, <2>9
  <2> HIDE DEF ps, c, new, torn
  <2> QED BY <1>7, <2>1, <2>2, <2>8, <2>10, <2>11
<1>11. ASSUME NEW o \in Objects, NEW payload \in Payloads, SetPayload(o, payload) PROVE IInv'
  <2> DEFINE old == request[o]
             r == [old EXCEPT !.payload = payload, !.payload_size = Len(payload)]
             c == IF state[o] = "torn" THEN "used" ELSE state[o]
  <2>1. req_id_counter' \in FirstId..LastId + 1 /\ Becomes(o, r, c)
    BY <1>1, <1>11 DEF SetPayload
  <2>2. Proper(old) /\ c \in States /\ Fits(old, state[o]) /\ (c = "clean" => state[o] = "clean")
    BY <1>0, <1>1
  <2> HIDE DEF old, c
  <2>3. Proper(r) /\ Fits(r, c)
    BY <2>2, PayloadKept
  <2> HIDE DEF r
  <2> QED BY <2>1, <2>2, <2>3, BecomesKeeps
<1>12. ASSUME NEW o \in Objects, NEW from \in Objects, Copy(o, from) PROVE IInv'
  <2> DEFINE r == request[from]
             c == state[from]
  <2>1. req_id_counter' \in FirstId..LastId + 1 /\ Becomes(o, r, c)
    BY <1>1, <1>12 DEF Copy
  <2>2. Proper(r) /\ c \in States /\ Fits(r, c)
    BY <1>1
  <2> HIDE DEF r, c
  <2> QED BY <2>1, <2>2, BecomesKeeps
<1>13. ASSUME NEW o \in Objects, NEW from \in Objects, Move(o, from) PROVE IInv'
  <2>1. /\ o # from /\ req_id_counter' = req_id_counter
        /\ request' = [request EXCEPT ![o] = request[from], ![from] = Blank]
        /\ state' = [state EXCEPT ![o] = state[from], ![from] = "clean"]
    BY <1>13 DEF Move
  <2>2. Proper(Blank) /\ Fits(Blank, "clean")
    BY BlankItself DEF Proper
  <2>3. ASSUME NEW p \in Objects
        PROVE  Proper(request'[p]) /\  Fits(request'[p], state'[p])
    <3>1. CASE p = from BY <1>1, <2>1, <2>2, <3>1
    <3>2. CASE p = o /\ p # from BY <1>1, <2>1, <3>2
    <3>3. CASE p # o /\ p # from BY <1>1, <2>1, <3>3
    <3> QED BY <3>1, <3>2, <3>3
  <2>4. DOMAIN request' = Objects /\ request' = [p \in Objects |-> request'[p]]
        /\ state' \in [Objects -> States]
    BY <1>0, <1>1, <2>1
  <2>5. /\ request' \in [Objects -> Record] /\ \A p \in Objects : WellFormed(request'[p])
    <3>1. \A p \in Objects : request'[p] \in Record /\ WellFormed(request'[p])
      BY <2>3 DEF Proper
    <3> HIDE DEF Record
    <3> QED BY <2>4, <3>1
  <2>6. req_id_counter' \in FirstId..LastId + 1
    BY <1>1, <2>1
  <2> QED BY <2>3, <2>4, <2>5, <2>6 DEF IInv, TypeOK, Record, States
<1>14. ASSUME NEW o \in Objects, NEW from \in Objects, Receive(o, from) PROVE IInv'
  <2> DEFINE r == request[from]
             m == SerializeRequest(r)
  <2>1. RequestReads(m) /\ req_id_counter' = req_id_counter
    BY <1>14 DEF Receive
  <2>2. PICK q \in {Blank, request[o]} :
          /\ Len(DeserializeRequest(m, q).parameters) <= MaxParams
          /\ Becomes(o, DeserializeRequest(m, q), used)
    BY <1>14 DEF Receive
  <2>3. Proper(q)
    BY <1>1, <2>2, BlankItself DEF Proper
  <2>4. Proper(r)
    BY <1>1
  <2> DEFINE d == DeserializeRequest(m, q)
  <2>5. m = SerializeRequest(r)
    OBVIOUS
  <2> HIDE DEF r, m
  <2>6. d = DeserializeRequest(m, q) /\ Len(d.parameters) <= MaxParams /\ Becomes(o, d, used)
    BY <2>2
  <2> HIDE DEF d
  <2>7. Proper(d) /\ Fits(d, used)
    BY <2>1, <2>3, <2>4, <2>5, <2>6, Received
  <2>8. req_id_counter' \in FirstId..LastId + 1
    BY <1>1, <2>1
  <2> HIDE DEF used
  <2> QED BY <1>0, <2>6, <2>7, <2>8, BecomesKeeps
<1>17. ASSUME NEW o \in Objects, NEW from \in Objects, ReceiveThrows(o, from) PROVE IInv'
  <2> DEFINE r == request[from]
             q == request[o]
             m == SerializeRequest(r)
             d == DeserializeThrows(m, q)
  <2>1. /\ ~ValidParameters(m) /\ req_id_counter' = req_id_counter
        /\ Len(d.parameters) <= MaxParams /\ Becomes(o, d, torn)
    BY <1>17 DEF ReceiveThrows
  <2>2. Proper(q) /\ Proper(r)
    BY <1>1
  <2>3. m = SerializeRequest(r) /\ d = DeserializeThrows(m, q)
    OBVIOUS
  <2> HIDE DEF r, q, m, d
  <2>4. Proper(d) /\ Fits(d, torn)
    BY <2>1, <2>2, <2>3, ReceivedInPart
  <2>5. req_id_counter' \in FirstId..LastId + 1
    BY <1>1, <2>1
  <2> HIDE DEF torn
  <2> QED BY <1>0, <2>1, <2>4, <2>5, BecomesKeeps
<1>15. CASE UNCHANGED vars
  BY <1>15 DEF vars, IInv, TypeOK, States
<1>16. CASE Next
  BY <1>16, <1>4, <1>5, <1>6, <1>8, <1>9, <1>10, <1>11, <1>12, <1>13, <1>14, <1>17 DEF Next
<1> QED BY <1>15, <1>16

(* The invariant holds always.                                             *)
LEMMA Invariance == Spec => []IInv
<1>1. Init => IInv
  BY Initially
<1>2. IInv /\ [Next]_vars => IInv'
  BY Inductive
<1> QED BY <1>1, <1>2, PTL DEF Spec

-----------------------------------------------------------------------------
(* The theorems about requests.                                            *)

(* Every variable keeps its type: also an object that a message was read   *)
(* into, or halfway, holds text and a method that the application gave.    *)
THEOREM TypeCorrect == Spec => []TypeOK
<1>1. IInv => TypeOK
  BY DEF IInv
<1> QED BY <1>1, Invariance, PTL

(* serialize() allocates what it writes and tells the receiver that size,  *)
(* whatever was done to the object before; and it copies a payload no      *)
(* longer than the one it has, unless reading into the object threw:       *)
(* requests of any size, with any number of parameters.                    *)
THEOREM BuffersNotOverrun == Spec => []BuffersFit
<1>1. IInv => BuffersFit
  <2> SUFFICES ASSUME IInv, NEW o \in Objects
               PROVE  LET m == SerializeRequest(request[o])
                      IN  /\ state[o] # "torn" => request[o].payload_size = Len(request[o].payload)
                          /\ Len(m) = RequestHeaderSize(request[o]) + request[o].payload_size
                          /\ GetSizeFromPreamble(m) = Len(m)
    BY DEF BuffersFit
  <2> DEFINE r == request[o]
             m == SerializeRequest(r)
  <2>1. WellFormed(r) /\ Fits(r, state[o])
    BY DEF IInv
  <2>2. m = SerializeRequest(r)
    OBVIOUS
  <2> HIDE DEF r, m
  <2>3. Len(m) = RequestHeaderSize(r) + r.payload_size /\ GetSizeFromPreamble(m) = Len(m)
    BY <2>1, <2>2, RequestRead
  <2>4. state[o] # "torn" => r.payload_size = Len(r.payload)
    BY <2>1 DEF Fits
  <2> QED BY <2>3, <2>4 DEF r, m
<1> QED BY <1>1, Invariance, PTL

(* A request that serialize() wrote and is_valid_message accepts is read   *)
(* without an exception, with its id, its method and its payload.          *)
THEOREM AcceptedIsRead == Spec => []AcceptedParses
<1>1. IInv => AcceptedParses
  <2> SUFFICES ASSUME IInv, NEW o \in Objects
               PROVE  LET m == SerializeRequest(request[o])
                          read == DeserializeRequest(m, Blank)
                      IN  IsValidMessage(m) => /\ RequestReads(m)
                                               /\ read.my_request_id = request[o].my_request_id
                                               /\ read.method_name = request[o].method_name
                                               /\ read.payload = PayloadBytes(request[o])
    BY DEF AcceptedParses
  <2> DEFINE r == request[o]
             m == SerializeRequest(r)
             d == DeserializeRequest(m, Blank)
  <2>1. WellFormed(r)
    BY DEF IInv
  <2>2. m = SerializeRequest(r)
    OBVIOUS
  <2> HIDE DEF r, m
  <2>3. IsValidMessage(m) <=> RequestReads(m)
    BY <2>1, <2>2, RequestAccepted
  <2>4. d.my_request_id = r.my_request_id /\ d.method_name = r.method_name
        /\ d.payload = PayloadBytes(r)
    <3>1. /\ NumberIn(m, 3, "RI") = r.my_request_id /\ Line(m, 5) = r.method_name
          /\ PayloadOf(m) = PayloadBytes(r)
      BY <2>1, <2>2, RequestRead
    <3> QED BY <3>1 DEF DeserializeRequest
  <2> HIDE DEF d
  <2> QED BY <2>3, <2>4 DEF d, r, m
<1> QED BY <1>1, Invariance, PTL

(* Plain parameters are read as they were written.                         *)
LEMMA PlainRead ==
  ASSUME NEW r, WellFormed(r), Plain(r)
  PROVE  /\ \A k \in 1..Len(r.parameters) :
              Split(r, k) # <<>>
         /\ [i \in 1..Len(r.parameters) |-> Split(r, i)] = r.parameters
<1> DEFINE p == r.parameters
           n == Len(p)
<1>1. p \in Seq(Param) /\ DOMAIN p = 1..n /\ n \in Nat
  BY DEF WellFormed
<1>2. ASSUME NEW k \in 1..n
      PROVE  /\ SeparateParamVal(ParamLine(p[k][1], p[k][2])) = p[k]
             /\ p[k] # <<>>
  <2> DEFINE a == p[k][1]
             b == p[k][2]
  <2>1. p[k] \in Text \X Text
    BY ParamTextProperties
  <2>2. a \in Text /\ b \in Text /\ p[k] = <<a, b>>
    BY <2>1
  <2>3. PlainParam(p[k])
    BY <1>1 DEF Plain
  <2>4. a # <<>> /\ b # <<>> /\ ToSet(a) \cap Separators = {}
    BY <2>3 DEF PlainParam
  <2> HIDE DEF a, b, p
  <2>5. \A i \in 1..Len(a) : a[i] \notin Separators
    BY <2>2, <2>4 DEF ToSet, Text
  <2>6. SeparateParamVal(ParamLine(a, b)) = <<a, b>>
    BY <2>2, <2>4, <2>5, SeparateParamLine
  <2>7. <<a, b>> # <<>>
    OBVIOUS
  <2> QED BY <2>2, <2>6, <2>7 DEF a, b
<1>3. p = [i \in 1..n |-> p[i]]
  BY <1>1
<1> HIDE DEF n
<1>4. [i \in 1..n |-> SeparateParamVal(ParamLine(p[i][1], p[i][2]))] = p
  <2> HIDE DEF p
  <2> QED BY <1>2, <1>3
<1>5. \A k \in 1..n : SeparateParamVal(ParamLine(p[k][1], p[k][2])) # <<>>
  BY <1>2
<1> QED BY <1>4, <1>5 DEF n, Split

(* A request whose parameters can be told apart is accepted and read into  *)
(* a clean object as it was sent.                                          *)
THEOREM SentIsRead == Spec => []RoundTrip
<1>1. IInv => RoundTrip
  <2> SUFFICES ASSUME IInv, NEW o \in Objects, NEW q \in Objects, Plain(request[o]),
                      state[o] # "torn", state[q] = "clean"
               PROVE  LET m == SerializeRequest(request[o])
                      IN  /\ IsValidMessage(m) /\ RequestReads(m)
                          /\ DeserializeRequest(m, request[q]) = request[o]
    BY DEF RoundTrip
  <2> DEFINE r == request[o]
             old == request[q]
             m == SerializeRequest(r)
             p == r.parameters
             none == <<>>
  <2>1. WellFormed(r) /\ Plain(r) /\ old.parameters = none /\ r.payload_size = Len(r.payload)
    BY DEF IInv, Fits
  <2>2. r \in [my_request_id : 0..LastId, method_name : Methods \cup {<<>>},
               parameters : Seq(Text \X Text), payload : Seq(Character), payload_size : Nat]
    BY DEF IInv, TypeOK
  <2>3. m = SerializeRequest(r)
    OBVIOUS
  <2> HIDE DEF r, m, old
  <2>4. r = [my_request_id |-> r.my_request_id, method_name |-> r.method_name,
             parameters |-> p, payload |-> r.payload, payload_size |-> r.payload_size]
    BY <2>2
  <2>5. RequestReads(m) /\ IsValidMessage(m)
    BY <2>1, <2>3, PlainRead, RequestAccepted
  <2>11. PayloadBytes(r) = r.payload
    BY <2>1, PayloadBytesProperties DEF WellFormed
  <2>6. DeserializeRequest(m, old) =
          [my_request_id |-> r.my_request_id, method_name |-> r.method_name,
           parameters |-> old.parameters \o p,
           payload |-> r.payload, payload_size |-> r.payload_size]
    <3> DEFINE read == [i \in 1..Len(r.parameters) |-> Split(r, i)]
    <3>1. DeserializeRequest(m, old) =
            [my_request_id |-> r.my_request_id, method_name |-> r.method_name,
             parameters |-> old.parameters \o read,
             payload |-> r.payload, payload_size |-> r.payload_size]
      BY <2>1, <2>3, <2>11, DeserializedRequest
    <3>2. read = p
      BY <2>1, PlainRead
    <3> HIDE DEF read, p
    <3> QED BY ONLY <3>1, <3>2
  <2>7. p \in Seq(Param)
    BY <2>1 DEF WellFormed
  <2> HIDE DEF p
  <2>8. none \o p = p
    BY <2>7
  <2>9. old.parameters \o p = p
    BY <2>1, <2>8
  <2>10. DeserializeRequest(m, old) = r
    BY <2>4, <2>6, <2>9
  <2> QED BY <2>5, <2>10 DEF r, m, old
<1> QED BY <1>1, Invariance, PTL

-----------------------------------------------------------------------------
(* Responses.                                                              *)

(* All lines of a response.                                                *)
ResponseLines(r) ==
  Append(CommonLines("RES", r.request_id, r.payload_size),
         ParamLine(<<"STATUS">>, Number(r.status_code)))

(* A response a handler may make: to a request, of a known size.           *)
Sendable(r) ==
  /\ r.request_id \in 0..LastId /\ r.status_code \in 0..Power[PreambleWidth] - 1
  /\ r.payload \in Seq(Character) /\ Len(r.payload) <= MaxText
  /\ r.payload_size = Len(r.payload)

(* Which line of a response is which.                                      *)
LEMMA ResponseLinesProperties ==
  ASSUME NEW r, Sendable(r)
  PROVE  /\ Begins(ResponseLines(r), "RES", r.request_id, r.payload_size)
         /\ Len(ResponseLines(r)) = 5
         /\ ResponseLines(r)[5] = ParamLine(<<"STATUS">>, Number(r.status_code))
         /\ r.status_code \in Nat /\ r.status_code < Power[PreambleWidth]
<1> DEFINE c == CommonLines("RES", r.request_id, r.payload_size)
           s == ParamLine(<<"STATUS">>, Number(r.status_code))
           P == Power[PreambleWidth]
           lines == Append(c, s)
<1>1. /\ r.request_id \in Nat /\ r.request_id < P /\ r.payload_size \in Nat /\ r.payload_size < P
      /\ r.status_code \in Nat /\ r.status_code < P
  <2>1. r.request_id \in 0..LastId /\ LastId \in Nat /\ LastId < P /\ P \in Nat
    BY MessageAssumption, Sizes DEF Sendable
  <2> DEFINE l == r.payload_size
             q == MaxParams * (MaxText + 1)
             t == r.status_code
  <2>2. l \in Nat /\ l <= MaxText /\ t \in 0..P - 1
    BY DEF Sendable
  <2>3. /\ MaxText \in Nat /\ PreambleWidth \in Nat /\ P \in Nat /\ q \in Nat
        /\ 4 * PreambleWidth + 20 + q + MaxText + MaxText + 2 < P
    BY Sizes
  <2> HIDE DEF l, q, P, t
  <2>4. l < P /\ t \in Nat /\ t < P
    BY <2>2, <2>3
  <2> QED BY <2>1, <2>2, <2>4 DEF l, t
<1>2. "RES" \in Keywords /\ "STATUS" \in Keywords
  BY DEF Keywords
<1>3. /\ c \in Seq(Text) /\ Len(c) = 4
      /\ c[1] = <<"SRFCv1">> /\ c[2] = ParamLine(<<"TYPE">>, <<"RES">>)
      /\ c[3] = ParamLine(<<"RI">>, Number(r.request_id))
      /\ c[4] = ParamLine(<<"PS">>, Number(r.payload_size))
  BY <1>1, <1>2, CommonLinesProperties
<1>4. s \in Text
  BY <1>1, <1>2, NumberLine
<1> HIDE DEF c, s
<1>5. /\ lines \in Seq(Text) /\ Len(lines) = 5 /\ lines[5] = s
      /\ \A i \in 1..4 : lines[i] = c[i]
  <2>1. c \in Seq(Text) BY <1>3
  <2>2. /\ lines \in Seq(Text) /\ Len(lines) = Len(c) + 1
        /\ \A i \in 1..Len(c) : lines[i] = c[i]
        /\ lines[Len(c) + 1] = s
    BY ONLY <2>1, <1>4, AppendProperties
  <2>3. Len(c) = 4 /\ 4 + 1 = 5
    BY <1>3
  <2> HIDE DEF lines
  <2> QED BY ONLY <2>2, <2>3
<1>6. ResponseLines(r) = lines
  BY DEF ResponseLines, c, s
<1> HIDE DEF lines
<1>7. Begins(lines, "RES", r.request_id, r.payload_size)
  <2>1. lines[1] = c[1] /\ lines[2] = c[2] /\ lines[3] = c[3] /\ lines[4] = c[4]
    BY <1>5
  <2>2. Len(lines) >= 5
    BY <1>5
  <2> QED BY <1>1, <1>2, <1>3, <1>5, <2>1, <2>2 DEF Begins
<1> QED BY <1>1, <1>5, <1>6, <1>7 DEF s

(* Its header size counts to the byte what the lines are.                  *)
LEMMA ResponseSize ==
  ASSUME NEW r, Sendable(r), NEW at, Offsets(ResponseLines(r), at)
  PROVE  /\ PreambleWidth + at[5] = ResponseHeaderSize(r)
         /\ PreambleWidth + at[5] + Len(r.payload) < Power[PreambleWidth]
<1> DEFINE lines == ResponseLines(r)
           w == PreambleWidth
           b == CommonSize(r.request_id, r.payload_size)
           z == NumberSize(<<"STATUS">>, r.status_code)
           p == at[4]
           q == at[5]
           h == Len(lines[5])
           l == Len(r.payload)
           j == MaxParams * (MaxText + 1)
           P == Power[PreambleWidth]
<1>1. /\ Begins(lines, "RES", r.request_id, r.payload_size) /\ Len(lines) = 5
      /\ lines[5] = ParamLine(<<"STATUS">>, Number(r.status_code))
      /\ r.status_code \in Nat /\ r.status_code < P
  BY ResponseLinesProperties
<1>2. w + p = b /\ b \in 0..3 * w + 15 /\ p \in Nat
  BY <1>1, CommonOffset
<1>3. q = p + h + 1
  <2>1. 5 \in 1..Len(lines) /\ 5 - 1 = 4
    BY <1>1
  <2> QED BY <2>1 DEF Offsets
<1>4. h + 1 = z /\ z \in 0..w + 4
  <2>1. "STATUS" \in Keywords BY DEF Keywords
  <2> QED BY <1>1, <2>1, NumberLine
<1>5. h \in Nat
  <2>1. lines \in Seq(Text) /\ 5 \in 1..Len(lines) BY <1>1 DEF Begins
  <2>2. lines[5] \in Text BY <2>1, ElementOfSeq
  <2> QED BY <2>2 DEF Text
<1>6. l \in Nat /\ l <= MaxText
  BY DEF Sendable
<1>7. /\ w \in Nat /\ MaxText \in Nat /\ P \in Nat /\ j \in Nat
      /\ 4 * w + 20 + j + MaxText + MaxText + 2 < P
  BY Sizes
<1>8. ResponseHeaderSize(r) = b + z
  BY DEF ResponseHeaderSize
<1> HIDE DEF w, b, z, p, q, h, l, j, P, lines
<1>9. w + q = b + z /\ w + q + l < P
  BY ONLY <1>2, <1>3, <1>4, <1>5, <1>6, <1>7
<1> QED BY <1>8, <1>9 DEF w, q, l, P

(* A response is accepted, read, and has the fields it was sent with.      *)
LEMMA ResponseRead ==
  ASSUME NEW r, Sendable(r), NEW m, m = SerializeResponse(r)
  PROVE  /\ Len(m) = ResponseHeaderSize(r) + r.payload_size
         /\ IsValidMessage(m) /\ ResponseReads(m)
         /\ DeserializeResponse(m) =
              [request_id |-> r.request_id, status_code |-> r.status_code,
               payload |-> r.payload, payload_size |-> r.payload_size]
<1> DEFINE lines == ResponseLines(r)
<1>1. /\ Begins(lines, "RES", r.request_id, r.payload_size) /\ Len(lines) = 5
      /\ lines[5] = ParamLine(<<"STATUS">>, Number(r.status_code))
      /\ r.status_code \in Nat /\ r.status_code < Power[PreambleWidth]
  BY ResponseLinesProperties
<1>2. lines \in Seq(Text)
  BY <1>1 DEF Begins
<1>3. PICK at : Offsets(lines, at)
  BY <1>2, OffsetsExist
<1>4. /\ PreambleWidth + at[Len(lines)] = ResponseHeaderSize(r)
      /\ PreambleWidth + at[Len(lines)] + Len(r.payload) < Power[PreambleWidth]
  BY <1>1, <1>3, ResponseSize
<1>5. /\ r.payload \in Seq(Character) /\ r.payload_size = Len(r.payload)
      /\ r.payload_size \in Nat /\ PayloadBytes(r) = r.payload
  <2>1. r.payload \in Seq(Character) /\ r.payload_size = Len(r.payload) BY DEF Sendable
  <2>2. r.payload_size \in Nat BY <2>1
  <2> QED BY <2>1, <2>2, PayloadBytesProperties
<1>6. PayloadAt(m, lines, at, r.payload)
  <2>1. PayloadAt(Message(PreambleWidth + at[Len(lines)], lines, r), lines, at, PayloadBytes(r))
    <3>1. Len(lines) >= 1 BY <1>1
    <3>2. r.payload \in Seq(Character) BY <1>5
    <3>3. r.payload_size \in Nat BY <1>5
    <3>4. PreambleWidth + at[Len(lines)] + r.payload_size < Power[PreambleWidth] BY <1>4, <1>5
    <3> HIDE DEF lines
    <3> QED BY ONLY <1>2, <1>3, <3>1, <3>2, <3>3, <3>4, MessageLayout
  <2>2. m = Message(ResponseHeaderSize(r), lines, r)
    BY DEF SerializeResponse, ResponseLines
  <2> HIDE DEF lines
  <2> QED BY <1>4, <1>5, <2>1, <2>2
<1>7. Headed(m, lines, at) /\ Len(m) = PreambleWidth + at[Len(lines)] + Len(r.payload)
  BY <1>6 DEF PayloadAt
<1>8. /\ PayloadOf(m) = r.payload
      /\ \A types : ValidStart(m, types) <=> "RES" \in types
  <2>1. Begins(lines, "RES", r.request_id, Len(r.payload)) BY <1>1, <1>5
  <2> HIDE DEF lines
  <2> QED BY ONLY <1>6, <2>1, LayoutRead
<1>9. /\ ExtractType(m) = <<<<"TYPE">>, <<"RES">>>>
      /\ NumberIn(m, 3, "RI") = r.request_id /\ NumberIn(m, 4, "PS") = r.payload_size
  <2>1. Headed(m, lines, at) BY <1>7
  <2>2. Begins(lines, "RES", r.request_id, r.payload_size) BY <1>1
  <2> HIDE DEF lines
  <2> QED BY ONLY <2>1, <2>2, CommonRead
<1>10. Line(m, 5) = ParamLine(<<"STATUS">>, Number(r.status_code))
  <2>1. Headed(m, lines, at) /\ 5 \in 1..Len(lines) BY <1>1, <1>7
  <2>2. Line(m, 5) = lines[5]
    <3>1. Headed(m, lines, at) BY <2>1
    <3> HIDE DEF lines
    <3> QED BY <2>1, <3>1, LineRead
  <2> QED BY <1>1, <2>2
<1>11. NumberIn(m, 5, "STATUS") = r.status_code
  <2> DEFINE a == <<"STATUS">>
             b == Number(r.status_code)
  <2>1. "STATUS" \in Keywords BY DEF Keywords
  <2>2. SeparateParamVal(Line(m, 5)) = <<a, b>> /\ Stoul(b) = r.status_code
    BY <1>1, <1>10, <2>1, NumberLine
  <2> HIDE DEF a, b
  <2>3. <<a, b>> # <<>> /\ <<a, b>>[1] = a /\ <<a, b>>[2] = b
    OBVIOUS
  <2> QED BY <2>2, <2>3 DEF NumberIn, a
<1>12. NumberIn(m, 5, "STATUS") # NoNumber
  BY <1>1, <1>11 DEF NoNumber
<1>13. ExtractType(m)[2] # <<"REQ">>
  BY <1>9
<1>14. IsValidMessage(m) /\ ResponseReads(m)
  BY <1>8, <1>12, <1>13 DEF IsValidMessage, ResponseReads
<1>15. Len(m) = ResponseHeaderSize(r) + r.payload_size
  BY <1>4, <1>5, <1>7
<1> QED BY <1>8, <1>9, <1>11, <1>14, <1>15 DEF DeserializeResponse

(* A response with any status and payload to any request is accepted,      *)
(* fills what was allocated, and is read as it was sent.                   *)
THEOREM ResponseIsRead == Spec => []ResponseRoundTrip
<1>1. IInv => ResponseRoundTrip
  <2> SUFFICES ASSUME IInv, NEW o \in Objects, NEW status \in Statuses, NEW payload \in Payloads
               PROVE  LET r == Response(request[o], status, payload)
                          m == SerializeResponse(r)
                      IN  /\ Len(m) = ResponseHeaderSize(r) + r.payload_size
                          /\ IsValidMessage(m) /\ ResponseReads(m) /\ DeserializeResponse(m) = r
    BY DEF ResponseRoundTrip
  <2> DEFINE id == request[o].my_request_id
             r == Response(request[o], status, payload)
             m == SerializeResponse(r)
  <2>1. id \in 0..LastId
    BY DEF IInv, WellFormed
  <2>2. r = [request_id |-> id, status_code |-> status, payload |-> payload, payload_size |-> Len(payload)]
    BY DEF Response
  <2>3. payload \in Seq(Character) /\ Len(payload) <= MaxText /\ status \in 0..Power[PreambleWidth] - 1
    BY MessageAssumption
  <2>4. m = SerializeResponse(r)
    OBVIOUS
  <2> HIDE DEF id, r, m
  <2>5. /\ r.request_id = id /\ r.status_code = status /\ r.payload = payload
        /\ r.payload_size = Len(payload)
        /\ r = [request_id |-> r.request_id, status_code |-> r.status_code,
                payload |-> r.payload, payload_size |-> r.payload_size]
    BY <2>2
  <2>6. Sendable(r)
    BY <2>1, <2>3, <2>5 DEF Sendable
  <2>7. /\ Len(m) = ResponseHeaderSize(r) + r.payload_size
        /\ IsValidMessage(m) /\ ResponseReads(m) /\ DeserializeResponse(m) = r
    BY <2>4, <2>5, <2>6, ResponseRead
  <2> QED BY <2>7 DEF r, m
<1> QED BY <1>1, Invariance, PTL
=============================================================================
