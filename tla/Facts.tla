------------------------------- MODULE Facts --------------------------------
(***************************************************************************)
(* What the proof modules share: facts about the sequences the models use  *)
(* as stacks (append, drop the last element, replace the last element),    *)
(* about least and largest elements, induction over 0..n and functions     *)
(* defined by recursion on it, and the arithmetic of machine integers.     *)
(***************************************************************************)
EXTENDS MachineInts, Sequences, SequencesExt, FiniteSetsExt, SequenceTheorems,
        WellFoundedInduction, TLAPS

\* A function on an initial segment of the positive integers is a sequence.
LEMMA FunctionIsSeq ==
  ASSUME NEW S, NEW L \in Nat, NEW f \in [1..L -> S]
  PROVE  f \in Seq(S) /\ Len(f) = L
BY SeqDef, LenProperties

\* Every non-empty set of naturals has a least element.
LEMMA LeastElement ==
  ASSUME NEW S, S \subseteq Nat, S # {}
  PROVE  \E m \in S : \A y \in S : m <= y
<1> DEFINE R == OpToRel(<, Nat)
<1>1. IsWellFoundedOn(R, Nat)
  BY NatLessThanWellFounded
<1>2. \A y, m \in S : <<y, m>> \in R <=> y < m
  BY DEF OpToRel
<1> HIDE DEF R
<1>3. PICK m \in S : \A y \in S : ~(<<y, m>> \in R)
  BY <1>1, WFMin
<1>4. \A y \in S : ~(y < m)
  BY <1>2, <1>3
<1>5. \A y \in S : m <= y
  BY <1>3, <1>4
<1> QED  BY <1>3, <1>5

\* The largest element of a bounded non-empty set of positive integers is one
\* of its elements.
LEMMA MaxFacts ==
  ASSUME NEW d \in Nat, NEW S, S \subseteq 1..d, S # {}
  PROVE  Max(S) \in S /\ \A y \in S : y <= Max(S)
<1> DEFINE T == {d - y : y \in S}
<1>1. T \subseteq Nat /\ T # {}
  OBVIOUS
<1>2. PICK t \in T : \A u \in T : t <= u
  BY <1>1, LeastElement
<1>3. PICK m \in S : t = d - m
  BY <1>2
<1>4. ASSUME NEW y \in S PROVE m >= y
  <2>1. d - y \in T
    OBVIOUS
  <2>2. d - m <= d - y
    BY <1>2, <1>3, <2>1
  <2> QED  BY <2>2
<1>5. \E x \in S : \A y \in S : x >= y
  BY <1>3, <1>4
<1> QED  BY <1>5 DEF Max

\* A function that agrees with f on 1..L and is defined at L+1 is f appended to.
LEMMA ExtendIsAppend ==
  ASSUME NEW S, NEW L \in Nat, NEW f \in [1..L -> S], NEW g \in [1..(L+1) -> S],
         \A i \in 1..L : g[i] = f[i]
  PROVE  g = Append(f, g[L+1])
BY FunctionIsSeq, AppendProperties, SeqEqual

\* Front drops the last element and keeps the others where they are.
LEMMA FrontFacts ==
  ASSUME NEW S, NEW s \in Seq(S), s # <<>>
  PROVE  /\ Front(s) \in Seq(S)
         /\ Len(Front(s)) = Len(s) - 1
         /\ \A i \in 1..(Len(s) - 1) : Front(s)[i] = s[i]
         /\ Len(s) \in Nat \ {0}
<1>1. Len(s) \in Nat \ {0} /\ s \in [1..Len(s) -> S]
  BY EmptySeq, LenProperties
<1>2. \A i \in 1..(Len(s) - 1) : s[i] \in S
  BY <1>1
<1>3. /\ SubSeq(s, 1, Len(s) - 1) \in Seq(S)
      /\ Len(SubSeq(s, 1, Len(s) - 1)) =
           IF 1 <= Len(s) - 1 THEN (Len(s) - 1) - 1 + 1 ELSE 0
      /\ \A i \in 1..((Len(s) - 1) - 1 + 1) :
           SubSeq(s, 1, Len(s) - 1)[i] = s[1 + i - 1]
  <2>1. 1 \in Int /\ Len(s) - 1 \in Int
    BY <1>1
  <2> QED  BY <1>2, <2>1, SubSeqProperties
<1> QED  BY <1>1, <1>3 DEF Front

LEMMA FrontAppend ==
  ASSUME NEW S, NEW s \in Seq(S), NEW x \in S
  PROVE  Append(s, x) # <<>> /\ Front(Append(s, x)) = s
<1> DEFINE t == Append(s, x)
<1>1. /\ t \in Seq(S) /\ t # <<>> /\ Len(t) = Len(s) + 1 /\ Len(s) \in Nat
      /\ \A i \in 1..Len(s) : t[i] = s[i]
  BY AppendProperties, LenProperties
<1> HIDE DEF t
<1>2. Front(t) \in Seq(S) /\ Len(Front(t)) = Len(t) - 1
      /\ \A i \in 1..(Len(t) - 1) : Front(t)[i] = t[i]
  BY <1>1, FrontFacts
<1>3. Len(t) - 1 = Len(s)
  BY <1>1
<1>4. Len(Front(t)) = Len(s) /\ \A i \in 1..Len(s) : Front(t)[i] = s[i]
  BY <1>1, <1>2, <1>3
<1>5. Front(t) = s
  BY <1>2, <1>4, SeqEqual
<1> QED  BY <1>1, <1>5 DEF t

\* A function that agrees with f but stops one short of its end is Front(f).
LEMMA ShortenIsFront ==
  ASSUME NEW S, NEW L \in Nat \ {0}, NEW f \in [1..L -> S],
         NEW g \in [1..(L-1) -> S], \A i \in 1..(L-1) : g[i] = f[i]
  PROVE  g = Front(f)
<1>1. /\ f \in Seq(S) /\ Len(f) = L
      /\ g \in Seq(S) /\ Len(g) = L - 1
  <2>1. L - 1 \in Nat
    OBVIOUS
  <2> QED  BY <2>1, FunctionIsSeq
<1>2. f # <<>>
  BY <1>1, EmptySeq
<1>3. /\ Front(f) \in Seq(S) /\ Len(Front(f)) = L - 1
      /\ \A i \in 1..(L-1) : Front(f)[i] = f[i]
  BY <1>1, <1>2, FrontFacts
<1> QED  BY <1>1, <1>3, SeqEqual


-----------------------------------------------------------------------------
(* Recursive functions over 0..n: what holds of 0 and steps on holds of    *)
(* all, and the recursion has a solution.                                  *)

LEMMA UpToInduction ==
  ASSUME NEW n \in Nat, NEW A, 0 \in A, \A i \in 1..n : i - 1 \in A => i \in A
  PROVE  0..n \subseteq A
<1> DEFINE B == (0..n) \ A
<1>1. SUFFICES ASSUME B # {} PROVE FALSE
  OBVIOUS
<1>2. PICK m \in B : \A y \in B : m <= y
  <2>1. B \subseteq Nat
    OBVIOUS
  <2> HIDE DEF B
  <2> QED  BY <1>1, <2>1, LeastElement
<1>3. m \in 1..n
  OBVIOUS
<1>4. m - 1 \notin B
  BY <1>2, <1>3
<1>5. m - 1 \in A
  BY <1>3, <1>4
<1> QED  BY <1>3, <1>5

Iterates(n, S, s, step) ==
  \E f \in [0..n -> S] : f[0] = s /\ \A i \in 1..n : f[i] = step[i][f[i - 1]]

LEMMA Iteration ==
  ASSUME NEW n \in Nat, NEW S, NEW s \in S, NEW step \in [1..n -> [S -> S]]
  PROVE  Iterates(n, S, s, step)
<1> DEFINE Runs(m, f) == f[0] = s /\ \A i \in 1..m : f[i] = step[i][f[i - 1]]
           A == {m \in 0..n : \E f \in [0..m -> S] : Runs(m, f)}
<1>1. 0 \in A
  <2> DEFINE g == [i \in 0..0 |-> s]
  <2>1. g \in [0..0 -> S] /\ Runs(0, g)
    OBVIOUS
  <2> HIDE DEF g, Runs
  <2> QED  BY <2>1
<1>2. ASSUME NEW m \in 1..n, m - 1 \in A PROVE m \in A
  <2>1. PICK f \in [0..(m - 1) -> S] : Runs(m - 1, f)
    BY <1>2
  <2> DEFINE g == [i \in 0..m |-> IF i = m THEN step[m][f[m - 1]] ELSE f[i]]
  <2>2. step[m][f[m - 1]] \in S
    OBVIOUS
  <2>3. g \in [0..m -> S]
    BY <2>2
  <2>4. Runs(m, g)
    <3>1. g[0] = s
      BY <2>1
    <3>2. ASSUME NEW i \in 1..m PROVE g[i] = step[i][g[i - 1]]
      <4>1. i - 1 \in 0..(m - 1) /\ g[i - 1] = f[i - 1]
        OBVIOUS
      <4>2. i # m => i \in 1..(m - 1) /\ g[i] = f[i]
        OBVIOUS
      <4> QED  BY <2>1, <4>1, <4>2
    <3> QED  BY <3>1, <3>2
  <2> HIDE DEF g, Runs
  <2>5. m \in 0..n /\ \E h \in [0..m -> S] : Runs(m, h)
    BY <2>3, <2>4
  <2> QED  BY <2>5
<1>3. n \in A
  <2> HIDE DEF A
  <2>1. 0..n \subseteq A
    BY <1>1, <1>2, UpToInduction
  <2> QED  BY <2>1
<1> QED  BY <1>3 DEF Iterates

-----------------------------------------------------------------------------
(* Powers.                                                                 *)

\* The function of the definition.
LEMMA PowerFunction ==
  ASSUME NEW b \in Nat, NEW n \in Nat
  PROVE  \E f \in [0..n -> Nat] : /\ Power(b, n) = f[n] /\ f[0] = 1
                                  /\ \A i \in 1..n : f[i] = b * f[i - 1]
<1> DEFINE power[i \in 0..n] == IF i = 0 THEN 1 ELSE b * power[i - 1]
           step == [i \in 1..n |-> [x \in Nat |-> b * x]]
<1>1. step \in [1..n -> [Nat -> Nat]] /\ \A i \in 1..n, x \in Nat : step[i][x] = b * x
  OBVIOUS
<1> HIDE DEF step, power
<1>2. PICK f \in [0..n -> Nat] : f[0] = 1 /\ \A i \in 1..n : f[i] = step[i][f[i - 1]]
  <2>1. 1 \in Nat
    OBVIOUS
  <2>2. Iterates(n, Nat, 1, step)
    BY <1>1, <2>1, Iteration
  <2> QED  BY <2>2 DEF Iterates
<1>3. f = [i \in 0..n |-> IF i = 0 THEN 1 ELSE b * f[i - 1]]
  <2>1. \A i \in 1..n : i - 1 \in 0..n /\ f[i - 1] \in Nat
    OBVIOUS
  <2>2. \A i \in 1..n : f[i] = b * f[i - 1]
    BY <1>1, <1>2, <2>1
  <2>3. \A i \in 0..n : f[i] = IF i = 0 THEN 1 ELSE b * f[i - 1]
    BY <1>2, <2>2
  <2> QED  BY <2>3
<1>4. power = [i \in 0..n |-> IF i = 0 THEN 1 ELSE b * power[i - 1]]
  BY <1>3 DEF power
<1>5. Power(b, n) = power[n]
  BY DEF Power, power
<1>6. power[0] = 1 /\ \A i \in 1..n : power[i] = b * power[i - 1]
  BY <1>4
<1>7. \A i \in 0..n : power[i] \in Nat
  <2> DEFINE A == {i \in 0..n : power[i] \in Nat}
  <2>1. 0 \in A /\ \A i \in 1..n : i - 1 \in A => i \in A
    BY <1>6
  <2> HIDE DEF A
  <2>2. 0..n \subseteq A
    BY <2>1, UpToInduction
  <2> QED  BY <2>2 DEF A
<1>8. power \in [0..n -> Nat]
  BY <1>4, <1>7
<1> QED  BY <1>5, <1>6, <1>8

LEMMA PowerFacts ==
  ASSUME NEW b \in Nat, NEW n \in Nat
  PROVE  Power(b, n) \in Nat /\ Power(b, 0) = 1 /\ Power(b, n + 1) = b * Power(b, n)
<1>1. PICK f \in [0..n -> Nat] : /\ Power(b, n) = f[n] /\ f[0] = 1
                                 /\ \A i \in 1..n : f[i] = b * f[i - 1]
  BY PowerFunction
<1>2. PICK g \in [0..(n + 1) -> Nat] : /\ Power(b, n + 1) = g[n + 1] /\ g[0] = 1
                                       /\ \A i \in 1..(n + 1) : g[i] = b * g[i - 1]
  <2>1. n + 1 \in Nat
    OBVIOUS
  <2> QED  BY <2>1, PowerFunction
<1>3. Power(b, 0) = 1
  <2>1. 0 \in Nat
    OBVIOUS
  <2>2. PICK h \in [0..0 -> Nat] : Power(b, 0) = h[0] /\ h[0] = 1
    BY <2>1, PowerFunction
  <2> QED  BY <2>2
<1>4. f[n] = g[n]
  <2> DEFINE A == {i \in 0..n : f[i] = g[i]}
  <2>1. 0 \in A
    BY <1>1, <1>2
  <2>2. ASSUME NEW i \in 1..n, i - 1 \in A PROVE i \in A
    <3>1. i \in 1..(n + 1) /\ f[i - 1] = g[i - 1]
      BY <2>2
    <3> QED  BY <1>1, <1>2, <3>1
  <2> HIDE DEF A
  <2>3. 0..n \subseteq A
    BY <2>1, <2>2, UpToInduction
  <2> QED  BY <2>3 DEF A
<1>5. n + 1 \in 1..(n + 1) /\ (n + 1) - 1 = n
  OBVIOUS
<1>6. g[n + 1] = b * g[n]
  BY <1>2, <1>5
<1> QED  BY <1>1, <1>2, <1>3, <1>4, <1>6

\* The powers of two that bound an int.
LEMMA PowersOfTwo ==
  ASSUME NEW n \in Nat, NEW m \in Nat, n <= m
  PROVE  /\ Power(2, n) \in Nat \ {0} /\ Power(2, n) <= Power(2, m)
         /\ n > 0 => Power(2, n) = 2 * Power(2, n - 1)
<1> DEFINE A == {d \in 0..m : Power(2, d) \in Nat \ {0} /\ (d >= n => Power(2, n) <= Power(2, d))}
<1>0. Power(2, n) \in Nat /\ 2 \in Nat
  BY PowerFacts
<1>1. 0 \in A
  <2>1. Power(2, 0) = 1 /\ (0 >= n => n = 0)
    BY PowerFacts
  <2> QED  BY <2>1
<1>2. ASSUME NEW d \in 1..m, d - 1 \in A PROVE d \in A
  <2>1. d - 1 \in Nat /\ (d - 1) + 1 = d
    OBVIOUS
  <2>2. Power(2, d) = 2 * Power(2, d - 1) /\ Power(2, d - 1) \in Nat \ {0}
    BY <1>2, <2>1, PowerFacts
  <2>3. CASE d = n
    BY <2>2, <2>3
  <2>4. CASE d # n
    BY <1>0, <1>2, <2>2, <2>4
  <2> QED  BY <2>3, <2>4
<1> HIDE DEF A
<1>3. 0..m \subseteq A
  BY <1>1, <1>2, UpToInduction
<1>4. m \in 0..m /\ n \in 0..m
  OBVIOUS
<1>5. n > 0 => Power(2, n) = 2 * Power(2, n - 1)
  <2>1. n > 0 => n - 1 \in Nat /\ (n - 1) + 1 = n
    OBVIOUS
  <2> QED  BY <2>1, PowerFacts
<1> QED  BY <1>3, <1>4, <1>5 DEF A

\* A value an int can hold is kept, and what is kept is one of those.
LEMMA TwosComplementFacts ==
  ASSUME NEW bits \in Nat \ {0}, NEW v \in Int
  PROVE  /\ TwosComplement(bits, v) \in (-Power(2, bits - 1))..(Power(2, bits - 1) - 1)
         /\ v \in (-Power(2, bits - 1))..(Power(2, bits - 1) - 1) => TwosComplement(bits, v) = v
<1> DEFINE H == Power(2, bits - 1)
           M == Power(2, bits)
<1>1. H \in Nat \ {0} /\ M = 2 * H
  <2>1. bits \in Nat /\ bits - 1 \in Nat /\ bits > 0 /\ bits <= bits /\ bits - 1 <= bits - 1
    OBVIOUS
  <2> QED  BY <2>1, PowersOfTwo
<1>2. TwosComplement(bits, v) = ((v + H) % M) - H
  BY DEF TwosComplement
<1> HIDE DEF H, M
<1>3. (v + H) % M \in 0..(M - 1)
  BY <1>1
<1>4. v + H \in 0..(M - 1) => (v + H) % M = v + H
  BY <1>1
<1>5. TwosComplement(bits, v) \in (-H)..(H - 1)
  BY <1>1, <1>2, <1>3
<1>6. v \in (-H)..(H - 1) => TwosComplement(bits, v) = v
  BY <1>1, <1>2, <1>4
<1> QED  BY <1>5, <1>6 DEF H

\* The remainder is the only number of its range that is the dividend less a
\* multiple of the divisor.
LEMMA Remainder ==
  ASSUME NEW M \in Nat \ {0}, NEW v \in Int
  PROVE  /\ v % M \in 0..(M - 1)
         /\ \E k \in Int : v % M = v + k * M
         /\ \A r \in 0..(M - 1), k \in Int : r = v + k * M => r = v % M
<1>1. v % M \in 0..(M - 1) /\ v \div M \in Int /\ v = (M * (v \div M)) + (v % M)
  OBVIOUS
<1> DEFINE q == v \div M
           s == v % M
<1> HIDE DEF q, s
<1>2. s \in 0..(M - 1) /\ q \in Int /\ v = M * q + s
  BY <1>1 DEF q, s
<1>3. \E k \in Int : s = v + k * M
  <2>1. -q \in Int /\ s = v + (-q) * M
    BY <1>2
  <2> QED  BY <2>1
<1>4. ASSUME NEW r \in 0..(M - 1), NEW k \in Int, r = v + k * M PROVE r = s
  <2>1. r - s = (q + k) * M
    BY <1>2, <1>4
  <2>2. q + k \in Int /\ r - s < M /\ -M < r - s
    BY <1>2
  <2>3. \A x \in Int : x >= 1 => x * M >= M
    OBVIOUS
  <2>4. \A x \in Int : x <= -1 => x * M <= -M
    OBVIOUS
  <2>5. q + k < 1 /\ q + k > -1
    BY <2>1, <2>2, <2>3, <2>4
  <2>6. q + k = 0
    BY <2>2, <2>5
  <2>7. r - s = 0
    BY <2>1, <2>6
  <2> QED  BY <1>2, <2>7
<1> QED  BY <1>2, <1>3, <1>4 DEF s

\* Two numbers that differ by a multiple of M.
Congruent(v, w, M) == \E k \in Int : w = v + k * M

LEMMA CongruentFacts ==
  ASSUME NEW M \in Nat, NEW v \in Int, NEW w \in Int, Congruent(v, w, M)
  PROVE  /\ Congruent(w, v, M)
         /\ \A x \in Int : Congruent(v * x, w * x, M)
         /\ \A x \in Int : Congruent(w, x, M) => Congruent(v, x, M)
<1>1. PICK k \in Int : w = v + k * M
  BY DEF Congruent
<1>2. Congruent(w, v, M)
  <2>1. -k \in Int /\ v = w + (-k) * M
    BY <1>1
  <2> QED  BY <2>1 DEF Congruent
<1>3. ASSUME NEW x \in Int PROVE Congruent(v * x, w * x, M)
  <2>1. k * x \in Int
    OBVIOUS
  <2>2. (v + k * M) * x = v * x + (k * M) * x
    OBVIOUS
  <2>3. (k * M) * x = (k * x) * M
    OBVIOUS
  <2>4. w * x = v * x + (k * x) * M
    BY <1>1, <2>2, <2>3
  <2> QED  BY <2>1, <2>4 DEF Congruent
<1>4. ASSUME NEW x \in Int, Congruent(w, x, M) PROVE Congruent(v, x, M)
  <2>1. PICK l \in Int : x = w + l * M
    BY <1>4 DEF Congruent
  <2>2. k + l \in Int /\ x = v + (k + l) * M
    BY <1>1, <2>1
  <2> QED  BY <2>2 DEF Congruent
<1> QED  BY <1>2, <1>3, <1>4

\* Cutting a number to an int keeps it modulo 2^bits, and depends on that alone.
LEMMA TwosComplementCongruent ==
  ASSUME NEW bits \in Nat \ {0}, NEW v \in Int
  PROVE  /\ Congruent(v, TwosComplement(bits, v), Power(2, bits))
         /\ TwosComplement(bits, v) \in Int
         /\ Power(2, bits) \in Nat \ {0}
         /\ \A w \in Int : Congruent(v, w, Power(2, bits)) =>
                             TwosComplement(bits, w) = TwosComplement(bits, v)
<1> DEFINE H == Power(2, bits - 1)
           M == Power(2, bits)
<1>1. H \in Nat /\ M \in Nat \ {0}
  <2>1. bits \in Nat /\ bits - 1 \in Nat /\ bits <= bits /\ bits - 1 <= bits - 1
    OBVIOUS
  <2> QED  BY <2>1, PowersOfTwo
<1>2. \A x : TwosComplement(bits, x) = ((x + H) % M) - H
  BY DEF TwosComplement
<1> HIDE DEF H, M
<1>3. v + H \in Int
  BY <1>1
<1>4. /\ (v + H) % M \in 0..(M - 1)
      /\ \E k \in Int : (v + H) % M = (v + H) + k * M
  BY <1>1, <1>3, Remainder
<1>5. TwosComplement(bits, v) \in Int
  BY <1>1, <1>2, <1>4
<1>6. Congruent(v, TwosComplement(bits, v), M)
  <2>1. PICK k \in Int : (v + H) % M = (v + H) + k * M
    BY <1>4
  <2>2. TwosComplement(bits, v) = v + k * M
    BY SMTT(20), <1>1, <1>2, <2>1
  <2> QED  BY <2>2 DEF Congruent
<1>7. ASSUME NEW w \in Int, Congruent(v, w, M)
      PROVE  TwosComplement(bits, w) = TwosComplement(bits, v)
  <2>1. PICK k \in Int : w = v + k * M
    BY <1>7 DEF Congruent
  <2>2. PICK l \in Int : (v + H) % M = (v + H) + l * M
    BY <1>4
  <2>3. w + H \in Int /\ l - k \in Int
    BY <1>1
  <2>4. (v + H) % M = (w + H) + (l - k) * M
    <3>1. (l - k) * M = l * M - k * M
      BY <1>1
    <3>2. k * M \in Int /\ l * M \in Int
      BY <1>1
    <3> QED  BY <1>1, <2>1, <2>2, <3>1, <3>2
  <2>5. (v + H) % M = (w + H) % M
    BY <1>1, <1>4, <2>3, <2>4, Remainder
  <2> QED  BY <1>2, <2>5
<1> QED  BY <1>1, <1>5, <1>6, <1>7 DEF M

\* A multiple of 1, 4 or 8 stays one when it is cut, however short the int.
LEMMA TwosComplementDivides ==
  ASSUME NEW bits \in Nat \ {0}, NEW a \in {1, 4, 8}, NEW x \in Int
  PROVE  TwosComplement(bits, a * x) % a = 0
<1> DEFINE M == Power(2, bits)
           t == TwosComplement(bits, a * x)
<1>1. /\ M \in Nat \ {0} /\ t \in Int /\ a * x \in Int
      /\ Congruent(a * x, t, M)
      /\ \A w \in Int : Congruent(a * x, w, M) => TwosComplement(bits, w) = t
  <2>1. a * x \in Int
    OBVIOUS
  <2> QED  BY <2>1, TwosComplementCongruent
<1>2. PICK k \in Int : t = a * x + k * M
  BY <1>1 DEF Congruent
<1>3. \A m \in Nat : Power(2, m + 1) = 2 * Power(2, m) /\ Power(2, m) \in Nat /\ Power(2, 0) = 1
  BY PowerFacts
<1>4. Power(2, 1) = 2 /\ Power(2, 2) = 4
  <2>1. 0 + 1 = 1 /\ 1 + 1 = 2
    OBVIOUS
  <2>2. Power(2, 0 + 1) = 2 * Power(2, 0) /\ Power(2, 1 + 1) = 2 * Power(2, 1)
    BY <1>3
  <2> QED  BY <1>3, <2>1, <2>2
<1>5. CASE bits >= 3
  <2>1. PICK z \in Nat : M = 8 * z
    <3>1. bits - 3 \in Nat /\ bits - 2 \in Nat /\ bits - 1 \in Nat
          /\ (bits - 3) + 1 = bits - 2 /\ (bits - 2) + 1 = bits - 1 /\ (bits - 1) + 1 = bits
      BY <1>5
    <3>2. /\ Power(2, (bits - 3) + 1) = 2 * Power(2, bits - 3)
          /\ Power(2, (bits - 2) + 1) = 2 * Power(2, bits - 2)
          /\ Power(2, (bits - 1) + 1) = 2 * Power(2, bits - 1)
          /\ Power(2, bits - 3) \in Nat
      BY <1>3, <3>1
    <3>3. M = 8 * Power(2, bits - 3)
      BY <3>1, <3>2
    <3> QED  BY <3>2, <3>3
  <2>2. k * M = 8 * (k * z) /\ k * z \in Int
    BY <2>1
  <2> DEFINE y == k * z
  <2> HIDE DEF M, t, y
  <2>3. t = a * x + 8 * y /\ y \in Int
    BY <1>2, <2>2 DEF y
  <2>4. a = 1 => t % a = 0
    BY <1>1
  <2>5. a = 4 => t % a = 0
    <3>1. a = 4 => t = 4 * (x + 2 * y)
      BY <2>3
    <3> QED  BY <2>3, <3>1
  <2>6. a = 8 => t % a = 0
    <3>1. a = 8 => t = 8 * (x + y)
      BY <2>3
    <3> QED  BY <2>3, <3>1
  <2> QED  BY <2>4, <2>5, <2>6 DEF t
<1>6. CASE bits \in {1, 2} /\ a # 1
  <2>1. PICK w \in Int : a * x = w * M
    <3>1. bits = 1 => M = 2
      BY <1>4
    <3>2. bits = 2 => M = 4
      BY <1>4
    <3>3. \A j \in {2, 4} : a * x = ((a \div j) * x) * j /\ (a \div j) * x \in Int
      BY <1>6
    <3> QED  BY <1>6, <3>1, <3>2, <3>3
  <2>2. Congruent(a * x, 0, M)
    <3>1. -w \in Int /\ 0 = a * x + (-w) * M
      BY <1>1, <2>1
    <3> QED  BY <3>1 DEF Congruent
  <2>3. TwosComplement(bits, 0) = t
    BY <1>1, <2>2
  <2>4. TwosComplement(bits, 0) = 0
    <3>1. Power(2, bits - 1) \in Nat \ {0}
      <4>1. bits - 1 \in Nat /\ bits - 1 <= bits - 1
        OBVIOUS
      <4> QED  BY <4>1, PowersOfTwo
    <3>2. 0 \in (-Power(2, bits - 1))..(Power(2, bits - 1) - 1)
      BY <3>1
    <3> QED  BY <3>2, TwosComplementFacts
  <2> HIDE DEF t
  <2> QED  BY <2>3, <2>4 DEF t
<1>7. CASE a = 1
  <2> HIDE DEF t
  <2>1. t % a = 0
    BY <1>1, <1>7
  <2> QED  BY <2>1 DEF t
<1> QED  BY <1>5, <1>6, <1>7

-----------------------------------------------------------------------------
(* Digits.                                                                 *)

\* Reading digits: multiply by the base what was read, and add the next.
Reads(f, n, base, d) == f[0] = 0 /\ \A i \in 1..n : f[i] = f[i - 1] * base + d[i]

\* Weighing digits: add each times the weight of its place.
Weighs(g, n, base, d) ==
  g[0] = 0 /\ \A i \in 1..n : g[i] = g[i - 1] + d[i] * Power(base, n - i)

\* One digit y more, at a place of weight p: x becomes u when it is read, w when
\* it is weighed.
NextDigit(x, b, y, p, u, w) == u = x * b + y /\ w = x * (b * p) + y * p

LEMMA NextDigitFacts ==
  ASSUME NEW x \in Nat, NEW b \in Nat, NEW y \in Nat, NEW p \in Nat,
         NEW u, NEW w, NextDigit(x, b, y, p, u, w)
  PROVE  w = u * p /\ u \in Nat
<1>1. x * (b * p) = (x * b) * p
  OBVIOUS
<1>2. \A z \in Nat : (z + y) * p = z * p + y * p
  OBVIOUS
<1>3. x * b \in Nat
  OBVIOUS
<1> QED  BY <1>1, <1>2, <1>3 DEF NextDigit

\* Both come to the same.
LEMMA Horner ==
  ASSUME NEW n \in Nat, NEW base \in Nat, NEW d \in [1..n -> Nat],
         NEW f, Reads(f, n, base, d), NEW g, Weighs(g, n, base, d)
  PROVE  f[n] = g[n] /\ f[n] \in Nat
<1> DEFINE A == {k \in 0..n : f[k] \in Nat /\ g[k] = f[k] * Power(base, n - k)}
<1>1. 0 \in A
  <2>1. n - 0 = n /\ Power(base, n) \in Nat
    BY PowerFacts
  <2> QED  BY <2>1 DEF Reads, Weighs
<1>2. ASSUME NEW k \in 1..n, k - 1 \in A PROVE k \in A
  <2>1. f[k - 1] \in Nat /\ g[k - 1] = f[k - 1] * Power(base, n - (k - 1))
    BY <1>2
  <2>2. Power(base, n - k) \in Nat /\ Power(base, n - (k - 1)) = base * Power(base, n - k)
    <3>1. n - k \in Nat /\ (n - k) + 1 = n - (k - 1)
      OBVIOUS
    <3> QED  BY <3>1, PowerFacts
  <2>3. d[k] \in Nat /\ NextDigit(f[k - 1], base, d[k], Power(base, n - k), f[k], g[k])
    BY <2>1, <2>2 DEF Reads, Weighs, NextDigit
  <2>4. g[k] = f[k] * Power(base, n - k) /\ f[k] \in Nat
    BY <2>1, <2>2, <2>3, NextDigitFacts
  <2> QED  BY <2>4
<1> HIDE DEF A
<1>3. 0..n \subseteq A
  BY <1>1, <1>2, UpToInduction
<1>4. f[n] \in Nat /\ g[n] = f[n] * Power(base, n - n)
  <2>1. n \in 0..n
    OBVIOUS
  <2> QED  BY <1>3, <2>1 DEF A
<1>5. n - n = 0 /\ Power(base, 0) = 1
  BY PowerFacts
<1> QED  BY <1>4, <1>5
=============================================================================
