------------------------ MODULE ParserProgressProofs ------------------------
(***************************************************************************)
(* How far the parser can get on the tokens it is given, whatever they     *)
(* are: the stack stays as low as the tokens read, and every step leaves   *)
(* less to do (DepthLinear and ParsesLinear of Parser.tla).                *)
(***************************************************************************)
EXTENDS ParserProofs

-----------------------------------------------------------------------------
(* Sums over the frames of a stack.                                        *)

\* h[i] is the sum of the first i of the n numbers w.
SumsUp(h, n, w) == h[0] = 0 /\ \A i \in 1..n : h[i] = h[i - 1] + w[i]

LEMMA TotalSums ==
  ASSUME NEW n \in Nat, NEW w \in [1..n -> Nat]
  PROVE  \E h \in [0..n -> Nat] : SumsUp(h, n, w) /\ Total(w) = h[n]
<1> DEFINE sum[i \in 0..n] == IF i = 0 THEN 0 ELSE sum[i - 1] + w[i]
           step == [i \in 1..n |-> [x \in Nat |-> x + w[i]]]
<1>1. Len(w) = n
  BY FunctionIsSeq
<1>2. step \in [1..n -> [Nat -> Nat]] /\ \A i \in 1..n, x \in Nat : step[i][x] = x + w[i]
  OBVIOUS
<1>3. Total(w) = sum[n]
  BY <1>1, Zenon DEF Total, sum
<1> HIDE DEF step, sum
<1>4. PICK f \in [0..n -> Nat] : f[0] = 0 /\ \A i \in 1..n : f[i] = step[i][f[i - 1]]
  <2>1. 0 \in Nat
    OBVIOUS
  <2>2. Iterates(n, Nat, 0, step)
    BY <1>2, <2>1, Iteration
  <2> QED  BY <2>2 DEF Iterates
<1>5. \A i \in 1..n : i - 1 \in 0..n /\ f[i - 1] \in Nat
  OBVIOUS
<1>6. \A i \in 1..n : f[i] = f[i - 1] + w[i]
  BY <1>2, <1>4, <1>5
<1>7. f = [i \in 0..n |-> IF i = 0 THEN 0 ELSE f[i - 1] + w[i]]
  <2>1. \A i \in 0..n : f[i] = IF i = 0 THEN 0 ELSE f[i - 1] + w[i]
    BY <1>4, <1>6
  <2> QED  BY <2>1
<1>8. sum = [i \in 0..n |-> IF i = 0 THEN 0 ELSE sum[i - 1] + w[i]]
  BY <1>7 DEF sum
<1>9. SumsUp(sum, n, w)
  BY <1>8 DEF SumsUp
<1> DEFINE A == {i \in 0..n : sum[i] \in Nat}
<1>10. 0 \in A
  BY <1>9 DEF SumsUp
<1>11. ASSUME NEW i \in 1..n, i - 1 \in A PROVE i \in A
  BY <1>9, <1>11 DEF SumsUp
<1> HIDE DEF A
<1>12. 0..n \subseteq A
  BY <1>10, <1>11, UpToInduction
<1>13. sum \in [0..n -> Nat]
  BY <1>8, <1>12 DEF A
<1> QED  BY <1>3, <1>9, <1>13

\* The partial sums are the only ones.
LEMMA TotalIs ==
  ASSUME NEW n \in Nat, NEW w \in [1..n -> Nat], NEW h, SumsUp(h, n, w)
  PROVE  Total(w) = h[n] /\ h[n] \in Nat
<1>1. PICK g \in [0..n -> Nat] : SumsUp(g, n, w) /\ Total(w) = g[n]
  BY TotalSums
<1> DEFINE A == {i \in 0..n : h[i] = g[i]}
<1>2. 0 \in A
  BY <1>1 DEF SumsUp
<1>3. ASSUME NEW i \in 1..n, i - 1 \in A PROVE i \in A
  BY <1>1, <1>3 DEF SumsUp
<1> HIDE DEF A
<1>4. 0..n \subseteq A
  BY <1>2, <1>3, UpToInduction
<1> QED  BY <1>1, <1>4 DEF A

-----------------------------------------------------------------------------
(* The depth of the stack.  Calls go deeper without reading a token only   *)
(* along chains such as assign - binary - unary, so a frame on top at a    *)
(* place from which n functions can become active, its own included, needs *)
(* n to spare.                                                             *)

Need(l) ==
  IF l \in HeadLabels \cup {"block", "args"} THEN 7
  ELSE IF l \in {"cond_open", "cond_close", "init_first", "init_elem", "var_value"} THEN 6
  ELSE IF l \in {"assign", "stmt", "ret_value"} THEN 5
  ELSE IF l = "binary" THEN 4
  ELSE IF l \in {"ident", "args_more", "var", "decl_kind", "block_open"} THEN 3
  ELSE IF l \in Paired \cup RootLabels \cup {"asg_lhs", "init", "init_more", "if_else"} THEN 2
  ELSE 1

\* Frames that are only made on a brace, which they read first.
OnBrace == {"block_open", "init"}

\* Frames of the operator loop, which only the precedence stops.
PrecLabels == {"binary", "bin_lhs", "bin_rhs"}

\* The tokens read and not at hand any more.
Used == IF Kind = "EOF" THEN fed ELSE fed - 1

\* How many functions are active up to each frame, ...
Rises(h, s) == h[0] = 0 /\ \A i \in 1..Len(s) : h[i] = h[i - 1] + Activations(s[i].at)

\* ... with the room that u tokens give them.
Roomy(h, s, u) == \A i \in 1..Len(s) : h[i - 1] + Need(s[i].at) <= 2 + 4 * u

Marked(s, k) ==
  \A i \in 1..Len(s) : /\ s[i].at \in OnBrace => i = Len(s) /\ k = "L_BRACE"
                       /\ s[i].at \in PrecLabels => s[i].prec \in Nat

Bounded(s, u, k) ==
  Marked(s, k) /\ \E h \in [0..Len(s) -> Nat] : Rises(h, s) /\ Roomy(h, s, u)

DepthInv == Used \in Nat /\ Bounded(stack, Used, Kind)

\* A step reads d tokens, or more.
Gained(d) == Used' \in Nat /\ Used' >= Used + d

\* The frame f can be on top of the stack, before the token k ...
Good(f, k) == /\ f.at \in OnBrace => k = "L_BRACE"
              /\ f.at \in PrecLabels => f.prec \in Nat

\* ... and follow the place l when d tokens are read, ...
After(l, f, d, k) == Need(f.at) <= Need(l) + 4 * d /\ Good(f, k)

\* ... and so can f with g on top of it.
Under(l, f, g, d, k) ==
  /\ f.at \notin OnBrace /\ After(l, f, d, k)
  /\ Activations(f.at) + Need(g.at) <= Need(l) + 4 * d /\ Good(g, k)

LEMMA NeedRange ==
  ASSUME NEW l
  PROVE  Need(l) \in 1..7 /\ Activations(l) \in 1..2 /\ Activations(l) <= Need(l)
BY DEF Need, Activations, Paired, HeadLabels

\* Room for c with u tokens is room for b with v of them.
LEMMA RoomGrows ==
  ASSUME NEW a \in Nat, NEW b \in Nat, NEW c \in Nat, NEW u \in Nat, NEW v \in Nat,
         NEW d \in {0, 1}, a + c <= 2 + 4 * u, b <= c + 4 * d, v >= u + d
  PROVE  a + b <= 2 + 4 * v
<1>1. CASE d = 0
  BY <1>1
<1>2. CASE d = 1
  BY <1>2
<1> QED  BY <1>1, <1>2

LEMMA MarkReplace ==
  ASSUME NEW s, IsSeq(s), s # <<>>, NEW k, NEW m, Marked(s, k), NEW f, Good(f, m),
         NEW t, t = Append(Front(s), f)
  PROVE  Marked(t, m)
<1> DEFINE n == Len(s)
<1>1. Len(t) = n /\ t[n] = f /\ n \in Nat \ {0} /\ \A i \in 1..(n - 1) : t[i] = s[i]
  BY SeqLength, ReplaceShape
<1>2. \A i \in 1..n : i = n \/ (i \in 1..(n - 1) /\ i # n)
  BY <1>1
<1>3. \A i \in 1..n : /\ s[i].at \in OnBrace => i = n
                      /\ s[i].at \in PrecLabels => s[i].prec \in Nat
  BY DEF Marked
<1> HIDE DEF n
<1> QED  BY <1>1, <1>2, <1>3 DEF Marked, Good

LEMMA MarkPush ==
  ASSUME NEW s, IsSeq(s), s # <<>>, NEW k, Marked(s, k), Last(s).at \notin OnBrace,
         NEW g, Good(g, k), NEW t, t = Append(s, g)
  PROVE  Marked(t, k)
<1> DEFINE n == Len(s)
<1>1. /\ Len(t) = n + 1 /\ t[n + 1] = g /\ n \in Nat \ {0} /\ Last(s) = s[n]
      /\ \A i \in 1..n : t[i] = s[i]
  BY SeqLength, AppendShape DEF Last
<1>2. \A i \in 1..(n + 1) : i = n + 1 \/ i \in 1..n
  BY <1>1
<1>3. \A i \in 1..n : /\ s[i].at \in OnBrace => i = n
                      /\ s[i].at \in PrecLabels => s[i].prec \in Nat
  BY DEF Marked
<1> HIDE DEF n
<1> QED  BY <1>1, <1>2, <1>3 DEF Marked, Good

LEMMA BoundReplace ==
  ASSUME NEW s, IsSeq(s), s # <<>>, NEW u \in Nat, NEW v \in Nat, NEW d \in {0, 1},
         v >= u + d, NEW k, NEW m, Bounded(s, u, k), NEW f, After(Last(s).at, f, d, m),
         NEW t, t = Append(Front(s), f)
  PROVE  Bounded(t, v, m)
<1> DEFINE n == Len(s)
<1>1. n \in Nat \ {0} /\ Last(s) = s[n]
  BY SeqLength DEF Last
<1>2. Len(t) = n /\ t[n] = f /\ \A i \in 1..(n - 1) : t[i] = s[i]
  BY ReplaceShape
<1>3. Marked(t, m)
  BY MarkReplace DEF Bounded, After
<1>4. PICK h \in [0..n -> Nat] : Rises(h, s) /\ Roomy(h, s, u)
  BY DEF Bounded
<1>5. h[0] = 0 /\ \A i \in 1..n : /\ h[i] = h[i - 1] + Activations(s[i].at)
                                  /\ h[i - 1] + Need(s[i].at) <= 2 + 4 * u
  BY <1>4 DEF Rises, Roomy
<1> HIDE DEF n
<1> DEFINE g == [i \in 0..n |-> IF i = n THEN h[n - 1] + Activations(f.at) ELSE h[i]]
<1>6. h[n - 1] \in Nat /\ Activations(f.at) \in 1..2 /\ Need(f.at) \in 1..7
      /\ Need(s[n].at) \in 1..7 /\ \A i \in 1..n : Need(s[i].at) \in 1..7 /\ h[i - 1] \in Nat
  BY <1>1, NeedRange
<1>7. g \in [0..n -> Nat] /\ g[0] = 0 /\ g[n] = h[n - 1] + Activations(f.at)
      /\ \A i \in 0..(n - 1) : g[i] = h[i]
  <2>1. h[n - 1] + Activations(f.at) \in Nat
    BY ONLY <1>6
  <2>2. g \in [0..n -> Nat]
    BY ONLY <2>1, h \in [0..n -> Nat]
  <2>3. n \in 0..n /\ 0 \in 0..n /\ 0 # n /\ \A i \in 0..(n - 1) : i \in 0..n /\ i # n
    BY ONLY <1>1
  <2> QED  BY ONLY <1>5, <2>2, <2>3
<1> HIDE DEF g
<1>8. ASSUME NEW i \in 1..n
      PROVE  /\ g[i] = g[i - 1] + Activations(t[i].at)
             /\ g[i - 1] + Need(t[i].at) <= 2 + 4 * v
  <2>1. g[i - 1] = h[i - 1] /\ (i = n \/ i \in 1..(n - 1))
    BY <1>1, <1>7
  <2>2. CASE i = n
    <3>1. h[n - 1] + Need(s[n].at) <= 2 + 4 * u
      BY <1>1, <1>5
    <3>2. Need(f.at) <= Need(s[n].at) + 4 * d
      BY <1>1 DEF After
    <3>3. h[n - 1] + Need(f.at) <= 2 + 4 * v
      <4>1. Need(f.at) \in Nat /\ Need(s[n].at) \in Nat
        BY <1>6
      <4> QED  BY <1>6, <3>1, <3>2, <4>1, RoomGrows
    <3>4. t[i] = f /\ g[i] = h[n - 1] + Activations(f.at) /\ g[i - 1] = h[n - 1]
      BY <1>2, <1>7, <2>1, <2>2
    <3> QED  BY <3>3, <3>4
  <2>3. CASE i \in 1..(n - 1)
    <3>1. g[i] = h[i] /\ t[i] = s[i] /\ i \in 1..n
      BY <1>1, <1>2, <1>7, <2>3
    <3>2. h[i - 1] + Need(s[i].at) <= 2 + 4 * u /\ h[i] = h[i - 1] + Activations(s[i].at)
      BY <1>5, <3>1
    <3>3. h[i - 1] + Need(s[i].at) <= 2 + 4 * v
      BY ONLY <1>6, <3>1, <3>2, u \in Nat, v \in Nat, d \in {0, 1}, v >= u + d
    <3> QED  BY <2>1, <3>1, <3>2, <3>3
  <2> QED  BY <2>1, <2>2, <2>3
<1>9. Rises(g, t) /\ Roomy(g, t, v)
  BY <1>2, <1>7, <1>8 DEF Rises, Roomy
<1> QED  BY <1>2, <1>3, <1>7, <1>9 DEF Bounded

LEMMA BoundCall ==
  ASSUME NEW s, IsSeq(s), s # <<>>, NEW u \in Nat, NEW v \in Nat, NEW d \in {0, 1},
         v >= u + d, NEW k, NEW m, Bounded(s, u, k), NEW f, NEW g,
         Under(Last(s).at, f, g, d, m), NEW t, t = Append(Append(Front(s), f), g)
  PROVE  Bounded(t, v, m)
<1> DEFINE n == Len(s)
           r == Append(Front(s), f)
<1>1. n \in Nat \ {0} /\ Last(s) = s[n]
  BY SeqLength DEF Last
<1>2. IsSeq(r) /\ r # <<>> /\ Len(r) = n /\ r[n] = f /\ \A i \in 1..(n - 1) : r[i] = s[i]
  <2> HIDE DEF r
  <2>1. \A x : x = Append(Front(s), f) =>
          /\ IsSeq(x) /\ x # <<>> /\ Len(x) = n /\ x[n] = f
          /\ \A i \in 1..(n - 1) : x[i] = s[i]
    BY ONLY IsSeq(s), s # <<>>, ReplaceShape, ZenonT(40) DEF n
  <2> QED  BY <2>1 DEF r
<1>3. Len(t) = n + 1 /\ t[n + 1] = g /\ \A i \in 1..n : t[i] = r[i]
  BY <1>2, AppendShape
<1>4. Marked(t, m)
  <2>1. Marked(r, m)
    BY MarkReplace DEF Bounded, Under, After
  <2>2. Last(r) = f
    BY <1>2 DEF Last
  <2>3. t = Append(r, g) /\ f.at \notin OnBrace /\ Good(g, m)
    BY DEF Under
  <2> HIDE DEF r
  <2>4. IsSeq(r) /\ r # <<>> /\ Last(r).at \notin OnBrace
    BY ONLY <1>2, <2>2, <2>3
  <2> QED  BY ONLY <2>1, <2>3, <2>4, MarkPush
<1>5. PICK h \in [0..n -> Nat] : Rises(h, s) /\ Roomy(h, s, u)
  BY DEF Bounded
<1>6. h[0] = 0 /\ \A i \in 1..n : /\ h[i] = h[i - 1] + Activations(s[i].at)
                                  /\ h[i - 1] + Need(s[i].at) <= 2 + 4 * u
  BY <1>5 DEF Rises, Roomy
<1> HIDE DEF n, r
<1> DEFINE a == h[n - 1] + Activations(f.at)
           e == [i \in 0..(n + 1) |-> IF i = n + 1 THEN a + Activations(g.at)
                                      ELSE IF i = n THEN a ELSE h[i]]
<1>7. /\ h[n - 1] \in Nat /\ Activations(f.at) \in 1..2 /\ Need(f.at) \in 1..7
      /\ Activations(g.at) \in 1..2 /\ Need(g.at) \in 1..7 /\ Need(s[n].at) \in 1..7
      /\ \A i \in 1..n : Need(s[i].at) \in 1..7 /\ h[i - 1] \in Nat
  BY <1>1, NeedRange
<1>8. /\ e \in [0..(n + 1) -> Nat] /\ e[0] = 0 /\ e[n] = a /\ e[n + 1] = a + Activations(g.at)
      /\ \A i \in 0..(n - 1) : e[i] = h[i]
  <2>1. a \in Nat /\ a + Activations(g.at) \in Nat
    BY <1>7
  <2> HIDE DEF a
  <2>2. \A i \in 0..(n + 1) : i = n + 1 \/ i \in 0..n
    BY <1>1
  <2>3. e \in [0..(n + 1) -> Nat]
    BY ONLY <2>1, <2>2, h \in [0..n -> Nat], SMTT(20)
  <2>4. n \in 0..(n + 1) /\ n + 1 \in 0..(n + 1) /\ 0 \in 0..(n + 1) /\ 0 # n /\ 0 # n + 1
    BY <1>1
  <2>5. e[0] = 0 /\ e[n] = a /\ e[n + 1] = a + Activations(g.at)
    BY <1>1, <1>6, <2>4
  <2>6. \A i \in 0..(n - 1) : i \in 0..(n + 1) /\ i # n /\ i # n + 1
    BY <1>1
  <2> QED  BY <2>3, <2>5, <2>6
<1> HIDE DEF e
<1>9. h[n - 1] + Need(s[n].at) <= 2 + 4 * u
  BY <1>1, <1>6
<1>10. /\ Need(f.at) <= Need(s[n].at) + 4 * d
       /\ Activations(f.at) + Need(g.at) <= Need(s[n].at) + 4 * d
  BY <1>1 DEF Under, After
<1>11. h[n - 1] + Need(f.at) <= 2 + 4 * v /\ a + Need(g.at) <= 2 + 4 * v
  <2>1. Need(f.at) \in Nat /\ Need(s[n].at) \in Nat /\ Activations(f.at) + Need(g.at) \in Nat
    BY <1>7
  <2>2. h[n - 1] + Need(f.at) <= 2 + 4 * v
    BY <1>7, <1>9, <1>10, <2>1, RoomGrows
  <2>3. h[n - 1] + (Activations(f.at) + Need(g.at)) <= 2 + 4 * v
    BY <1>7, <1>9, <1>10, <2>1, RoomGrows
  <2>4. h[n - 1] \in Nat /\ Activations(f.at) \in Nat /\ Need(g.at) \in Nat
    BY <1>7
  <2>5. a + Need(g.at) = h[n - 1] + (Activations(f.at) + Need(g.at))
    BY ONLY <2>4
  <2> QED  BY <2>2, <2>3, <2>5
<1>12. ASSUME NEW i \in 1..(n + 1)
       PROVE  /\ e[i] = e[i - 1] + Activations(t[i].at)
              /\ e[i - 1] + Need(t[i].at) <= 2 + 4 * v
  <2>1. i = n + 1 \/ i = n \/ i \in 1..(n - 1)
    BY <1>1
  <2>2. CASE i = n + 1
    <3>0. (n + 1) - 1 = n
      BY ONLY <1>1
    <3>1. e[i - 1] = a /\ t[i] = g
      BY ONLY <1>3, <1>8, <2>2, <3>0
    <3> QED  BY <1>8, <1>11, <2>2, <3>1
  <2>3. CASE i = n
    <3>0. n - 1 \in 0..(n - 1) /\ n \in 1..n
      BY ONLY <1>1
    <3>1. e[i - 1] = h[n - 1] /\ t[i] = f /\ e[i] = a
      BY ONLY <1>2, <1>3, <1>8, <2>3, <3>0
    <3>2. a = h[n - 1] + Activations(f.at)
      OBVIOUS
    <3>3. h[n - 1] + Need(f.at) <= 2 + 4 * v
      BY <1>11
    <3> QED  BY <3>1, <3>2, <3>3
  <2>4. CASE i \in 1..(n - 1)
    <3>0. i \in 0..(n - 1) /\ i - 1 \in 0..(n - 1) /\ i \in 1..n
      BY ONLY <1>1, <2>4
    <3>1. e[i] = h[i] /\ e[i - 1] = h[i - 1] /\ t[i] = s[i] /\ i \in 1..n
      <4>1. e[i] = h[i] /\ e[i - 1] = h[i - 1]
        BY ONLY <1>8, <3>0
      <4>2. t[i] = r[i] /\ r[i] = s[i]
        BY ONLY <1>2, <1>3, <2>4, <3>0
      <4> QED  BY <3>0, <4>1, <4>2
    <3>2. h[i - 1] + Need(s[i].at) <= 2 + 4 * u /\ h[i] = h[i - 1] + Activations(s[i].at)
      BY <1>6, <3>1
    <3>3. h[i - 1] \in Nat /\ Need(s[i].at) \in Nat
      <4>1. h[i - 1] \in Nat /\ Need(s[i].at) \in 1..7
        BY ONLY <1>7, <3>0
      <4> QED  BY ONLY <4>1
    <3>4. h[i - 1] + Need(s[i].at) <= 2 + 4 * v
      <4>1. v >= u
        BY ONLY u \in Nat, v \in Nat, d \in {0, 1}, v >= u + d
      <4> QED  BY ONLY <3>2, <3>3, <4>1, u \in Nat, v \in Nat
    <3> QED  BY <3>1, <3>2, <3>4
  <2> QED  BY <2>1, <2>2, <2>3, <2>4
<1>13. Rises(e, t) /\ Roomy(e, t, v)
  BY <1>3, <1>8, <1>12 DEF Rises, Roomy
<1> QED  BY <1>3, <1>4, <1>8, <1>13 DEF Bounded

LEMMA BoundPop ==
  ASSUME NEW s, IsSeq(s), s # <<>>, NEW u \in Nat, NEW v \in Nat, v >= u, NEW k, NEW m,
         Bounded(s, u, k), NEW t, t = Front(s)
  PROVE  Bounded(t, v, m)
<1> DEFINE n == Len(s)
<1>1. n \in Nat \ {0} /\ Len(t) = n - 1 /\ \A i \in 1..(n - 1) : t[i] = s[i]
  BY FrontShape
<1>2. Marked(t, m)
  <2>1. \A i \in 1..n : /\ s[i].at \in OnBrace => i = n
                        /\ s[i].at \in PrecLabels => s[i].prec \in Nat
    BY DEF Bounded, Marked
  <2>2. \A i \in 1..(n - 1) : i \in 1..n /\ i # n
    BY <1>1
  <2> HIDE DEF n
  <2> QED  BY <1>1, <2>1, <2>2 DEF Marked
<1>3. PICK h \in [0..n -> Nat] : Rises(h, s) /\ Roomy(h, s, u)
  BY DEF Bounded
<1>4. h[0] = 0 /\ \A i \in 1..n : /\ h[i] = h[i - 1] + Activations(s[i].at)
                                  /\ h[i - 1] + Need(s[i].at) <= 2 + 4 * u
  BY <1>3 DEF Rises, Roomy
<1> HIDE DEF n
<1> DEFINE g == [i \in 0..(n - 1) |-> h[i]]
<1>5. g \in [0..(n - 1) -> Nat] /\ \A i \in 0..(n - 1) : g[i] = h[i]
  BY <1>1
<1> HIDE DEF g
<1>6. ASSUME NEW i \in 1..(n - 1)
      PROVE  /\ g[i] = g[i - 1] + Activations(t[i].at)
             /\ g[i - 1] + Need(t[i].at) <= 2 + 4 * v
  <2>1. g[i] = h[i] /\ g[i - 1] = h[i - 1] /\ t[i] = s[i] /\ i \in 1..n
    BY <1>1, <1>5
  <2>2. h[i - 1] + Need(s[i].at) <= 2 + 4 * u /\ h[i] = h[i - 1] + Activations(s[i].at)
    BY <1>4, <2>1
  <2>3. h[i - 1] \in Nat /\ Need(s[i].at) \in 1..7
    BY <1>1, NeedRange
  <2>4. h[i - 1] + Need(s[i].at) <= 2 + 4 * v
    BY ONLY <2>2, <2>3, u \in Nat, v \in Nat, v >= u
  <2> QED  BY <2>1, <2>2, <2>4
<1>7. g[0] = 0
  BY <1>1, <1>4, <1>5
<1>8. Rises(g, t) /\ Roomy(g, t, v)
  BY <1>1, <1>6, <1>7 DEF Rises, Roomy
<1> QED  BY <1>1, <1>2, <1>5, <1>8 DEF Bounded

LEMMA BoundStay ==
  ASSUME NEW s, IsSeq(s), s # <<>>, NEW u \in Nat, NEW v \in Nat, v >= u, NEW k, NEW m,
         Bounded(s, u, k), Last(s).at \notin OnBrace
  PROVE  Bounded(s, v, m)
<1> DEFINE n == Len(s)
<1>1. n \in Nat \ {0} /\ Last(s) = s[n]
  BY SeqLength DEF Last
<1>2. \A i \in 1..n : /\ s[i].at \in OnBrace => i = n
                      /\ s[i].at \in PrecLabels => s[i].prec \in Nat
  BY DEF Bounded, Marked
<1>3. Marked(s, m)
  BY <1>1, <1>2 DEF Marked
<1>4. PICK h \in [0..n -> Nat] : Rises(h, s) /\ Roomy(h, s, u)
  BY DEF Bounded
<1>5. ASSUME NEW i \in 1..n PROVE h[i - 1] + Need(s[i].at) <= 2 + 4 * v
  <2>1. h[i - 1] + Need(s[i].at) <= 2 + 4 * u
    BY <1>4 DEF Roomy
  <2>2. i - 1 \in 0..n /\ Need(s[i].at) \in 1..7
    BY <1>1, NeedRange
  <2>3. h[i - 1] \in Nat
    BY <1>4, <2>2
  <2> QED  BY ONLY <2>1, <2>2, <2>3, u \in Nat, v \in Nat, v >= u
<1>6. Roomy(h, s, v)
  BY <1>5 DEF Roomy
<1> QED  BY <1>3, <1>4, <1>6 DEF Bounded

\* The tokens used are counted: one for every advance before the end.
LEMMA StayGains == ASSUME DepthInv, NEW c, Stay(c) PROVE Gained(0) /\ curr' = curr
BY DEF Stay, lexVars, Gained, DepthInv, Used, Kind

LEMMA AdvanceGains ==
  ASSUME DepthInv, TokenInv, NEW c, advance(c)
  PROVE  Gained(0) /\ (Kind # "EOF" => Gained(1))
<1>1. PICK t \in Upcoming : curr' = t /\ fed' = IF t.kind = "EOF" THEN fed ELSE fed + 1
  BY DEF advance
<1>2. Kind = "EOF" => t.kind = "EOF"
  BY <1>1 DEF Upcoming, Tok
<1>3. fed \in Nat
  BY DEF TokenInv
<1> QED  BY <1>1, <1>2, <1>3 DEF Gained, DepthInv, Used, Kind

LEMMA ExpectGains ==
  ASSUME DepthInv, TokenInv, NEW k, k # "EOF", NEW b, NEW c, Expect(k, b, c)
  PROVE  Gained(0) /\ (Kind = k => Gained(1))
BY StayGains, AdvanceGains DEF Expect

LEMMA ConsumeGains ==
  ASSUME DepthInv, TokenInv, NEW k, k # "EOF", consume(k)
  PROVE  Gained(0) /\ (Kind = k => Gained(1))
BY ExpectGains DEF consume

LEMMA MatchGains ==
  ASSUME DepthInv, TokenInv, NEW k, k # "EOF", Match(k)
  PROVE  Gained(0) /\ Gained(1)
BY AdvanceGains DEF Match

LEMMA IdleGains == ASSUME DepthInv, Idle PROVE Gained(0) /\ curr' = curr
BY StayGains DEF Idle

LEMMA ErrorGains == ASSUME DepthInv, parser_error PROVE Gained(0) /\ curr' = curr
BY StayGains DEF parser_error

\* What an action may build on: the parser is at the place Top.at.
Running == StackInv /\ DepthInv /\ TokenInv /\ status = "run"

LEMMA RunStack ==
  ASSUME Running PROVE IsSeq(stack) /\ stack # <<>> /\ Top = Last(stack)
                       /\ Used \in Nat /\ Bounded(stack, Used, Kind)
BY DEF Running, StackInv, StackOK, Top, DepthInv

LEMMA ResumeDeep ==
  ASSUME Running, NEW d \in {0, 1}, Gained(d), NEW f, NEW v, Resume(f, v),
         After(Top.at, f, d, Kind')
  PROVE  DepthInv'
<1>1. Used' \in Nat /\ Used' >= Used + d /\ stack' = Append(Front(stack), f)
  BY DEF Gained, Resume
<1>2. Bounded(stack', Used', Kind')
  BY <1>1, RunStack, BoundReplace
<1> QED  BY <1>1, <1>2 DEF DepthInv

LEMMA GotoDeep ==
  ASSUME Running, NEW d \in {0, 1}, Gained(d), NEW f, Goto(f), After(Top.at, f, d, Kind')
  PROVE  DepthInv'
BY ResumeDeep DEF Goto

LEMMA CallDeep ==
  ASSUME Running, NEW d \in {0, 1}, Gained(d), NEW f, NEW g, Call(f, g),
         Under(Top.at, f, g, d, Kind')
  PROVE  DepthInv'
<1>1. Used' \in Nat /\ Used' >= Used + d /\ stack' = Append(Append(Front(stack), f), g)
  BY DEF Gained, Call
<1>2. Bounded(stack', Used', Kind')
  BY <1>1, RunStack, BoundCall
<1> QED  BY <1>1, <1>2 DEF DepthInv

LEMMA ReturnDeep == ASSUME Running, Gained(0), NEW v, Return(v) PROVE DepthInv'
<1>1. Used' \in Nat /\ Used' >= Used /\ stack' = Front(stack)
  BY RunStack DEF Gained, Return
<1>2. Bounded(stack', Used', Kind')
  BY <1>1, RunStack, BoundPop
<1> QED  BY <1>1, <1>2 DEF DepthInv

LEMMA StillDeep ==
  ASSUME Running, Gained(0), stack' = stack, Top.at \notin OnBrace PROVE DepthInv'
<1>1. Used' \in Nat /\ Used' >= Used /\ Used \in Nat /\ Bounded(stack, Used, Kind)
  BY RunStack DEF Gained
<1>2. Bounded(stack, Used', Kind')
  BY <1>1, RunStack, BoundStay
<1> QED  BY <1>1, <1>2 DEF DepthInv

\* The needs and the activations, one by one.
LEMMA NeedTable ==
  /\ Need("asg_rhs") = 1 /\ Need("plus") = 1 /\ Need("neg") = 1 /\ Need("not") = 1
  /\ Need("sync") = 1 /\ Need("decl") = 1 /\ Need("decl_type") = 1
  /\ Need("decl_name") = 1 /\ Need("stmt_end") = 1 /\ Need("semi") = 1
  /\ Need("stmt_expr") = 1 /\ Need("stmt_rhs") = 1 /\ Need("ret_end") = 1
  /\ Need("dims") = 1 /\ Need("dim_len") = 1 /\ Need("dim_close") = 1
  /\ Need("bin_lhs") = 2 /\ Need("bin_rhs") = 2 /\ Need("unary") = 2
  /\ Need("paren") = 2 /\ Need("index") = 2 /\ Need("index_close") = 2
  /\ Need("var_define") = 2 /\ Need("var_init") = 2 /\ Need("var_check") = 2
  /\ Need("var_next") = 2 /\ Need("var_name") = 2 /\ Need("globals") = 2
  /\ Need("globals_ret") = 2 /\ Need("globals_skip") = 2 /\ Need("asg_lhs") = 2
  /\ Need("init") = 2 /\ Need("init_more") = 2 /\ Need("if_else") = 2
  /\ Need("ident") = 3 /\ Need("args_more") = 3 /\ Need("var") = 3
  /\ Need("decl_kind") = 3 /\ Need("block_open") = 3 /\ Need("binary") = 4
  /\ Need("assign") = 5 /\ Need("stmt") = 5 /\ Need("ret_value") = 5
  /\ Need("cond_open") = 6 /\ Need("cond_close") = 6 /\ Need("init_first") = 6
  /\ Need("init_elem") = 6 /\ Need("var_value") = 6 /\ Need("func_enter") = 7
  /\ Need("params") = 7 /\ Need("param") = 7 /\ Need("param_name") = 7
  /\ Need("param_dims") = 7 /\ Need("param_len") = 7 /\ Need("param_close") = 7
  /\ Need("param_define") = 7 /\ Need("param_next") = 7 /\ Need("body_open") = 7
  /\ Need("body") = 7 /\ Need("block") = 7 /\ Need("args") = 7
BY SMTT(30) DEF Need, Paired, RootLabels, HeadLabels, FuncLabels

LEMMA ActivationTable ==
  /\ Activations("func_enter") = 2 /\ Activations("params") = 2
  /\ Activations("param") = 2 /\ Activations("param_name") = 2
  /\ Activations("param_dims") = 2 /\ Activations("param_len") = 2
  /\ Activations("param_close") = 2 /\ Activations("param_define") = 2
  /\ Activations("param_next") = 2 /\ Activations("body_open") = 2
  /\ Activations("body") = 2 /\ Activations("block") = 2 /\ Activations("args") = 2
  /\ Activations("var_value") = 2 /\ Activations("binary") = 2
  /\ Activations("ident") = 2 /\ Activations("args_more") = 2
  /\ Activations("var") = 2 /\ Activations("block_open") = 2
  /\ Activations("bin_lhs") = 2 /\ Activations("bin_rhs") = 2
  /\ Activations("unary") = 2 /\ Activations("paren") = 2 /\ Activations("index") = 2
  /\ Activations("index_close") = 2 /\ Activations("var_define") = 2
  /\ Activations("var_init") = 2 /\ Activations("var_check") = 2
  /\ Activations("var_next") = 2 /\ Activations("var_name") = 2
  /\ Activations("cond_open") = 1 /\ Activations("cond_close") = 1
  /\ Activations("init_first") = 1 /\ Activations("init_elem") = 1
  /\ Activations("assign") = 1 /\ Activations("stmt") = 1
  /\ Activations("ret_value") = 1 /\ Activations("decl_kind") = 1
  /\ Activations("globals") = 1 /\ Activations("globals_ret") = 1
  /\ Activations("globals_skip") = 1 /\ Activations("asg_lhs") = 1
  /\ Activations("init") = 1 /\ Activations("init_more") = 1
  /\ Activations("if_else") = 1 /\ Activations("asg_rhs") = 1
  /\ Activations("plus") = 1 /\ Activations("neg") = 1 /\ Activations("not") = 1
  /\ Activations("sync") = 1 /\ Activations("decl") = 1
  /\ Activations("decl_type") = 1 /\ Activations("decl_name") = 1
  /\ Activations("stmt_end") = 1 /\ Activations("semi") = 1
  /\ Activations("stmt_expr") = 1 /\ Activations("stmt_rhs") = 1
  /\ Activations("ret_end") = 1 /\ Activations("dims") = 1
  /\ Activations("dim_len") = 1 /\ Activations("dim_close") = 1
BY SMTT(30) DEF Activations, Paired, HeadLabels, FuncLabels

\* Parts of calls.
LEMMA CallExprDeep ==
  ASSUME Running, NEW d \in {0, 1}, Gained(d), NEW f, CallExpr(f), f.at \notin OnBrace,
         After(Top.at, f, d, Kind'), Activations(f.at) + 4 <= Need(Top.at) + 4 * d
  PROVE  DepthInv'
<1> DEFINE g == [at |-> "binary", prec |-> 0]
<1>1. Call(f, g) /\ g.at = "binary" /\ g.prec = 0
  BY DEF CallExpr
<1> HIDE DEF g
<1>2. Under(Top.at, f, g, d, Kind')
  BY <1>1, NeedTable, ActivationTable DEF Under, Good, OnBrace, PrecLabels
<1> QED  BY <1>1, <1>2, CallDeep

LEMMA CallAssignDeep ==
  ASSUME Running, NEW d \in {0, 1}, Gained(d), NEW f, CallAssign(f), f.at \notin OnBrace,
         After(Top.at, f, d, Kind'), Activations(f.at) + 5 <= Need(Top.at) + 4 * d
  PROVE  DepthInv'
<1> DEFINE g == Frame("assign")
<1>1. Call(f, g) /\ g.at = "assign"
  BY DEF CallAssign, Frame
<1> HIDE DEF g
<1>2. Under(Top.at, f, g, d, Kind')
  BY <1>1, NeedTable, ActivationTable DEF Under, Good, OnBrace, PrecLabels
<1> QED  BY <1>1, <1>2, CallDeep

LEMMA CallStmtDeep ==
  ASSUME Running, NEW d \in {0, 1}, Gained(d), NEW f, CallStmt(f), f.at \notin OnBrace,
         After(Top.at, f, d, Kind'), Activations(f.at) + 5 <= Need(Top.at) + 4 * d
  PROVE  DepthInv'
<1> DEFINE g == Frame("stmt")
<1>1. Call(f, g) /\ g.at = "stmt"
  BY DEF CallStmt, Frame
<1> HIDE DEF g
<1>2. Under(Top.at, f, g, d, Kind')
  BY <1>1, NeedTable, ActivationTable DEF Under, Good, OnBrace, PrecLabels
<1> QED  BY <1>1, <1>2, CallDeep

LEMMA OnBraceKind == ASSUME Running, Top.at \in OnBrace PROVE Kind = "L_BRACE"
<1>1. Len(stack) \in Nat \ {0} /\ Top = stack[Len(stack)]
  BY RunStack, SeqLength DEF Last
<1> QED  BY <1>1, RunStack DEF Bounded, Marked

LEMMA TopPrec == ASSUME Running, Top.at \in PrecLabels PROVE Top.prec \in Nat
<1>1. Len(stack) \in Nat \ {0} /\ Top = stack[Len(stack)]
  BY RunStack, SeqLength DEF Last
<1> QED  BY <1>1, RunStack DEF Bounded, Marked

LEMMA OperatorKind ==
  ASSUME NEW p \in Nat, get_prec(Kind) >= p PROVE Kind # "EOF" /\ get_prec(Kind) \in Nat
BY DEF get_prec

LEMMA ExpressionsDeep ==
  ASSUME StackInv, DepthInv, TokenInv, Expressions PROVE DepthInv'
<1>0. ASSUME status = "run"
      PROVE  Running /\ "at" \in DOMAIN Top
  BY <1>0, TopFacts DEF Running
<1>1. CASE ParseBinary
  BY <1>0, <1>1, CallDeep, NeedTable, ActivationTable, TopPrec, IdleGains
     DEF ParseBinary, At, Frame,
     Under, After, Good, OnBrace, PrecLabels
<1>2. CASE BinaryOperator
  <2>1. Kind # "EOF"
    BY <1>0, <1>2, TopPrec, OperatorKind DEF BinaryOperator, At, PrecLabels
  <2>2. Gained(1)
    BY <1>0, <1>2, <2>1, AdvanceGains DEF BinaryOperator
  <2>3. PICK f, g : /\ Call(f, g) /\ f.at = "bin_rhs" /\ f.prec = Top.prec
                    /\ g.at = "binary" /\ g.prec = get_prec(Kind) + 1
    BY <1>2 DEF BinaryOperator
  <2>4. Under(Top.at, f, g, 1, Kind')
    BY <1>0, <1>2, <2>3, TopPrec, OperatorKind, NeedTable, ActivationTable
       DEF BinaryOperator, At, Under, After, Good, OnBrace, PrecLabels
  <2> QED  BY <1>0, <1>2, <2>2, <2>3, <2>4, CallDeep DEF BinaryOperator, At
<1>3. CASE BinaryEnd
  BY <1>0, <1>3, ReturnDeep, IdleGains DEF BinaryEnd, At
<1>4. CASE BinaryBuild
  BY <1>0, <1>4, ResumeDeep, NeedTable, ActivationTable, TopPrec, StayGains
     DEF BinaryBuild, At,
     Frame, After, Good, OnBrace, PrecLabels
<1>5. CASE BinaryNull
  BY <1>0, <1>5, StillDeep, IdleGains DEF BinaryNull, At, Die, OnBrace, Crash
<1>6. CASE ParseAssign
  BY <1>0, <1>6, CallExprDeep, NeedTable, ActivationTable, IdleGains
     DEF ParseAssign, At, Frame,
     After, Good, OnBrace, PrecLabels
<1>7. CASE AssignOperator
  BY <1>0, <1>7, CallAssignDeep, NeedTable, ActivationTable, MatchGains
     DEF AssignOperator, At,
     Frame, After, Good, OnBrace, PrecLabels
<1>8. CASE AssignNone
  BY <1>0, <1>8, ReturnDeep, IdleGains DEF AssignNone, At
<1>9. CASE AssignBuild
  BY <1>0, <1>9, ReturnDeep, StayGains DEF AssignBuild, At
<1>10. CASE AssignNull
  BY <1>0, <1>10, StillDeep, IdleGains DEF AssignNull, At, Die, OnBrace, Crash
<1>11. CASE UnaryOperator
  <2>1. \E l \in {"plus", "neg", "not"} : Call(Frame(l), Frame("unary"))
    BY <1>11 DEF UnaryOperator, PrefixOps
  <2>2. \A l \in {"plus", "neg", "not"} : Under(Top.at, Frame(l), Frame("unary"), 1, Kind')
    BY <1>11, NeedTable, ActivationTable
       DEF UnaryOperator, At, Frame, Under, After, Good, OnBrace, PrecLabels
  <2>3. Gained(1) /\ Running
    BY <1>0, <1>11, AdvanceGains DEF UnaryOperator, At, PrefixOps
  <2> QED  BY <2>1, <2>2, <2>3, CallDeep
<1>12. CASE UnaryBuild
  BY <1>0, <1>12, ReturnDeep, IdleGains DEF UnaryBuild, At
<1>13. CASE PrimaryLiteral
  BY <1>0, <1>13, ReturnDeep, AdvanceGains DEF PrimaryLiteral, At
<1>14. CASE PrimaryParen
  BY <1>0, <1>14, CallExprDeep, NeedTable, ActivationTable, MatchGains
     DEF PrimaryParen, At, Frame,
     After, Good, OnBrace, PrecLabels
<1>15. CASE ParenClose
  BY <1>0, <1>15, ReturnDeep, ConsumeGains DEF ParenClose, At
<1>16. CASE PrimaryIdent
  BY <1>0, <1>16, GotoDeep, NeedTable, ActivationTable, MatchGains
     DEF PrimaryIdent, At, Frame,
     After, Good, OnBrace, PrecLabels
<1>17. CASE PrimaryNone
  BY <1>0, <1>17, ReturnDeep, ErrorGains DEF PrimaryNone, At
<1>18. CASE CallOpen
  BY <1>0, <1>18, GotoDeep, NeedTable, ActivationTable, ExpectGains
     DEF CallOpen, At, Frame, After,
     Good, OnBrace, PrecLabels
<1>19. CASE ArgFirst
  BY <1>0, <1>19, CallAssignDeep, NeedTable, ActivationTable, Retag, IdleGains
     DEF ArgFirst, At,
     Frame, After, Good, OnBrace, PrecLabels
<1>20. CASE ArgNext
  BY <1>0, <1>20, CallAssignDeep, NeedTable, ActivationTable, MatchGains
     DEF ArgNext, At, Frame,
     After, Good, OnBrace, PrecLabels
<1>21. CASE CallClose
  BY <1>0, <1>21, ReturnDeep, ConsumeGains DEF CallClose, At, AtArgsEnd
<1>22. CASE CallTypeless
  BY <1>0, <1>22, StillDeep, ConsumeGains DEF CallTypeless, At, Die, OnBrace,
     AtArgsEnd
<1>23. CASE Variable
  BY <1>0, <1>23, ResumeDeep, NeedTable, ActivationTable, IdleGains, ErrorGains
     DEF Variable, At,
     Frame, After, Good, OnBrace, PrecLabels
<1>24. CASE IndexOpen
  BY <1>0, <1>24, CallExprDeep, NeedTable, ActivationTable, MatchGains
     DEF IndexOpen, At, Frame,
     After, Good, OnBrace, PrecLabels
<1>25. CASE IndexEnd
  BY <1>0, <1>25, ReturnDeep, IdleGains DEF IndexEnd, At
<1>26. CASE IndexClose
  BY <1>0, <1>26, ResumeDeep, NeedTable, ActivationTable, ExpectGains
     DEF IndexClose, At, Frame,
     After, Good, OnBrace, PrecLabels
<1> QED  BY <1>1, <1>2, <1>3, <1>4, <1>5, <1>6, <1>7, <1>8, <1>9, <1>10, <1>11,
     <1>12, <1>13, <1>14, <1>15, <1>16, <1>17, <1>18, <1>19, <1>20, <1>21, <1>22,
     <1>23, <1>24, <1>25, <1>26 DEF Expressions

LEMMA StatementsDeep ==
  ASSUME StackInv, DepthInv, TokenInv, Statements PROVE DepthInv'
<1>0. ASSUME status = "run"
      PROVE  Running /\ "at" \in DOMAIN Top
  BY <1>0, TopFacts DEF Running
<1>1. CASE BlockOpen
  BY <1>0, <1>1, GotoDeep, NeedTable, ActivationTable, OnBraceKind, ConsumeGains
     DEF BlockOpen, At,
     Frame, After, Good, OnBrace, PrecLabels, BlockFrame
<1>2. CASE BlockSync
  BY <1>0, <1>2, CallDeep, NeedTable, ActivationTable, StayGains
     DEF BlockSync, At, Frame, Under,
     After, Good, OnBrace, PrecLabels, InBlock, AtBlock
<1>3. CASE BlockSkip
  BY <1>0, <1>3, StillDeep, AdvanceGains DEF BlockSkip, At, Die, OnBrace, InBlock,
     AtBlock
<1>4. CASE BlockDecl
  BY <1>0, <1>4, CallDeep, NeedTable, ActivationTable, IdleGains
     DEF BlockDecl, At, Frame, Under,
     After, Good, OnBrace, PrecLabels, InBlock, AtBlock
<1>5. CASE BlockStmt
  BY <1>0, <1>5, CallStmtDeep, NeedTable, ActivationTable, IdleGains
     DEF BlockStmt, At, Frame, After,
     Good, OnBrace, PrecLabels, InBlock, AtBlock
<1>6. CASE BlockEnd
  BY <1>0, <1>6, ReturnDeep, ConsumeGains DEF BlockEnd, At
<1>7. CASE StmtCond
  BY <1>0, <1>7, GotoDeep, NeedTable, ActivationTable, MatchGains
     DEF StmtCond, At, Frame, After,
     Good, OnBrace, PrecLabels
<1>8. CASE CondOpen
  BY <1>0, <1>8, CallExprDeep, NeedTable, ActivationTable, Retag, ConsumeGains
     DEF CondOpen, At,
     Frame, After, Good, OnBrace, PrecLabels
<1>9. CASE CondClose
  <2>1. PICK l \in {"if_else", "stmt_end"} : CallStmt(Frame(l))
    BY <1>9 DEF CondClose
  <2>2. Frame(l).at = l /\ Top.at = "cond_close" /\ Gained(0)
    BY <1>9, ConsumeGains DEF CondClose, At, Frame
  <2>3. /\ Frame(l).at \notin OnBrace /\ After(Top.at, Frame(l), 0, Kind')
        /\ Activations(Frame(l).at) + 5 <= Need(Top.at) + 4 * 0
    BY <2>2, NeedTable, ActivationTable DEF After, Good, OnBrace, PrecLabels
  <2> QED  BY <1>0, <1>9, <2>1, <2>2, <2>3, CallStmtDeep DEF CondClose, At
<1>10. CASE StmtElse
  BY <1>0, <1>10, CallStmtDeep, NeedTable, ActivationTable, MatchGains
     DEF StmtElse, At, Frame, After,
     Good, OnBrace, PrecLabels
<1>11. CASE StmtNoElse
  BY <1>0, <1>11, ReturnDeep, IdleGains DEF StmtNoElse, At
<1>12. CASE StmtJump
  BY <1>0, <1>12, GotoDeep, NeedTable, ActivationTable, MatchGains
     DEF StmtJump, At, Frame, After,
     Good, OnBrace, PrecLabels
<1>13. CASE Semicolon
  BY <1>0, <1>13, ReturnDeep, ConsumeGains DEF Semicolon, At
<1>14. CASE StmtBlock
  BY <1>0, <1>14, GotoDeep, NeedTable, ActivationTable, IdleGains
     DEF StmtBlock, At, Frame, After,
     Good, OnBrace, PrecLabels, Kind
<1>15. CASE StmtReturn
  BY <1>0, <1>15, GotoDeep, NeedTable, ActivationTable, MatchGains
     DEF StmtReturn, At, Frame, After,
     Good, OnBrace, PrecLabels
<1>16. CASE ReturnValue
  BY <1>0, <1>16, CallExprDeep, NeedTable, ActivationTable, IdleGains
     DEF ReturnValue, At, Frame,
     After, Good, OnBrace, PrecLabels
<1>17. CASE ReturnEnd
  BY <1>0, <1>17, ReturnDeep, ExpectGains DEF ReturnEnd, At
<1>18. CASE ReturnVoid
  BY <1>0, <1>18, ReturnDeep, StillDeep, ExpectGains, ConsumeGains DEF ReturnVoid,
     At, Die, OnBrace
<1>19. CASE StmtExpr
  BY <1>0, <1>19, CallExprDeep, NeedTable, ActivationTable, IdleGains
     DEF StmtExpr, At, Frame, After,
     Good, OnBrace, PrecLabels
<1>20. CASE StmtExprNull
  BY <1>0, <1>20, ReturnDeep, IdleGains DEF StmtExprNull, At
<1>21. CASE StmtAssign
  BY <1>0, <1>21, CallExprDeep, NeedTable, ActivationTable, MatchGains
     DEF StmtAssign, At, Frame,
     After, Good, OnBrace, PrecLabels
<1>22. CASE StmtAssignBuild
  BY <1>0, <1>22, GotoDeep, NeedTable, ActivationTable, ErrorGains, StayGains
     DEF StmtAssignBuild,
     At, Frame, After, Good, OnBrace, PrecLabels
<1>23. CASE StmtExprEnd
  BY <1>0, <1>23, ReturnDeep, ConsumeGains DEF StmtExprEnd, At
<1>24. CASE StmtEnd
  BY <1>0, <1>24, ReturnDeep, IdleGains DEF StmtEnd, At
<1> QED  BY <1>1, <1>2, <1>3, <1>4, <1>5, <1>6, <1>7, <1>8, <1>9, <1>10, <1>11,
     <1>12, <1>13, <1>14, <1>15, <1>16, <1>17, <1>18, <1>19, <1>20, <1>21, <1>22,
     <1>23, <1>24 DEF Statements

LEMMA DeclarationsDeep ==
  ASSUME StackInv, DepthInv, TokenInv, Declarations PROVE DepthInv'
<1>0. ASSUME status = "run"
      PROVE  Running /\ "at" \in DOMAIN Top
  BY <1>0, TopFacts DEF Running
<1>1. CASE DeclConst
  BY <1>0, <1>1, GotoDeep, NeedTable, ActivationTable, MatchGains
     DEF DeclConst, At, Frame, After,
     Good, OnBrace, PrecLabels
<1>2. CASE DeclNotConst
  BY <1>0, <1>2, GotoDeep, NeedTable, ActivationTable, IdleGains
     DEF DeclNotConst, At, Frame, After,
     Good, OnBrace, PrecLabels
<1>3. CASE DeclType
  BY <1>0, <1>3, GotoDeep, NeedTable, ActivationTable, AdvanceGains
     DEF DeclType, At, Frame, After,
     Good, OnBrace, PrecLabels
<1>4. CASE DeclNoType
  BY <1>0, <1>4, ReturnDeep, ErrorGains, AdvanceGains, IdleGains DEF DeclNoType, At
<1>5. CASE DeclName
  BY <1>0, <1>5, GotoDeep, NeedTable, ActivationTable, MatchGains
     DEF DeclName, At, Frame, After,
     Good, OnBrace, PrecLabels
<1>6. CASE DeclNoName
  BY <1>0, <1>6, ReturnDeep, ErrorGains DEF DeclNoName, At
<1>7. CASE DeclVars
  BY <1>0, <1>7, GotoDeep, NeedTable, ActivationTable, Retag, IdleGains
     DEF DeclVars, At, Frame,
     After, Good, OnBrace, PrecLabels
<1>8. CASE VarDims
  BY <1>0, <1>8, CallDeep, NeedTable, ActivationTable, Retag, IdleGains
     DEF VarDims, At, Frame,
     Under, After, Good, OnBrace, PrecLabels
<1>9. CASE VarDefine
  BY <1>0, <1>9, GotoDeep, NeedTable, ActivationTable, StayGains
     DEF VarDefine, At, Frame, After,
     Good, OnBrace, PrecLabels
<1>10. CASE VarAssign
  BY <1>0, <1>10, GotoDeep, NeedTable, ActivationTable, Retag, MatchGains
     DEF VarAssign, At, Frame,
     After, Good, OnBrace, PrecLabels
<1>11. CASE VarNoInit
  BY <1>0, <1>11, GotoDeep, NeedTable, ActivationTable, ErrorGains, IdleGains
     DEF VarNoInit, At,
     Frame, After, Good, OnBrace, PrecLabels, VarRest
<1>12. CASE VarInitList
  BY <1>0, <1>12, CallDeep, NeedTable, ActivationTable, IdleGains
     DEF VarInitList, At, Frame, Under,
     After, Good, OnBrace, PrecLabels, VarRest, Kind
<1>13. CASE VarInitExpr
  BY <1>0, <1>13, CallExprDeep, NeedTable, ActivationTable, Retag, IdleGains
     DEF VarInitExpr, At,
     Frame, After, Good, OnBrace, PrecLabels
<1>14. CASE VarCheck
  <2>1. Gained(0) /\ Goto(VarRest) /\ At("var_check")
    BY <1>14, StayGains, Zenon DEF VarCheck
  <2> QED  BY <1>0, <2>1, GotoDeep, NeedTable, ActivationTable
     DEF At, After, Good, OnBrace, PrecLabels, VarRest
<1>15. CASE VarComma
  BY <1>0, <1>15, GotoDeep, NeedTable, ActivationTable, Retag, MatchGains
     DEF VarComma, At, Frame,
     After, Good, OnBrace, PrecLabels
<1>16. CASE VarEnd
  BY <1>0, <1>16, ReturnDeep, ConsumeGains DEF VarEnd, At
<1>17. CASE VarName
  BY <1>0, <1>17, GotoDeep, NeedTable, ActivationTable, MatchGains
     DEF VarName, At, Frame, After,
     Good, OnBrace, PrecLabels
<1>18. CASE VarNoName
  BY <1>0, <1>18, ReturnDeep, ExpectGains DEF VarNoName, At
<1>19. CASE DimOpen
  BY <1>0, <1>19, GotoDeep, NeedTable, ActivationTable, Retag, MatchGains
     DEF DimOpen, At, Frame,
     After, Good, OnBrace, PrecLabels
<1>20. CASE DimsEnd
  BY <1>0, <1>20, ReturnDeep, IdleGains DEF DimsEnd, At
<1>21. CASE DimLen
  BY <1>0, <1>21, GotoDeep, NeedTable, ActivationTable, MatchGains
     DEF DimLen, At, Frame, After,
     Good, OnBrace, PrecLabels
<1>22. CASE DimNoLen
  BY <1>0, <1>22, GotoDeep, NeedTable, ActivationTable, Retag, AdvanceGains, StayGains
     DEF DimNoLen,
     At, Frame, After, Good, OnBrace, PrecLabels
<1>23. CASE DimClose
  BY <1>0, <1>23, GotoDeep, NeedTable, ActivationTable, ConsumeGains
     DEF DimClose, At, Frame, After,
     Good, OnBrace, PrecLabels
<1>24. CASE DimNull
  BY <1>0, <1>24, StillDeep, ConsumeGains DEF DimNull, At, Die, OnBrace
<1>25. CASE InitOpen
  BY <1>0, <1>25, GotoDeep, NeedTable, ActivationTable, OnBraceKind, ConsumeGains
     DEF InitOpen, At,
     Frame, After, Good, OnBrace, PrecLabels
<1>26. CASE InitEmpty
  BY <1>0, <1>26, ReturnDeep, MatchGains DEF InitEmpty, At
<1>27. CASE InitElem
  <2>1. CASE Kind = "L_BRACE"
    BY <1>0, <1>27, <2>1, CallDeep, NeedTable, ActivationTable, IdleGains
       DEF InitElem, At, Frame, Kind,
       Under, After, Good, OnBrace, PrecLabels
  <2>2. CASE Kind # "L_BRACE"
    BY <1>0, <1>27, <2>2, CallAssignDeep, NeedTable, ActivationTable, IdleGains
       DEF InitElem, At, Frame,
       After, Good, OnBrace, PrecLabels
  <2> QED  BY <2>1, <2>2
<1>28. CASE InitComma
  BY <1>0, <1>28, GotoDeep, NeedTable, ActivationTable, MatchGains
     DEF InitComma, At, Frame, After,
     Good, OnBrace, PrecLabels
<1>29. CASE InitClose
  BY <1>0, <1>29, ReturnDeep, ConsumeGains DEF InitClose, At
<1> QED  BY <1>1, <1>2, <1>3, <1>4, <1>5, <1>6, <1>7, <1>8, <1>9, <1>10, <1>11,
     <1>12, <1>13, <1>14, <1>15, <1>16, <1>17, <1>18, <1>19, <1>20, <1>21, <1>22,
     <1>23, <1>24, <1>25, <1>26, <1>27, <1>28, <1>29 DEF Declarations

LEMMA FunctionsDeep ==
  ASSUME StackInv, DepthInv, TokenInv, Functions PROVE DepthInv'
<1>0. ASSUME status = "run"
      PROVE  Running /\ "at" \in DOMAIN Top
  BY <1>0, TopFacts DEF Running
<1>1. CASE FuncOpen
  <2>1. Gained(1) /\ At("decl_kind")
    BY <1>1, ExpectGains DEF FuncOpen
  <2>2. PICK f : Goto(f) /\ f.at = "func_enter"
    BY <1>1 DEF FuncOpen
  <2>3. After(Top.at, f, 1, Kind')
    BY <2>1, <2>2, NeedTable, ActivationTable DEF At, After, Good, OnBrace, PrecLabels
  <2> QED  BY <1>0, <2>1, <2>2, <2>3, GotoDeep DEF At
<1>2. CASE FuncEnter
  BY <1>0, <1>2, GotoDeep, NeedTable, ActivationTable, Retag, IdleGains
     DEF FuncEnter, At, Frame,
     After, Good, OnBrace, PrecLabels
<1>3. CASE ParamType
  BY <1>0, <1>3, GotoDeep, NeedTable, ActivationTable, AdvanceGains
     DEF ParamType, At, Frame, After,
     Good, OnBrace, PrecLabels, ParamFrame
<1>4. CASE ParamName
  BY <1>0, <1>4, GotoDeep, NeedTable, ActivationTable, ConsumeGains
     DEF ParamName, At, Frame, After,
     Good, OnBrace, PrecLabels, ParamFrame
<1>5. CASE ParamArray
  BY <1>0, <1>5, GotoDeep, NeedTable, ActivationTable, Retag, MatchGains
     DEF ParamArray, At, Frame,
     After, Good, OnBrace, PrecLabels
<1>6. CASE ParamScalar
  BY <1>0, <1>6, ResumeDeep, NeedTable, ActivationTable, Retag, IdleGains
     DEF ParamScalar, At, Frame,
     After, Good, OnBrace, PrecLabels
<1>7. CASE ParamOpenArray
  BY <1>0, <1>7, CallDeep, NeedTable, ActivationTable, Retag, MatchGains
     DEF ParamOpenArray, At,
     Frame, Under, After, Good, OnBrace, PrecLabels, ParamDims
<1>8. CASE ParamLen
  BY <1>0, <1>8, GotoDeep, NeedTable, ActivationTable, MatchGains
     DEF ParamLen, At, Frame, After,
     Good, OnBrace, PrecLabels
<1>9. CASE ParamNoLen
  BY <1>0, <1>9, CallDeep, NeedTable, ActivationTable, Retag, ErrorGains
     DEF ParamNoLen, At, Frame,
     Under, After, Good, OnBrace, PrecLabels, ParamDims
<1>10. CASE ParamClose
  BY <1>0, <1>10, CallDeep, NeedTable, ActivationTable, ConsumeGains
     DEF ParamClose, At, Frame,
     Under, After, Good, OnBrace, PrecLabels, ParamFrame
<1>11. CASE ParamNull
  BY <1>0, <1>11, StillDeep, ConsumeGains DEF ParamNull, At, Die, OnBrace
<1>12. CASE ParamDefine
  BY <1>0, <1>12, GotoDeep, NeedTable, ActivationTable, StayGains
     DEF ParamDefine, At, Frame, After,
     Good, OnBrace, PrecLabels, FuncFrame
<1>13. CASE ParamComma
  BY <1>0, <1>13, GotoDeep, NeedTable, ActivationTable, MatchGains
     DEF ParamComma, At, Frame, After,
     Good, OnBrace, PrecLabels, FuncFrame
<1>14. CASE ParamsEnd
  BY <1>0, <1>14, GotoDeep, NeedTable, ActivationTable, ConsumeGains
     DEF ParamsEnd, At, Frame, After,
     Good, OnBrace, PrecLabels, FuncFrame
<1>15. CASE BodyOpen
  BY <1>0, <1>15, GotoDeep, NeedTable, ActivationTable, Retag, ConsumeGains
     DEF BodyOpen, At, Frame,
     After, Good, OnBrace, PrecLabels
<1>16. CASE BodyEnd
  BY <1>0, <1>16, ReturnDeep, ConsumeGains DEF BodyEnd, At
<1> QED  BY <1>1, <1>2, <1>3, <1>4, <1>5, <1>6, <1>7, <1>8, <1>9, <1>10, <1>11,
     <1>12, <1>13, <1>14, <1>15, <1>16 DEF Functions

LEMMA TopLevelDeep ==
  ASSUME StackInv, DepthInv, TokenInv, TopLevel PROVE DepthInv'
<1>0. ASSUME status = "run"
      PROVE  Running /\ "at" \in DOMAIN Top
  BY <1>0, TopFacts DEF Running
<1>1. CASE GlobalNext
  BY <1>0, <1>1, CallDeep, NeedTable, ActivationTable, IdleGains
     DEF GlobalNext, At, Frame, Under,
     After, Good, OnBrace, PrecLabels
<1>2. CASE GlobalKeep
  BY <1>0, <1>2, GotoDeep, NeedTable, ActivationTable, IdleGains
     DEF GlobalKeep, At, Frame, After,
     Good, OnBrace, PrecLabels
<1>3. CASE GlobalSync
  BY <1>0, <1>3, CallDeep, NeedTable, ActivationTable, StayGains
     DEF GlobalSync, At, Frame, Under,
     After, Good, OnBrace, PrecLabels
<1>4. CASE GlobalNoSync
  BY <1>0, <1>4, GotoDeep, NeedTable, ActivationTable, IdleGains
     DEF GlobalNoSync, At, Frame, After,
     Good, OnBrace, PrecLabels
<1>5. CASE GlobalSkip
  BY <1>0, <1>5, GotoDeep, NeedTable, ActivationTable, StayGains, AdvanceGains
     DEF GlobalSkip, At,
     Frame, After, Good, OnBrace, PrecLabels
<1>6. CASE GlobalsEnd
  <2>1. Used' \in Nat
    BY <1>0, <1>6, AdvanceGains DEF GlobalsEnd, Match, Gained
  <2>2. stack' = <<>> /\ Len(<<>>) = 0
    BY <1>6 DEF GlobalsEnd
  <2>3. Bounded(<<>>, Used', Kind')
    <3> DEFINE h == [i \in 0..0 |-> 0]
    <3>1. h \in [0..0 -> Nat] /\ Rises(h, <<>>) /\ Roomy(h, <<>>, Used')
      BY <2>2 DEF Rises, Roomy
    <3> HIDE DEF h
    <3> QED  BY <2>2, <3>1 DEF Bounded, Marked
  <2> QED  BY <2>1, <2>2, <2>3 DEF DepthInv
<1>7. CASE SyncSkip
  BY <1>0, <1>7, StillDeep, AdvanceGains DEF SyncSkip, At, Die, OnBrace
<1>8. CASE SyncEnd
  BY <1>0, <1>8, ReturnDeep, IdleGains DEF SyncEnd, At
<1> QED  BY <1>1, <1>2, <1>3, <1>4, <1>5, <1>6, <1>7, <1>8 DEF TopLevel

LEMMA DepthInvariant == Spec => []DepthInv
<1>1. Init => DepthInv
  <2> SUFFICES ASSUME Init PROVE DepthInv
    OBVIOUS
  <2>1. stack = <<Frame("globals")>> /\ fed = IF Kind = "EOF" THEN 0 ELSE 1
    BY DEF Init, Kind
  <2>2. Len(stack) = 1 /\ stack[1].at = "globals"
    BY <2>1 DEF Frame
  <2>3. Used \in Nat
    BY <2>1 DEF Used
  <2>4. \A i \in 1..Len(stack) : i = 1
    BY <2>2
  <2>5. Marked(stack, Kind)
    BY <2>2, <2>4 DEF Marked, OnBrace, PrecLabels
  <2> DEFINE h == [i \in 0..1 |-> i]
  <2>6. h \in [0..1 -> Nat] /\ h[0] = 0 /\ h[1] = 1
    OBVIOUS
  <2> HIDE DEF h
  <2>7. Rises(h, stack) /\ Roomy(h, stack, Used)
    BY <2>2, <2>3, <2>4, <2>6, NeedTable, ActivationTable DEF Rises, Roomy
  <2> QED  BY <2>2, <2>3, <2>5, <2>6, <2>7 DEF DepthInv, Bounded
<1>2. LatchInv /\ StackInv /\ DepthInv /\ [Next]_vars => DepthInv'
  <2> SUFFICES ASSUME LatchInv, StackInv, DepthInv, Next \/ UNCHANGED vars PROVE DepthInv'
    OBVIOUS
  <2>1. CASE UNCHANGED vars
    BY <2>1 DEF vars, lexVars, DepthInv, Used, Kind
  <2>2. CASE Stopped
    BY <2>1, <2>2 DEF Stopped
  <2>3. CASE Step
    BY <2>3, ExpressionsDeep, StatementsDeep, DeclarationsDeep, FunctionsDeep, TopLevelDeep
       DEF Step, LatchInv
  <2> QED  BY <2>1, <2>2, <2>3 DEF Next
<1> QED  BY <1>1, <1>2, LatchInvariant, StackInvariant, PTL DEF Spec

\* For every token stream at most two functions of the parser are active, and
\* four more for every token it has read: no sequence of calls comes back to
\* itself without consuming, on any path of recovery, in a chain of else
\* branches, loops, operators or braces (parser.c:138-879).
THEOREM ParserDepthLinear == Spec => []DepthLinear
<1>1. LatchInv /\ StackInv /\ DepthInv => DepthLinear
  <2> SUFFICES ASSUME LatchInv, StackInv, DepthInv PROVE CallDepth <= 2 + 4 * fed
    BY DEF DepthLinear
  <2> DEFINE n == Len(stack)
             w == [i \in DOMAIN stack |-> Activations(stack[i].at)]
  <2>1. fed \in Nat /\ Used <= fed /\ Used \in Nat
    BY DEF LatchInv, TokenInv, Used, DepthInv
  <2>2. n \in Nat /\ DOMAIN stack = 1..n
    BY SeqLength, EmptySeq DEF StackInv, StackOK
  <2>3. w \in [1..n -> Nat] /\ \A i \in 1..n : w[i] = Activations(stack[i].at)
    BY <2>2, NeedRange
  <2>4. PICK h \in [0..n -> Nat] : Rises(h, stack) /\ Roomy(h, stack, Used)
    BY DEF DepthInv, Bounded
  <2>5. SumsUp(h, n, w)
    BY <2>3, <2>4 DEF Rises, SumsUp
  <2>6. CallDepth = h[n]
    <3>1. CallDepth = Total(w)
      BY DEF CallDepth
    <3> HIDE DEF w, n
    <3> QED  BY <2>2, <2>3, <2>5, <3>1, TotalIs
  <2>7. CASE n = 0
    BY <2>1, <2>4, <2>6, <2>7 DEF Rises
  <2>8. CASE n # 0
    <3>1. n \in 1..n
      BY <2>2, <2>8
    <3>2. h[n] = h[n - 1] + Activations(stack[n].at) /\ h[n - 1] + Need(stack[n].at) <= 2 + 4 * Used
      BY <2>4, <3>1 DEF Rises, Roomy
    <3>3. Activations(stack[n].at) \in 1..2 /\ Need(stack[n].at) \in 1..7
          /\ Activations(stack[n].at) <= Need(stack[n].at) /\ h[n - 1] \in Nat
      BY <2>2, <3>1, NeedRange
    <3> HIDE DEF n
    <3>4. h[n] <= 2 + 4 * fed
      BY ONLY <2>1, <3>2, <3>3
    <3> QED  BY <2>6, <3>4
  <2> QED  BY <2>7, <2>8
<1> QED  BY <1>1, LatchInvariant, StackInvariant, DepthInvariant, PTL

-----------------------------------------------------------------------------
(* What the frames of a stack cost together.                               *)

LEMMA CostRange == ASSUME NEW l PROVE Cost(l) \in 1..11
BY DEF Cost

LEMMA CostAppend ==
  ASSUME NEW s, IsSeq(s), NEW f
  PROVE  CostOf(s) \in Nat /\ CostOf(Append(s, f)) = CostOf(s) + Cost(f.at)
<1> DEFINE t == Append(s, f)
           n == Len(s)
           v == [i \in DOMAIN s |-> Cost(s[i].at)]
           w == [i \in DOMAIN t |-> Cost(t[i].at)]
<1>1. /\ n \in Nat /\ IsSeq(t) /\ Len(t) = n + 1 /\ t[n + 1] = f
      /\ \A i \in 1..n : t[i] = s[i]
  BY SeqLength, AppendShape
<1>2. DOMAIN s = 1..n /\ DOMAIN t = 1..(n + 1)
  BY <1>1, SeqLength
<1>3. CostOf(s) = Total(v) /\ CostOf(t) = Total(w)
  BY DEF CostOf
<1> HIDE DEF t, n
<1>4. v \in [1..n -> Nat] /\ w \in [1..(n + 1) -> Nat]
  BY <1>2, CostRange
<1>5. w[n + 1] = Cost(f.at) /\ \A i \in 1..n : w[i] = v[i]
  BY <1>1, <1>2
<1> HIDE DEF v, w
<1>6. PICK h \in [0..n -> Nat] : SumsUp(h, n, v) /\ Total(v) = h[n]
  BY <1>1, <1>4, TotalSums
<1> DEFINE g == [i \in 0..(n + 1) |-> IF i = n + 1 THEN h[n] + w[n + 1] ELSE h[i]]
<1>7. g[n + 1] = h[n] + w[n + 1] /\ \A i \in 0..n : g[i] = h[i]
  BY <1>1
<1> HIDE DEF g
<1>8. SumsUp(g, n + 1, w)
  <2>1. h[0] = 0 /\ \A i \in 1..n : h[i] = h[i - 1] + v[i]
    BY <1>6 DEF SumsUp
  <2>2. \A i \in 1..(n + 1) : i = n + 1 \/ i \in 1..n
    BY <1>1
  <2>3. 0 \in 0..n /\ g[0] = 0
    BY <1>1, <1>7, <2>1
  <2>4. \A i \in 1..n : g[i] = h[i] /\ g[i - 1] = h[i - 1] /\ w[i] = v[i]
    BY <1>1, <1>5, <1>7
  <2>5. g[n + 1] = g[n] + w[n + 1] /\ (n + 1) - 1 = n
    BY <1>1, <1>7
  <2> QED  BY <2>1, <2>2, <2>3, <2>4, <2>5 DEF SumsUp
<1>9. Total(w) = g[n + 1]
  <2>1. n + 1 \in Nat
    BY <1>1
  <2> QED  BY <1>4, <1>8, <2>1, TotalIs
<1> QED  BY <1>1, <1>3, <1>5, <1>6, <1>7, <1>9 DEF t

\* A stack is what is under the top, and the top.
LEMMA CostTop ==
  ASSUME NEW s, IsSeq(s), s # <<>>
  PROVE  /\ IsSeq(Front(s)) /\ CostOf(Front(s)) \in Nat
         /\ CostOf(s) = CostOf(Front(s)) + Cost(Last(s).at)
<1>1. PICK S : s \in Seq(S)
  BY DEF IsSeq
<1>2. s = Append(Front(s), Last(s)) /\ IsSeq(Front(s))
  <2>1. /\ IsSeq(Front(s)) /\ Len(Front(s)) = Len(s) - 1 /\ Len(s) \in Nat \ {0}
        /\ \A i \in 1..(Len(s) - 1) : Front(s)[i] = s[i]
    BY FrontShape
  <2> DEFINE u == Append(Front(s), Last(s))
  <2>2. /\ IsSeq(u) /\ Len(u) = (Len(s) - 1) + 1 /\ u[(Len(s) - 1) + 1] = Last(s)
        /\ \A i \in 1..(Len(s) - 1) : u[i] = Front(s)[i]
    BY <2>1, AppendShape
  <2>3. Last(s) = s[Len(s)] /\ (Len(s) - 1) + 1 = Len(s)
    BY <2>1 DEF Last
  <2> HIDE DEF u
  <2>4. \A i \in 1..Len(s) : u[i] = s[i]
    BY <2>1, <2>2, <2>3
  <2>5. PICK T : u \in Seq(T)
    BY <2>2 DEF IsSeq
  <2>6. u = s
    <3>1. u \in [1..Len(u) -> T] /\ s \in [1..Len(s) -> S]
      BY <1>1, <2>5, LenProperties
    <3> QED  BY <2>1, <2>2, <2>3, <2>4, <3>1
  <2> QED  BY <2>1, <2>6 DEF u
<1> QED  BY <1>2, CostAppend

-----------------------------------------------------------------------------
(* Tokens spent and stages.                                                *)

\* All the tokens there are before the end of the file.
Supply == Len(Prefix) + FreeTokens

\* A skipping loop comes back to the one that called it, and a declaration at
\* the top level to the root; nothing is called from inside the skipping loop.
Above(f, g) ==
  /\ f.at # "sync"
  /\ g.at = "sync" => f.at \in {"block", "body", "globals_skip"}
  /\ g.at \in {"decl", "decl_type"} /\ g.top => f.at = "globals_ret"

Stacked(s) == \A i \in 1..(Len(s) - 1) : Above(s[i], s[i + 1])

ProgressInv ==
  /\ fed <= Supply
  /\ status = "run" => Stacked(stack) /\ (Top.at = "sync" => ~panic_mode)

Going == Running /\ ProgressInv

\* A step reads d tokens, or more, and when it reads none sees the same one.
Spends(d) ==
  /\ fed' <= Supply /\ Left \in Nat /\ Left' \in Nat /\ Left' + d <= Left
  /\ Left' = Left => Kind' = Kind

LEMMA SupplyNat == Supply \in Nat /\ Len(Prefix) \in Nat
BY ParserAssumption, LenProperties DEF Supply

LEMMA StaySpends == ASSUME Going, NEW c, Stay(c) PROVE Spends(0)
<1>1. fed \in Nat /\ fed <= Supply /\ fed' = fed /\ Kind' = Kind
  BY DEF Going, Running, TokenInv, ProgressInv, Stay, lexVars, Kind
<1>2. Left \in Nat /\ Left' = Left
  BY <1>1, SupplyNat, ParserAssumption DEF Left, Supply
<1> QED  BY <1>1, <1>2 DEF Spends

LEMMA AdvanceSpends ==
  ASSUME Going, NEW c, advance(c) PROVE Spends(0) /\ (Kind # "EOF" => Spends(1))
<1>1. PICK t \in Upcoming : curr' = t /\ fed' = IF t.kind = "EOF" THEN fed ELSE fed + 1
  BY DEF advance
<1>2. fed \in Nat /\ fed <= Supply
  BY DEF Going, Running, TokenInv, ProgressInv
<1>3. Supply \in Nat /\ Left = IF Kind = "EOF" THEN 0 ELSE 1 + Supply - fed
  BY SupplyNat, ParserAssumption, <1>2 DEF Left, Supply
<1>4. Left' = IF t.kind = "EOF" THEN 0 ELSE 1 + Supply - fed'
  <2>1. fed' \in Nat
    BY <1>1, <1>2
  <2> QED  BY <1>1, <2>1, SupplyNat, ParserAssumption DEF Left, Supply, Kind
<1>5. Kind' = t.kind
  BY <1>1 DEF Kind
<1>6. CASE Kind = "EOF"
  <2>1. t.kind = "EOF"
    BY <1>1, <1>6 DEF Upcoming, Tok
  <2> QED  BY <1>1, <1>2, <1>3, <1>4, <1>5, <1>6, <2>1 DEF Spends
<1>7. CASE Kind # "EOF"
  <2>1. t.kind # "EOF" => fed < Supply
    BY <1>1, <1>2, <1>7, SupplyNat, ParserAssumption DEF Upcoming, Tok, Supply
  <2> QED  BY <1>1, <1>2, <1>3, <1>4, <1>5, <1>7, <2>1 DEF Spends
<1> QED  BY <1>6, <1>7

LEMMA ExpectSpends ==
  ASSUME Going, NEW k, k # "EOF", NEW b, NEW c, Expect(k, b, c)
  PROVE  Spends(0) /\ (Kind = k => Spends(1))
BY StaySpends, AdvanceSpends DEF Expect

LEMMA ConsumeSpends ==
  ASSUME Going, NEW k, k # "EOF", consume(k)
  PROVE  Spends(0) /\ (Kind = k => Spends(1))
BY ExpectSpends DEF consume

LEMMA MatchSpends ==
  ASSUME Going, NEW k, k # "EOF", Match(k) PROVE Spends(0) /\ Spends(1)
BY AdvanceSpends DEF Match

LEMMA IdleSpends == ASSUME Going, Idle PROVE Spends(0) /\ Kind' = Kind
BY StaySpends DEF Idle, Stay, lexVars, Kind

LEMMA ErrorSpends == ASSUME Going, parser_error PROVE Spends(0) /\ Kind' = Kind
BY StaySpends DEF parser_error, Stay, lexVars, Kind

\* Nothing can bring the stage up from here.
Slack == Kind = "EOF" \/ Stage = 6

LEMMA StageRange ==
  /\ Stage \in 0..6 /\ Stage' \in 0..6
  /\ Kind = "EOF" => Stage = 0
  /\ Kind' = "EOF" => Stage' = 0
<1>1. Stage \in {0, 1, 2, 3, 4, 5, 6} /\ (Kind = "EOF" => Stage = 0)
  BY DEF Stage
<1>2. Stage' \in {0, 1, 2, 3, 4, 5, 6} /\ (Kind' = "EOF" => Stage' = 0)
  BY DEF Stage
<1> QED  BY <1>1, <1>2

LEMMA SlackStage == ASSUME Slack, Kind' = Kind PROVE Stage' <= Stage
BY StageRange DEF Slack

\* Frames that wait for a token in particular, or look for one.
Waiting == {"unary", "binary", "assign", "stmt", "block_open", "init"}
Staged == Waiting \cup {"decl", "decl_type", "block", "body", "globals", "globals_skip",
                        "sync", "globals_ret"}

LEMMA PlainSlack == ASSUME Top.at \notin Staged PROVE Slack
BY DEF Slack, Staged, Waiting, Stage, Takes

LEMMA WaitingSlack == ASSUME Top.at \in Waiting, ~Takes PROVE Slack
BY DEF Slack, Waiting, Stage

-----------------------------------------------------------------------------
(* What a step may cost.                                                   *)

\* Frames that cost a are replaced by frames that cost b, and d tokens are read.
Pays(d, a, b) ==
  \/ d = 1 /\ b < a + 12
  \/ b < a /\ (Slack \/ (Kind' = Kind => Stage' <= Stage))
  \/ b <= a + 5 /\ (Kind' = Kind => Stage' < Stage)

Falls == Work' \in Nat /\ Work' < Work

Onward == ProgressInv' /\ Falls

LEMMA MeasureFalls ==
  ASSUME NEW l \in Nat, NEW m \in Nat, NEW s \in 0..6, NEW z \in 0..6,
         NEW c \in Nat, NEW e \in Nat, NEW d \in {0, 1}, m + d <= l, e < c + 12,
         m = l => (e < c /\ z <= s) \/ (e <= c + 5 /\ z < s)
  PROVE  /\ 1 + 48 * m + 6 * z + e \in Nat
         /\ 1 + 48 * m + 6 * z + e < 1 + 48 * l + 6 * s + c
OBVIOUS

LEMMA PaidFalls ==
  ASSUME Going, status' = status, NEW d \in {0, 1}, Spends(d),
         NEW a \in Nat, NEW b \in Nat, NEW r \in Nat, Pays(d, a, b),
         CostOf(stack) = r + a, CostOf(stack') = r + b
  PROVE  Falls
<1> DEFINE c == CostOf(stack)
           e == CostOf(stack')
<1>1. status = "run" /\ status' = "run"
  BY DEF Going, Running
<1>2. Work = 1 + 48 * Left + 6 * Stage + c /\ Work' = 1 + 48 * Left' + 6 * Stage' + e
  BY <1>1 DEF Work
<1>3. Stage \in 0..6 /\ Stage' \in 0..6 /\ (Slack => (Kind' = Kind => Stage' <= Stage))
  BY StageRange, SlackStage
<1>4. Left \in Nat /\ Left' \in Nat /\ Left' + d <= Left /\ (Left' = Left => Kind' = Kind)
  BY DEF Spends
<1>5. c \in Nat /\ e \in Nat
  OBVIOUS
<1>6. ASSUME Left' = Left
      PROVE  (e < c /\ Stage' <= Stage) \/ (e <= c + 5 /\ Stage' < Stage)
  <2>1. d = 0 /\ Kind' = Kind
    BY <1>4, <1>6
  <2>2. \/ b < a /\ Stage' <= Stage
        \/ b <= a + 5 /\ Stage' < Stage
    BY <1>3, <2>1 DEF Pays
  <2> QED  BY <2>2
<1>7. e < c + 12
  <2>1. b < a + 12
    BY DEF Pays
  <2> QED  BY <2>1
<1> HIDE DEF c, e
<1> QED  BY ZenonT(30), <1>2, <1>3, <1>4, <1>5, <1>6, <1>7, MeasureFalls DEF Falls

\* f can take the place of e on top.
Replaces(e, f) ==
  /\ f.at # "sync"
  /\ f.at \in {"decl", "decl_type"} /\ f.top => e.at \in {"decl", "decl_type"} /\ e.top

LEMMA GoingStack ==
  ASSUME Going
  PROVE  /\ IsSeq(stack) /\ stack # <<>> /\ Top = Last(stack) /\ Stacked(stack)
         /\ Top = stack[Len(stack)] /\ Len(stack) \in Nat \ {0}
         /\ fed <= Supply /\ status = "run" /\ (Top.at = "sync" => ~panic_mode)
<1>1. IsSeq(stack) /\ stack # <<>> /\ Top = Last(stack)
  BY RunStack DEF Going
<1>2. Len(stack) \in Nat \ {0} /\ Top = stack[Len(stack)]
  BY <1>1, SeqLength DEF Last
<1> QED  BY <1>1, <1>2 DEF Going, Running, ProgressInv

LEMMA ReplaceStacked ==
  ASSUME NEW s, IsSeq(s), s # <<>>, Stacked(s), NEW f, Replaces(Last(s), f),
         NEW t, t = Append(Front(s), f)
  PROVE  Stacked(t)
<1> DEFINE n == Len(s)
<1>1. n \in Nat \ {0} /\ Last(s) = s[n]
  BY SeqLength DEF Last
<1>2. Len(t) = n /\ t[n] = f /\ \A i \in 1..(n - 1) : t[i] = s[i]
  BY ReplaceShape
<1>3. \A i \in 1..(n - 1) : Above(s[i], s[i + 1])
  BY DEF Stacked
<1> HIDE DEF n
<1>4. ASSUME NEW i \in 1..(n - 1) PROVE Above(t[i], t[i + 1])
  <2>1. Above(s[i], s[i + 1]) /\ t[i] = s[i]
    BY <1>2, <1>3
  <2>2. CASE i + 1 = n
    <3>1. t[i + 1] = f /\ s[i + 1] = Last(s)
      BY <1>1, <1>2, <2>2
    <3>2. Above(s[i], Last(s))
      BY <2>1, <3>1
    <3> QED  BY <2>1, <3>1, <3>2 DEF Above, Replaces
  <2>3. CASE i + 1 # n
    <3>1. i + 1 \in 1..(n - 1)
      BY <1>1, <2>3
    <3> QED  BY <1>2, <2>1, <3>1
  <2> QED  BY <2>2, <2>3
<1> QED  BY <1>2, <1>4 DEF Stacked

LEMMA PushStacked ==
  ASSUME NEW s, IsSeq(s), s # <<>>, Stacked(s), NEW g, Above(Last(s), g),
         NEW t, t = Append(s, g)
  PROVE  Stacked(t)
<1> DEFINE n == Len(s)
<1>1. n \in Nat \ {0} /\ Last(s) = s[n]
  BY SeqLength DEF Last
<1>2. Len(t) = n + 1 /\ t[n + 1] = g /\ \A i \in 1..n : t[i] = s[i]
  BY AppendShape
<1>3. \A i \in 1..(n - 1) : Above(s[i], s[i + 1])
  BY DEF Stacked
<1> HIDE DEF n
<1>4. ASSUME NEW i \in 1..n PROVE Above(t[i], t[i + 1])
  <2>1. CASE i = n
    BY <1>1, <1>2, <2>1
  <2>2. CASE i # n
    <3>1. i \in 1..(n - 1) /\ i + 1 \in 1..n
      BY <1>1, <2>2
    <3> QED  BY <1>2, <1>3, <3>1
  <2> QED  BY <2>1, <2>2
<1>5. (n + 1) - 1 = n
  BY <1>1
<1> QED  BY <1>2, <1>4, <1>5 DEF Stacked

LEMMA ResumeWorks ==
  ASSUME Going, status' = status, NEW d \in {0, 1}, Spends(d), NEW f, NEW v, Resume(f, v),
         Replaces(Top, f), Pays(d, Cost(Top.at), Cost(f.at))
  PROVE  Onward
<1>1. stack' = Append(Front(stack), f)
  BY DEF Resume
<1>2. Stacked(stack')
  BY <1>1, GoingStack, ReplaceStacked
<1>3. Top' = f
  <2>1. \A t : t = Append(Front(stack), f) => Len(t) = Len(stack) /\ t[Len(stack)] = f
    BY GoingStack, ReplaceShape
  <2>2. Len(stack') = Len(stack) /\ stack'[Len(stack)] = f
    BY <1>1, <2>1
  <2> QED  BY <2>2 DEF Top, Last
<1>4. /\ IsSeq(Front(stack)) /\ CostOf(Front(stack)) \in Nat
      /\ CostOf(stack) = CostOf(Front(stack)) + Cost(Top.at)
  BY GoingStack, CostTop
<1>5. CostOf(stack') = CostOf(Front(stack)) + Cost(f.at)
  BY <1>1, <1>4, CostAppend
<1>6. Falls
  <2>1. Cost(Top.at) \in Nat /\ Cost(f.at) \in Nat
    <3>1. Cost(Top.at) \in 1..11 /\ Cost(f.at) \in 1..11
      BY CostRange
    <3> QED  BY <3>1
  <2> QED  BY <1>4, <1>5, <2>1, PaidFalls
<1>7. ProgressInv'
  BY <1>2, <1>3 DEF ProgressInv, Spends, Replaces
<1> QED  BY <1>6, <1>7 DEF Onward

LEMMA GotoWorks ==
  ASSUME Going, status' = status, NEW d \in {0, 1}, Spends(d), NEW f, Goto(f),
         Replaces(Top, f), Pays(d, Cost(Top.at), Cost(f.at))
  PROVE  Onward
BY ResumeWorks DEF Goto

\* The frame a call leaves behind is never one that is only found on top.
Leaves(f) == f.at \notin {"sync", "decl", "decl_type"}

LEMMA CallWorks ==
  ASSUME Going, status' = status, NEW d \in {0, 1}, Spends(d), NEW f, NEW g, Call(f, g),
         Leaves(f), Above(f, g), g.at = "sync" => ~panic_mode',
         Pays(d, Cost(Top.at), Cost(f.at) + Cost(g.at))
  PROVE  Onward
<1> DEFINE t == Append(Front(stack), f)
<1>1. stack' = Append(t, g)
  BY DEF Call
<1>2. IsSeq(t) /\ t # <<>> /\ Last(t) = f
  <2>1. \A u : u = Append(Front(stack), f) =>
          /\ IsSeq(u) /\ u # <<>> /\ Len(u) = Len(stack) /\ u[Len(stack)] = f
          /\ \A i \in 1..(Len(stack) - 1) : u[i] = stack[i]
    BY ZenonT(30), GoingStack, ReplaceShape
  <2> QED  BY <2>1 DEF Last
<1>3. Stacked(t)
  BY GoingStack, ReplaceStacked DEF Leaves, Replaces
<1>4. /\ IsSeq(Front(stack)) /\ CostOf(Front(stack)) \in Nat
      /\ CostOf(stack) = CostOf(Front(stack)) + Cost(Top.at)
  BY GoingStack, CostTop
<1>5. CostOf(t) = CostOf(Front(stack)) + Cost(f.at)
  BY <1>4, CostAppend
<1> HIDE DEF t
<1>6. Stacked(stack')
  BY <1>1, <1>2, <1>3, PushStacked
<1>7. Top' = g
  <2>1. \A u : u = Append(t, g) => Len(u) = Len(t) + 1 /\ u[Len(t) + 1] = g
    BY <1>2, AppendShape
  <2>2. Len(stack') = Len(t) + 1 /\ stack'[Len(t) + 1] = g
    BY <1>1, <2>1
  <2> QED  BY <2>2 DEF Top, Last
<1>8. CostOf(stack') = CostOf(t) + Cost(g.at)
  BY <1>1, <1>2, CostAppend
<1>9. Falls
  <2>1. Cost(Top.at) \in 1..11 /\ Cost(f.at) \in 1..11 /\ Cost(g.at) \in 1..11
    BY CostRange
  <2> DEFINE b == Cost(f.at) + Cost(g.at)
  <2>2. b \in Nat /\ Cost(Top.at) \in Nat /\ CostOf(stack') = CostOf(Front(stack)) + b
    BY <1>4, <1>5, <1>8, <2>1
  <2>3. Pays(d, Cost(Top.at), b)
    OBVIOUS
  <2> HIDE DEF b
  <2> QED  BY <1>4, <2>2, <2>3, PaidFalls
<1>10. ProgressInv'
  BY <1>6, <1>7 DEF ProgressInv, Spends
<1> QED  BY <1>9, <1>10 DEF Onward

LEMMA ReturnWorks ==
  ASSUME Going, status' = status, NEW d \in {0, 1}, Spends(d), NEW v, Return(v),
         Top.at \notin RootLabels, Pays(d, Cost(Top.at), 0)
  PROVE  Onward
<1> DEFINE n == Len(stack)
<1>1. stack' = Front(stack)
  BY DEF Return
<1>2. n \in Nat \ {0} /\ Len(stack') = n - 1 /\ \A i \in 1..(n - 1) : stack'[i] = stack[i]
  BY <1>1, GoingStack, FrontShape
<1>3. n # 1
  <2>1. StackOK(stack)
    BY DEF Going, Running, StackInv
  <2>2. n \in 1..n /\ Top = stack[n]
    BY <1>2, GoingStack
  <2> QED  BY <2>1, <2>2 DEF StackOK, Placed
<1>4. \A i \in 1..(n - 1) : Above(stack[i], stack[i + 1])
  BY GoingStack DEF Stacked
<1>5. /\ IsSeq(Front(stack)) /\ CostOf(Front(stack)) \in Nat
      /\ CostOf(stack) = CostOf(Front(stack)) + Cost(Top.at)
  BY GoingStack, CostTop
<1> HIDE DEF n
<1>6. Stacked(stack')
  <2>1. ASSUME NEW i \in 1..((n - 1) - 1) PROVE Above(stack'[i], stack'[i + 1])
    <3>1. i \in 1..(n - 1) /\ i + 1 \in 1..(n - 1)
      BY <1>2
    <3> QED  BY <1>2, <1>4, <3>1
  <2> QED  BY <1>2, <2>1 DEF Stacked
<1>7. Top'.at # "sync"
  <2>1. n - 1 \in 1..(n - 1)
    BY <1>2, <1>3
  <2>2. Top' = stack[n - 1]
    BY <1>2, <2>1 DEF Top, Last
  <2> QED  BY <1>4, <2>1, <2>2 DEF Above
<1>8. Falls
  <2>1. Cost(Top.at) \in 1..11
    BY CostRange
  <2>2. Cost(Top.at) \in Nat /\ 0 \in Nat /\ CostOf(stack') = CostOf(Front(stack)) + 0
    BY <1>1, <1>5, <2>1
  <2> QED  BY <1>5, <2>2, PaidFalls
<1>9. ProgressInv'
  BY <1>6, <1>7 DEF ProgressInv, Spends
<1> QED  BY <1>8, <1>9 DEF Onward

LEMMA StillWorks ==
  ASSUME Going, status' = status, Spends(1), stack' = stack, Top.at = "sync" => ~panic_mode'
  PROVE  Onward
<1>1. CostOf(stack) \in Nat
  BY GoingStack, CostAppend
<1>2. Falls
  <2>1. 0 \in Nat /\ 1 \in {0, 1} /\ CostOf(stack) = CostOf(stack) + 0
        /\ CostOf(stack') = CostOf(stack) + 0 /\ Pays(1, 0, 0)
    BY <1>1 DEF Pays
  <2> QED  BY <1>1, <2>1, PaidFalls
<1>3. Top' = Top /\ Stacked(stack')
  BY GoingStack DEF Top
<1> QED  BY <1>2, <1>3 DEF Onward, ProgressInv, Spends

LEMMA StopWorks == ASSUME Going, Spends(0), status' # "run" PROVE Onward
<1>1. CostOf(stack) \in Nat
  BY GoingStack, CostAppend
<1>2. Left \in Nat /\ Stage \in 0..6 /\ status = "run"
  BY StageRange, GoingStack DEF Spends
<1>3. Falls
  BY <1>1, <1>2 DEF Falls, Work
<1> QED  BY <1>3 DEF Onward, ProgressInv, Spends

LEMMA CostTable ==
  /\ Cost("bin_lhs") = 1 /\ Cost("asg_lhs") = 1 /\ Cost("asg_rhs") = 1
  /\ Cost("unary") = 1 /\ Cost("neg") = 1 /\ Cost("not") = 1 /\ Cost("paren") = 1
  /\ Cost("args_more") = 1 /\ Cost("index") = 1 /\ Cost("sync") = 1
  /\ Cost("plus") = 1 /\ Cost("stmt_end") = 1 /\ Cost("decl_type") = 1
  /\ Cost("decl_name") = 1 /\ Cost("if_else") = 1
  /\ Cost("semi") = 1 /\ Cost("stmt_expr") = 1 /\ Cost("ret_end") = 1
  /\ Cost("var_next") = 1 /\ Cost("var_name") = 1 /\ Cost("dims") = 1
  /\ Cost("init_more") = 1 /\ Cost("globals") = 1 /\ Cost("body") = 1
  /\ Cost("block") = 1 /\ Cost("bin_rhs") = 2 /\ Cost("ident") = 2
  /\ Cost("index_close") = 2 /\ Cost("decl") = 2 /\ Cost("block_open") = 2
  /\ Cost("stmt_rhs") = 2 /\ Cost("var_init") = 2 /\ Cost("var_check") = 2
  /\ Cost("dim_len") = 2 /\ Cost("dim_close") = 2 /\ Cost("globals_skip") = 2
  /\ Cost("body_open") = 2 /\ Cost("var_define") = 3 /\ Cost("binary") = 3
  /\ Cost("param_next") = 3 /\ Cost("globals_ret") = 4 /\ Cost("param_define") = 4
  /\ Cost("var") = 5 /\ Cost("assign") = 5 /\ Cost("stmt") = 5 /\ Cost("ret_value") = 5
  /\ Cost("param_dims") = 5 /\ Cost("decl_kind") = 6 /\ Cost("var_value") = 6
  /\ Cost("param_name") = 6 /\ Cost("param_len") = 6 /\ Cost("param_close") = 6
  /\ Cost("params") = 7 /\ Cost("param") = 7 /\ Cost("cond_close") = 7
  /\ Cost("init_first") = 7 /\ Cost("init_elem") = 7 /\ Cost("args") = 7
  /\ Cost("init") = 8 /\ Cost("func_enter") = 8 /\ Cost("cond_open") = 11
BY DEF Cost


\* The usual steps: a token is read, or nothing can bring the stage up; the
\* frames involved are not those with a place of their own.
Ordinary(f) == f.at \notin {"sync", "decl", "decl_type"}

LEMMA GotoReads ==
  ASSUME Going, status' = status, Spends(1), NEW f, Goto(f), Ordinary(f) PROVE Onward
<1>1. Cost(f.at) \in 1..11 /\ Cost(Top.at) \in 1..11 /\ 1 \in {0, 1}
  BY CostRange
<1>2. Pays(1, Cost(Top.at), Cost(f.at)) /\ Replaces(Top, f)
  BY <1>1 DEF Pays, Replaces, Ordinary
<1> QED  BY <1>1, <1>2, GotoWorks

LEMMA ResumeSlack ==
  ASSUME Going, status' = status, Spends(0), Slack, NEW f, NEW v, Resume(f, v), Ordinary(f),
         Cost(f.at) < Cost(Top.at)
  PROVE  Onward
<1>1. 0 \in {0, 1}
  OBVIOUS
<1>2. Pays(0, Cost(Top.at), Cost(f.at)) /\ Replaces(Top, f)
  BY DEF Pays, Replaces, Ordinary
<1> QED  BY <1>1, <1>2, ResumeWorks

LEMMA GotoSlack ==
  ASSUME Going, status' = status, Spends(0), Slack, NEW f, Goto(f), Ordinary(f),
         Cost(f.at) < Cost(Top.at)
  PROVE  Onward
BY ResumeSlack DEF Goto

LEMMA ReturnReads ==
  ASSUME Going, status' = status, Spends(1), NEW v, Return(v), Top.at \notin RootLabels
  PROVE  Onward
<1>1. Cost(Top.at) \in 1..11 /\ 1 \in {0, 1}
  BY CostRange
<1>2. Pays(1, Cost(Top.at), 0)
  BY <1>1 DEF Pays
<1> QED  BY <1>1, <1>2, ReturnWorks

LEMMA ReturnSlack ==
  ASSUME Going, status' = status, Spends(0), Slack, NEW v, Return(v), Top.at \notin RootLabels
  PROVE  Onward
<1>1. Cost(Top.at) \in 1..11 /\ 0 \in {0, 1}
  BY CostRange
<1>2. Pays(0, Cost(Top.at), 0)
  BY <1>1 DEF Pays
<1> QED  BY <1>1, <1>2, ReturnWorks

LEMMA CallReads ==
  ASSUME Going, status' = status, Spends(1), NEW f, NEW g, Call(f, g),
         Ordinary(f), Ordinary(g), Cost(f.at) + Cost(g.at) < Cost(Top.at) + 12
  PROVE  Onward
<1>1. 1 \in {0, 1} /\ Pays(1, Cost(Top.at), Cost(f.at) + Cost(g.at))
  BY DEF Pays
<1>2. Leaves(f) /\ Above(f, g) /\ g.at # "sync"
  BY DEF Leaves, Above, Ordinary
<1> QED  BY <1>1, <1>2, CallWorks

LEMMA CallSlack ==
  ASSUME Going, status' = status, Spends(0), Slack, NEW f, NEW g, Call(f, g),
         Ordinary(f), Ordinary(g), Cost(f.at) + Cost(g.at) < Cost(Top.at)
  PROVE  Onward
<1>1. 0 \in {0, 1} /\ Pays(0, Cost(Top.at), Cost(f.at) + Cost(g.at))
  BY DEF Pays
<1>2. Leaves(f) /\ Above(f, g) /\ g.at # "sync"
  BY DEF Leaves, Above, Ordinary
<1> QED  BY <1>1, <1>2, CallWorks

-----------------------------------------------------------------------------
(* The steps whose stage matters.                                          *)

\* Where the parser is after a move.
LEMMA TopResumed == ASSUME Going, NEW f, NEW v, Resume(f, v) PROVE Top' = f
<1>1. \A t : t = Append(Front(stack), f) => Len(t) = Len(stack) /\ t[Len(stack)] = f
  BY GoingStack, ReplaceShape
<1>2. Len(stack') = Len(stack) /\ stack'[Len(stack)] = f
  BY <1>1 DEF Resume
<1> QED  BY <1>2 DEF Top, Last

LEMMA TopGone == ASSUME Going, NEW f, Goto(f) PROVE Top' = f
BY TopResumed DEF Goto

LEMMA TopCalled == ASSUME Going, NEW f, NEW g, Call(f, g) PROVE Top' = g
<1> DEFINE t == Append(Front(stack), f)
<1>1. IsSeq(t)
  BY GoingStack, ReplaceShape
<1>2. stack' = Append(t, g)
  BY DEF Call
<1> HIDE DEF t
<1>3. Len(stack') = Len(t) + 1 /\ stack'[Len(t) + 1] = g
  BY <1>1, <1>2, AppendShape
<1> QED  BY <1>3 DEF Top, Last

LEMMA TopReturned ==
  ASSUME Going, NEW v, Return(v), Top.at \notin RootLabels PROVE Above(Top', Top)
<1> DEFINE n == Len(stack)
<1>1. /\ n \in Nat \ {0} /\ Len(stack') = n - 1
      /\ \A i \in 1..(n - 1) : stack'[i] = stack[i]
  BY GoingStack, FrontShape DEF Return
<1>2. n # 1
  <2>1. StackOK(stack)
    BY DEF Going, Running, StackInv
  <2>2. n \in 1..n /\ Top = stack[n]
    BY <1>1, GoingStack
  <2> QED  BY <2>1, <2>2 DEF StackOK, Placed
<1>3. Top = stack[n] /\ \A i \in 1..(n - 1) : Above(stack[i], stack[i + 1])
  BY GoingStack DEF Stacked
<1> HIDE DEF n
<1>4. n - 1 \in 1..(n - 1) /\ (n - 1) + 1 = n
  BY <1>1, <1>2
<1>5. Top' = stack[n - 1]
  BY <1>1, <1>4 DEF Top, Last
<1> QED  BY <1>3, <1>4, <1>5

\* The stages one by one, before a step and after it.
LEMMA StageTable ==
  ASSUME Kind # "EOF"
  PROVE  /\ Takes => Stage = 0
         /\ Top.at \in Waiting /\ ~Takes => Stage = 6
         /\ Top.at \in {"block", "body"} => Stage = IF panic_mode THEN 6 ELSE 1
         /\ Top.at = "globals" => Stage = IF Kind \in DeclStart THEN 1 ELSE 5
         /\ Top.at \in {"sync", "globals_skip"} => Stage = 2
         /\ Top.at = "globals_ret" => Stage = IF ret = NullNode THEN 3 ELSE 6
         /\ Top.at \in {"decl", "decl_type"} /\ ~Takes => Stage = IF Top.top THEN 4 ELSE 6
BY DEF Stage, Takes, Waiting

LEMMA NextStageTable ==
  ASSUME Kind' # "EOF"
  PROVE  /\ Takes' => Stage' = 0
         /\ Top'.at \in Waiting /\ ~Takes' => Stage' = 6
         /\ Top'.at \in {"block", "body"} => Stage' = IF panic_mode' THEN 6 ELSE 1
         /\ Top'.at = "globals" => Stage' = IF Kind' \in DeclStart THEN 1 ELSE 5
         /\ Top'.at \in {"sync", "globals_skip"} => Stage' = 2
         /\ Top'.at = "globals_ret" => Stage' = IF ret' = NullNode THEN 3 ELSE 6
         /\ Top'.at \in {"decl", "decl_type"} /\ ~Takes' => Stage' = IF Top'.top THEN 4 ELSE 6
BY DEF Stage, Takes, Waiting

\* One function that waits for a token calls another that waits for it too.
LEMMA CallPasses ==
  ASSUME Going, status' = status, Spends(0), NEW f, NEW g, Call(f, g),
         Ordinary(f), Ordinary(g), Top.at \in Waiting, g.at \in Waiting,
         Kind' = Kind, Takes => Takes', Cost(f.at) + Cost(g.at) < Cost(Top.at)
  PROVE  Onward
<1>1. Top' = g
  BY TopCalled
<1>2. Kind # "EOF" => Stage' <= Stage
  BY <1>1, StageTable, NextStageTable, StageRange
<1>3. 0 \in {0, 1} /\ Pays(0, Cost(Top.at), Cost(f.at) + Cost(g.at))
  BY <1>2, StageRange DEF Pays, Slack
<1>4. Leaves(f) /\ Above(f, g) /\ g.at # "sync"
  BY DEF Leaves, Above, Ordinary
<1> QED  BY <1>3, <1>4, CallWorks

LEMMA ExpressionsWork ==
  ASSUME StackInv, DepthInv, TokenInv, ProgressInv, Expressions PROVE Onward
<1>0. ASSUME status = "run"
      PROVE  Going /\ "at" \in DOMAIN Top
  BY <1>0, TopFacts DEF Running, Going
<1>1. CASE ParseBinary
  <2>1. PICK f, g : Call(f, g) /\ f.at = "bin_lhs" /\ g.at = "unary"
    BY <1>1 DEF ParseBinary, Frame
  <2>2. Top' = g /\ Kind' = Kind /\ Spends(0) /\ Top.at = "binary" /\ status' = status
    BY <1>0, <1>1, <2>1, TopCalled, IdleSpends DEF ParseBinary, At, Pure
  <2>3. Takes' <=> Takes
    BY <2>1, <2>2 DEF Takes
  <2> QED  BY <1>0, <1>1, <2>1, <2>2, <2>3, CallPasses, CostTable DEF ParseBinary, At,
           Ordinary, Waiting
<1>2. CASE BinaryOperator
  <2>1. Kind # "EOF"
    BY <1>0, <1>2, TopPrec, OperatorKind DEF BinaryOperator, At, PrecLabels, Going
  <2>2. Spends(1)
    BY <1>0, <1>2, <2>1, AdvanceSpends DEF BinaryOperator, At
  <2>3. PICK f, g : Call(f, g) /\ f.at = "bin_rhs" /\ g.at = "binary"
    BY <1>2 DEF BinaryOperator
  <2> QED  BY <1>0, <1>2, <2>2, <2>3, CallReads, CostTable DEF BinaryOperator, At,
           Ordinary, Pure
<1>3. CASE BinaryEnd
  BY <1>0, <1>3, ReturnSlack, PlainSlack, IdleSpends DEF BinaryEnd, At, Staged,
     Waiting, RootLabels, Pure
<1>4. CASE BinaryBuild
  BY <1>0, <1>4, ResumeSlack, CostTable, PlainSlack, StaySpends DEF BinaryBuild, At,
     Frame, Ordinary, Staged, Waiting, Pure
<1>5. CASE BinaryNull
  BY <1>0, <1>5, StopWorks, IdleSpends DEF BinaryNull, At, Crash, Die
<1>6. CASE ParseAssign
  <2>1. PICK f, g : Call(f, g) /\ f.at = "asg_lhs" /\ g.at = "binary"
    BY <1>6 DEF ParseAssign, CallExpr, Frame
  <2>2. Top' = g /\ Kind' = Kind /\ Spends(0) /\ Top.at = "assign" /\ status' = status
    BY <1>0, <1>6, <2>1, TopCalled, IdleSpends DEF ParseAssign, At, Pure
  <2>3. Takes' <=> Takes
    BY <2>1, <2>2 DEF Takes
  <2> QED  BY <1>0, <1>6, <2>1, <2>2, <2>3, CallPasses, CostTable DEF ParseAssign, At,
           Ordinary, Waiting
<1>7. CASE AssignOperator
  BY <1>0, <1>7, CallReads, CostTable, MatchSpends DEF AssignOperator, At, CallAssign,
     Frame, Ordinary, Pure
<1>8. CASE AssignNone
  BY <1>0, <1>8, ReturnSlack, PlainSlack, IdleSpends DEF AssignNone, At, Staged,
     Waiting, RootLabels, Pure
<1>9. CASE AssignBuild
  BY <1>0, <1>9, ReturnSlack, PlainSlack, StaySpends DEF AssignBuild, At, Staged,
     Waiting, RootLabels, Pure
<1>10. CASE AssignNull
  BY <1>0, <1>10, StopWorks, IdleSpends DEF AssignNull, At, Crash, Die
<1>11. CASE UnaryOperator
  <2>1. Spends(1)
    BY <1>0, <1>11, AdvanceSpends DEF UnaryOperator, At, PrefixOps
  <2>2. PICK l \in {"plus", "neg", "not"} : Call(Frame(l), Frame("unary"))
    BY <1>11 DEF UnaryOperator, PrefixOps
  <2> QED  BY <1>0, <1>11, <2>1, <2>2, CallReads, CostTable
              DEF UnaryOperator, At, Frame, Ordinary, Pure
<1>12. CASE UnaryBuild
  BY <1>0, <1>12, ReturnSlack, PlainSlack, IdleSpends DEF UnaryBuild, At, Staged,
     Waiting, RootLabels, Pure
<1>13. CASE PrimaryLiteral
  <2>1. Spends(1)
    BY <1>0, <1>13, AdvanceSpends DEF PrimaryLiteral, At, Literals
  <2> QED  BY <1>0, <1>13, <2>1, ReturnReads DEF PrimaryLiteral, At, Pure, RootLabels
<1>14. CASE PrimaryParen
  BY <1>0, <1>14, CallReads, CostTable, MatchSpends DEF PrimaryParen, At, CallExpr,
     Frame, Ordinary, Pure
<1>15. CASE ParenClose
  BY <1>0, <1>15, ReturnSlack, PlainSlack, ConsumeSpends DEF ParenClose, At, Staged,
     Waiting, RootLabels, Pure
<1>16. CASE PrimaryIdent
  BY <1>0, <1>16, GotoReads, MatchSpends DEF PrimaryIdent, At, Frame, Ordinary, Pure
<1>17. CASE PrimaryNone
  <2>1. ~Takes /\ Top.at \in Waiting
    BY <1>17 DEF PrimaryNone, At, Takes, Waiting
  <2> QED  BY <1>0, <1>17, <2>1, WaitingSlack, ErrorSpends, ReturnSlack DEF PrimaryNone,
           At, Pure, RootLabels
<1>18. CASE CallOpen
  BY <1>0, <1>18, GotoReads, ExpectSpends DEF CallOpen, At, Frame, Ordinary, Pure
<1>19. CASE ArgFirst
  BY <1>0, <1>19, CallSlack, CostTable, PlainSlack, Retag, IdleSpends DEF ArgFirst,
     At, CallAssign, Frame, Ordinary, Staged, Waiting, Pure
<1>20. CASE ArgNext
  BY <1>0, <1>20, CallReads, CostTable, MatchSpends DEF ArgNext, At, CallAssign,
     Frame, Ordinary, Pure
<1>21. CASE CallClose
  BY <1>0, <1>21, ReturnSlack, PlainSlack, ConsumeSpends DEF CallClose, At, AtArgsEnd,
     Staged, Waiting, RootLabels, Pure
<1>22. CASE CallTypeless
  BY <1>0, <1>22, StopWorks, ConsumeSpends DEF CallTypeless, At, AtArgsEnd, Die
<1>23. CASE Variable
  BY <1>0, <1>23, ResumeSlack, CostTable, PlainSlack, IdleSpends, ErrorSpends DEF
     Variable, At, Frame, Ordinary, Staged, Waiting, Pure
<1>24. CASE IndexOpen
  BY <1>0, <1>24, CallReads, CostTable, MatchSpends DEF IndexOpen, At, CallExpr,
     Frame, Ordinary, Pure
<1>25. CASE IndexEnd
  BY <1>0, <1>25, ReturnSlack, PlainSlack, IdleSpends DEF IndexEnd, At, Staged,
     Waiting, RootLabels, Pure
<1>26. CASE IndexClose
  BY <1>0, <1>26, ResumeSlack, CostTable, PlainSlack, ExpectSpends DEF IndexClose, At,
     Frame, Ordinary, Staged, Waiting, Pure
<1> QED  BY <1>1, <1>2, <1>3, <1>4, <1>5, <1>6, <1>7, <1>8, <1>9, <1>10, <1>11, <1>12,
     <1>13, <1>14, <1>15, <1>16, <1>17, <1>18, <1>19, <1>20, <1>21, <1>22, <1>23,
     <1>24, <1>25, <1>26 DEF Expressions

LEMMA StatementsWork ==
  ASSUME StackInv, DepthInv, TokenInv, ProgressInv, Statements PROVE Onward
<1>0. ASSUME status = "run"
      PROVE  Going /\ "at" \in DOMAIN Top
  BY <1>0, TopFacts DEF Running, Going
<1>1. CASE BlockOpen
  <2>1. Spends(0) /\ (Kind = "L_BRACE" => Spends(1))
    BY <1>0, <1>1, ConsumeSpends DEF BlockOpen, At
  <2>2. Kind # "L_BRACE" => Slack
    BY <1>1, WaitingSlack DEF BlockOpen, At, Takes, Waiting
  <2> QED  BY <1>0, <1>1, <2>1, <2>2, GotoReads, GotoSlack, CostTable
              DEF BlockOpen, At, BlockFrame, Frame, Ordinary
<1>2. CASE BlockSync
  <2>1. /\ Top.at \in {"block", "body"} /\ Kind # "EOF" /\ panic_mode /\ ~panic_mode'
        /\ Kind' = Kind /\ Spends(0) /\ status' = status
    BY <1>0, <1>2, StaySpends DEF BlockSync, InBlock, AtBlock, At, Stay, lexVars, Kind,
       Pure
  <2>2. PICK g : Call(Top, g) /\ g.at = "sync"
    BY <1>2 DEF BlockSync, Frame
  <2>3. Stage = 6 /\ Stage' = 2
    BY <1>0, <1>2, <2>1, <2>2, TopCalled, StageTable, NextStageTable DEF BlockSync,
       InBlock, AtBlock, At
  <2>4. 0 \in {0, 1} /\ Pays(0, Cost(Top.at), Cost(Top.at) + Cost(g.at))
    BY <2>1, <2>2, <2>3, CostTable DEF Pays
  <2> QED  BY <1>0, <1>2, <2>1, <2>2, <2>4, CallWorks DEF BlockSync, InBlock, AtBlock,
           At, Leaves, Above
<1>3. CASE BlockSkip
  BY <1>0, <1>3, StillWorks, AdvanceSpends DEF BlockSkip, InBlock, AtBlock, At, Pure
<1>4. CASE BlockDecl
  <2>1. /\ Top.at \in {"block", "body"} /\ Kind # "EOF" /\ ~panic_mode /\ Kind \in DeclStart
        /\ Kind' = Kind /\ Spends(0) /\ status' = status
    BY <1>0, <1>4, IdleSpends DEF BlockDecl, InBlock, AtBlock, At, Pure
  <2>2. PICK g : Call(Top, g) /\ g.at = "decl" /\ ~g.top
    BY <1>4 DEF BlockDecl
  <2>3. Top' = g
    BY <1>0, <1>4, <2>2, TopCalled DEF BlockDecl, InBlock, AtBlock, At
  <2>4. Takes'
    BY <2>1, <2>2, <2>3 DEF Takes
  <2>5. Stage = 1 /\ Stage' = 0
    BY <2>1, <2>4, StageTable, NextStageTable
  <2>6. 0 \in {0, 1} /\ Pays(0, Cost(Top.at), Cost(Top.at) + Cost(g.at))
    BY <2>1, <2>2, <2>5, CostTable DEF Pays
  <2> QED  BY <1>0, <1>4, <2>1, <2>2, <2>6, CallWorks DEF BlockDecl, InBlock, AtBlock,
           At, Leaves, Above
<1>5. CASE BlockStmt
  <2>1. /\ Top.at \in {"block", "body"} /\ Kind # "EOF" /\ ~panic_mode /\ Kind \in StmtStart
        /\ Kind' = Kind /\ Spends(0) /\ status' = status
    BY <1>0, <1>5, IdleSpends DEF BlockStmt, InBlock, AtBlock, At, Pure
  <2>2. PICK g : Call(Top, g) /\ g.at = "stmt"
    BY <1>5 DEF BlockStmt, CallStmt, Frame
  <2>3. Top' = g
    BY <1>0, <1>5, <2>2, TopCalled DEF BlockStmt, InBlock, AtBlock, At
  <2>4. Takes'
    BY <2>1, <2>2, <2>3 DEF Takes
  <2>5. Stage = 1 /\ Stage' = 0
    BY <2>1, <2>4, StageTable, NextStageTable
  <2>6. 0 \in {0, 1} /\ Pays(0, Cost(Top.at), Cost(Top.at) + Cost(g.at))
    BY <2>1, <2>2, <2>5, CostTable DEF Pays
  <2> QED  BY <1>0, <1>5, <2>1, <2>2, <2>6, CallWorks DEF BlockStmt, InBlock, AtBlock,
           At, Leaves, Above
<1>6. CASE BlockEnd
  <2>1. Spends(1) \/ (Slack /\ Spends(0))
    BY <1>0, <1>6, ConsumeSpends DEF BlockEnd, At, Slack
  <2> QED  BY <1>0, <1>6, <2>1, ReturnReads, ReturnSlack DEF BlockEnd, At, RootLabels
<1>7. CASE StmtCond
  BY <1>0, <1>7, GotoReads, MatchSpends DEF StmtCond, At, Frame, Ordinary, Pure
<1>8. CASE CondOpen
  BY <1>0, <1>8, CallSlack, CostTable, PlainSlack, Retag, ConsumeSpends DEF CondOpen,
     At, CallExpr, Frame, Ordinary, Staged, Waiting, Pure
<1>9. CASE CondClose
  <2>1. Spends(0) /\ Slack /\ At("cond_close") /\ status' = status
    BY <1>0, <1>9, ConsumeSpends, PlainSlack DEF CondClose, At, Pure, Staged, Waiting
  <2>2. PICK l \in {"if_else", "stmt_end"} : Call(Frame(l), Frame("stmt"))
    BY <1>9 DEF CondClose, CallStmt
  <2> QED  BY <1>0, <2>1, <2>2, CallSlack, CostTable DEF At, Frame, Ordinary
<1>10. CASE StmtElse
  BY <1>0, <1>10, CallReads, CostTable, MatchSpends DEF StmtElse, At, CallStmt, Frame,
     Ordinary, Pure
<1>11. CASE StmtNoElse
  BY <1>0, <1>11, ReturnSlack, PlainSlack, IdleSpends DEF StmtNoElse, At, Staged,
     Waiting, RootLabels, Pure
<1>12. CASE StmtJump
  BY <1>0, <1>12, GotoReads, MatchSpends DEF StmtJump, At, Frame, Ordinary, Pure
<1>13. CASE Semicolon
  BY <1>0, <1>13, ReturnSlack, PlainSlack, ConsumeSpends DEF Semicolon, At, Staged,
     Waiting, RootLabels, Pure
<1>14. CASE StmtBlock
  <2>1. PICK f : Goto(f) /\ f.at = "block_open"
    BY <1>14 DEF StmtBlock, Frame
  <2>2. /\ Top' = f /\ Kind' = "L_BRACE" /\ Spends(0) /\ Top.at = "stmt" /\ status' = status
    BY <1>0, <1>14, <2>1, TopGone, IdleSpends DEF StmtBlock, At, Pure
  <2>3. Takes'
    BY <2>1, <2>2 DEF Takes
  <2>4. Stage' <= Stage
    BY <2>2, <2>3, NextStageTable, StageRange
  <2>5. 0 \in {0, 1} /\ Pays(0, Cost(Top.at), Cost(f.at)) /\ Replaces(Top, f)
    BY <2>1, <2>2, <2>4, CostTable DEF Pays, Replaces
  <2> QED  BY <1>0, <1>14, <2>1, <2>2, <2>5, GotoWorks DEF StmtBlock, At
<1>15. CASE StmtReturn
  BY <1>0, <1>15, GotoReads, MatchSpends DEF StmtReturn, At, Frame, Ordinary, Pure
<1>16. CASE ReturnValue
  BY <1>0, <1>16, CallSlack, CostTable, PlainSlack, IdleSpends DEF ReturnValue, At,
     CallExpr, Frame, Ordinary, Staged, Waiting, Pure
<1>17. CASE ReturnEnd
  BY <1>0, <1>17, ReturnSlack, PlainSlack, ExpectSpends DEF ReturnEnd, At, Staged,
     Waiting, RootLabels, Pure
<1>18. CASE ReturnVoid
  BY <1>0, <1>18, ReturnSlack, StopWorks, PlainSlack, ExpectSpends, ConsumeSpends DEF
     ReturnVoid, At, Staged, Waiting, RootLabels, Die, Pure
<1>19. CASE StmtExpr
  <2>1. PICK f, g : Call(f, g) /\ f.at = "stmt_expr" /\ g.at = "binary"
    BY <1>19 DEF StmtExpr, CallExpr, Frame
  <2>2. Top' = g /\ Kind' = Kind /\ Spends(0) /\ Top.at = "stmt" /\ status' = status
    BY <1>0, <1>19, <2>1, TopCalled, IdleSpends DEF StmtExpr, At, Pure
  <2>3. Takes => Takes'
    <3>1. Takes => Kind \in PrefixOps \cup Literals \cup {"L_PAREN", "IDENT"}
      BY <1>19, <2>2 DEF StmtExpr, Takes, StmtStart, PrefixOps
    <3> QED  BY <2>1, <2>2, <3>1 DEF Takes
  <2> QED  BY <1>0, <1>19, <2>1, <2>2, <2>3, CallPasses, CostTable DEF StmtExpr, At,
           Ordinary, Waiting
<1>20. CASE StmtExprNull
  BY <1>0, <1>20, ReturnSlack, PlainSlack, IdleSpends DEF StmtExprNull, At, Staged,
     Waiting, RootLabels, Pure
<1>21. CASE StmtAssign
  BY <1>0, <1>21, CallReads, CostTable, MatchSpends DEF StmtAssign, At, CallExpr,
     Frame, Ordinary, Pure
<1>22. CASE StmtAssignBuild
  BY <1>0, <1>22, GotoSlack, CostTable, PlainSlack, ErrorSpends, StaySpends DEF
     StmtAssignBuild, At, Frame, Ordinary, Staged, Waiting, Pure
<1>23. CASE StmtExprEnd
  BY <1>0, <1>23, ReturnSlack, PlainSlack, ConsumeSpends DEF StmtExprEnd, At, Staged,
     Waiting, RootLabels, Pure
<1>24. CASE StmtEnd
  BY <1>0, <1>24, ReturnSlack, PlainSlack, IdleSpends DEF StmtEnd, At, Staged,
     Waiting, RootLabels, Pure
<1> QED  BY <1>1, <1>2, <1>3, <1>4, <1>5, <1>6, <1>7, <1>8, <1>9, <1>10, <1>11, <1>12,
     <1>13, <1>14, <1>15, <1>16, <1>17, <1>18, <1>19, <1>20, <1>21, <1>22, <1>23,
     <1>24 DEF Statements

LEMMA DeclarationsWork ==
  ASSUME StackInv, DepthInv, TokenInv, ProgressInv, Declarations PROVE Onward
<1>0. ASSUME status = "run"
      PROVE  Going /\ "at" \in DOMAIN Top
  BY <1>0, TopFacts DEF Running, Going
<1>1. CASE DeclConst
  <2>1. PICK f : Goto(f) /\ f.at = "decl_type" /\ f.top = Top.top
    BY <1>1 DEF DeclConst
  <2>2. 1 \in {0, 1} /\ Spends(1) /\ Top.at = "decl" /\ status' = status
    BY <1>0, <1>1, MatchSpends DEF DeclConst, At, Pure
  <2>3. Pays(1, Cost(Top.at), Cost(f.at)) /\ Replaces(Top, f)
    BY <2>1, <2>2, CostTable DEF Pays, Replaces
  <2> QED  BY <1>0, <1>1, <2>1, <2>2, <2>3, GotoWorks DEF DeclConst, At
<1>2. CASE DeclNotConst
  <2>1. PICK f : Goto(f) /\ f.at = "decl_type" /\ f.top = Top.top
    BY <1>2 DEF DeclNotConst
  <2>2. /\ 0 \in {0, 1} /\ Spends(0) /\ Top.at = "decl" /\ status' = status /\ Top' = f
        /\ Kind' = Kind /\ Kind # "CONST"
    BY <1>0, <1>2, <2>1, IdleSpends, TopGone DEF DeclNotConst, At, Pure
  <2>3. Takes' <=> Takes
    BY <2>1, <2>2 DEF Takes, DeclStart
  <2>4. Kind # "EOF" => Stage' <= Stage
    BY <2>1, <2>2, <2>3, StageTable, NextStageTable
  <2>5. Pays(0, Cost(Top.at), Cost(f.at)) /\ Replaces(Top, f)
    BY <2>1, <2>2, <2>4, CostTable DEF Pays, Replaces, Slack
  <2> QED  BY <1>0, <1>2, <2>1, <2>2, <2>5, GotoWorks DEF DeclNotConst, At
<1>3. CASE DeclType
  <2>1. Spends(1)
    BY <1>0, <1>3, AdvanceSpends DEF DeclType, At, TypeWords
  <2> QED  BY <1>0, <1>3, <2>1, GotoReads DEF DeclType, At, Pure, Ordinary
<1>4. CASE DeclNoType
  <2>1. /\ Return(NullNode) /\ Top.at = "decl_type" /\ Top.at \notin RootLabels
        /\ status' = status /\ Spends(0) /\ ~Takes
    BY <1>0, <1>4, ErrorSpends, AdvanceSpends, IdleSpends
       DEF DeclNoType, At, Pure, RootLabels, Takes
  <2>2. CASE Kind = "EOF" \/ ~Top.top
    BY <1>0, <1>4, <2>1, <2>2, StageTable, ReturnSlack DEF DeclNoType, At, Slack
  <2>3. CASE Kind # "EOF" /\ Top.top /\ Top.is_const
    BY <1>0, <1>4, <2>1, <2>3, AdvanceSpends, ReturnReads DEF DeclNoType, At
  <2>4. CASE Kind # "EOF" /\ Top.top /\ ~Top.is_const
    <3>1. Top'.at = "globals_ret" /\ ret' = NullNode /\ Kind' = Kind
      BY <1>0, <1>4, <2>1, <2>4, TopReturned, IdleSpends DEF DeclNoType, At, Above,
         Return
    <3>2. Stage = 4 /\ Stage' = 3
      BY <2>1, <2>4, <3>1, StageTable, NextStageTable
    <3>3. 0 \in {0, 1} /\ Pays(0, Cost(Top.at), 0)
      BY <2>1, <3>2, CostTable DEF Pays
    <3> QED  BY <1>0, <1>4, <2>1, <3>3, ReturnWorks DEF DeclNoType, At
  <2> QED  BY <2>2, <2>3, <2>4
<1>5. CASE DeclName
  BY <1>0, <1>5, GotoReads, MatchSpends DEF DeclName, At, Frame, Ordinary, Pure
<1>6. CASE DeclNoName
  BY <1>0, <1>6, ReturnSlack, PlainSlack, ErrorSpends DEF DeclNoName, At, Staged,
     Waiting, RootLabels, Pure
<1>7. CASE DeclVars
  BY <1>0, <1>7, GotoSlack, CostTable, PlainSlack, Retag, IdleSpends DEF DeclVars, At,
     Frame, Ordinary, Staged, Waiting, Pure
<1>8. CASE VarDims
  BY <1>0, <1>8, CallSlack, CostTable, PlainSlack, Retag, IdleSpends DEF VarDims, At,
     Frame, Ordinary, Staged, Waiting, Pure
<1>9. CASE VarDefine
  BY <1>0, <1>9, GotoSlack, CostTable, PlainSlack, StaySpends DEF VarDefine, At,
     Frame, Ordinary, Staged, Waiting, Pure
<1>10. CASE VarAssign
  BY <1>0, <1>10, GotoReads, Retag, MatchSpends DEF VarAssign, At, Frame, Ordinary,
     Pure
<1>11. CASE VarNoInit
  BY <1>0, <1>11, GotoSlack, CostTable, PlainSlack, ErrorSpends, IdleSpends DEF
     VarNoInit, At, VarRest, Frame, Ordinary, Staged, Waiting, Pure
<1>12. CASE VarInitList
  <2>1. PICK f, g : Call(f, g) /\ f.at = "var_next" /\ g.at = "init"
    BY <1>12 DEF VarInitList, VarRest, Frame
  <2>2. /\ Top' = g /\ Kind = "L_BRACE" /\ Kind' = "L_BRACE" /\ Spends(0)
        /\ Top.at = "var_value" /\ status' = status
    BY <1>0, <1>12, <2>1, TopCalled, IdleSpends DEF VarInitList, At, Pure
  <2>3. Takes'
    BY <2>1, <2>2 DEF Takes
  <2>4. Stage = 6 /\ Stage' = 0
    BY <2>2, <2>3, PlainSlack, NextStageTable DEF Slack, Staged, Waiting
  <2>5. 0 \in {0, 1} /\ Pays(0, Cost(Top.at), Cost(f.at) + Cost(g.at))
    BY <2>1, <2>2, <2>4, CostTable DEF Pays
  <2> QED  BY <1>0, <1>12, <2>1, <2>2, <2>5, CallWorks DEF VarInitList, At, Leaves, Above
<1>13. CASE VarInitExpr
  BY <1>0, <1>13, CallSlack, CostTable, PlainSlack, Retag, IdleSpends DEF VarInitExpr,
     At, CallExpr, Frame, Ordinary, Staged, Waiting, Pure
<1>14. CASE VarCheck
  <2>1. Stay(Judge(Verdict(ty_void, ret # NullNode /\ ~type_eq(Top.ty, ret.ty, params)), ctx))
    BY <1>14, Zenon DEF VarCheck
  <2>2. At("var_check") /\ Goto(VarRest) /\ status' = status
    BY <1>14, Zenon DEF VarCheck, Pure
  <2>3. Spends(0)
    BY <1>0, <2>1, <2>2, StaySpends DEF At
  <2> QED  BY <1>0, <2>2, <2>3, GotoSlack, PlainSlack, CostTable DEF At, VarRest,
           Ordinary, Staged, Waiting
<1>15. CASE VarComma
  BY <1>0, <1>15, GotoReads, Retag, MatchSpends DEF VarComma, At, Frame, Ordinary,
     Pure
<1>16. CASE VarEnd
  BY <1>0, <1>16, ReturnSlack, PlainSlack, ConsumeSpends DEF VarEnd, At, Staged,
     Waiting, RootLabels, Pure
<1>17. CASE VarName
  BY <1>0, <1>17, GotoReads, MatchSpends DEF VarName, At, Frame, Ordinary, Pure
<1>18. CASE VarNoName
  BY <1>0, <1>18, ReturnSlack, PlainSlack, ExpectSpends DEF VarNoName, At, Staged,
     Waiting, RootLabels, Pure
<1>19. CASE DimOpen
  BY <1>0, <1>19, GotoReads, Retag, MatchSpends DEF DimOpen, At, Frame, Ordinary, Pure
<1>20. CASE DimsEnd
  BY <1>0, <1>20, ReturnSlack, PlainSlack, IdleSpends DEF DimsEnd, At, Staged,
     Waiting, RootLabels, Pure
<1>21. CASE DimLen
  BY <1>0, <1>21, GotoReads, MatchSpends DEF DimLen, At, Frame, Ordinary, Pure
<1>22. CASE DimNoLen
  BY <1>0, <1>22, GotoSlack, CostTable, PlainSlack, Retag, AdvanceSpends, StaySpends
     DEF DimNoLen, At, Frame, Ordinary, Staged, Waiting, Pure
<1>23. CASE DimClose
  BY <1>0, <1>23, GotoSlack, CostTable, PlainSlack, ConsumeSpends DEF DimClose, At,
     Frame, Ordinary, Staged, Waiting, Pure
<1>24. CASE DimNull
  BY <1>0, <1>24, StopWorks, ConsumeSpends DEF DimNull, At, Die
<1>25. CASE InitOpen
  <2>1. Spends(0) /\ (Kind = "L_BRACE" => Spends(1))
    BY <1>0, <1>25, ConsumeSpends DEF InitOpen, At
  <2>2. Kind # "L_BRACE" => Slack
    BY <1>25, WaitingSlack DEF InitOpen, At, Takes, Waiting
  <2> QED  BY <1>0, <1>25, <2>1, <2>2, GotoReads, GotoSlack, CostTable
              DEF InitOpen, At, Frame, Ordinary, Pure
<1>26. CASE InitEmpty
  BY <1>0, <1>26, ReturnReads, MatchSpends DEF InitEmpty, At, RootLabels, Pure
<1>27. CASE InitElem
  <2>1. /\ Top.at \in {"init_first", "init_elem"} /\ Kind' = Kind /\ Spends(0)
        /\ Cost(Top.at) = 7 /\ Slack /\ status' = status /\ status = "run"
    BY <1>0, <1>27, IdleSpends, PlainSlack, CostTable DEF InitElem, At, Pure, Staged,
       Waiting
  <2>2. CASE Kind # "L_BRACE"
    BY <1>0, <1>27, <2>1, <2>2, CallSlack, CostTable DEF InitElem, CallAssign, Frame,
       Ordinary
  <2>3. CASE Kind = "L_BRACE"
    <3>1. PICK f, g : Call(f, g) /\ f.at = "init_more" /\ g.at = "init"
      BY <1>27, <2>3 DEF InitElem, Frame
    <3>2. Top' = g
      BY <1>0, <2>1, <3>1, TopCalled
    <3>3. Takes'
      BY <2>1, <2>3, <3>1, <3>2 DEF Takes
    <3>4. Stage = 6 /\ Stage' = 0
      BY <2>1, <2>3, <3>3, NextStageTable DEF Slack
    <3>5. 0 \in {0, 1} /\ Pays(0, Cost(Top.at), Cost(f.at) + Cost(g.at))
      BY <2>1, <3>1, <3>4, CostTable DEF Pays
    <3> QED  BY <1>0, <2>1, <3>1, <3>5, CallWorks DEF Leaves, Above
  <2> QED  BY <2>2, <2>3
<1>28. CASE InitComma
  BY <1>0, <1>28, GotoReads, MatchSpends DEF InitComma, At, Frame, Ordinary, Pure
<1>29. CASE InitClose
  BY <1>0, <1>29, ReturnSlack, PlainSlack, ConsumeSpends DEF InitClose, At, Staged,
     Waiting, RootLabels, Pure
<1> QED  BY <1>1, <1>2, <1>3, <1>4, <1>5, <1>6, <1>7, <1>8, <1>9, <1>10, <1>11, <1>12,
     <1>13, <1>14, <1>15, <1>16, <1>17, <1>18, <1>19, <1>20, <1>21, <1>22, <1>23,
     <1>24, <1>25, <1>26, <1>27, <1>28, <1>29 DEF Declarations

LEMMA FunctionsWork ==
  ASSUME StackInv, DepthInv, TokenInv, ProgressInv, Functions PROVE Onward
<1>0. ASSUME status = "run"
      PROVE  Going /\ "at" \in DOMAIN Top
  BY <1>0, TopFacts DEF Running, Going
<1>1. CASE FuncOpen
  <2>1. Spends(1) /\ status = "run" /\ status' = status
    BY <1>0, <1>1, ExpectSpends DEF FuncOpen, At
  <2>2. PICK f : Goto(f) /\ f.at = "func_enter"
    BY <1>1 DEF FuncOpen
  <2> QED  BY <1>0, <2>1, <2>2, GotoReads DEF Ordinary
<1>2. CASE FuncEnter
  BY <1>0, <1>2, GotoSlack, CostTable, PlainSlack, Retag, IdleSpends DEF FuncEnter,
     At, Frame, Ordinary, Staged, Waiting, Pure
<1>3. CASE ParamType
  BY <1>0, <1>3, GotoSlack, CostTable, PlainSlack, AdvanceSpends DEF ParamType, At,
     ParamFrame, Frame, Ordinary, Staged, Waiting, Pure
<1>4. CASE ParamName
  BY <1>0, <1>4, GotoSlack, CostTable, PlainSlack, ConsumeSpends DEF ParamName, At,
     ParamFrame, Frame, Ordinary, Staged, Waiting, Pure
<1>5. CASE ParamArray
  BY <1>0, <1>5, GotoReads, Retag, MatchSpends DEF ParamArray, At, Frame, Ordinary,
     Pure
<1>6. CASE ParamScalar
  BY <1>0, <1>6, ResumeSlack, CostTable, PlainSlack, Retag, IdleSpends DEF
     ParamScalar, At, Frame, Ordinary, Staged, Waiting, Pure
<1>7. CASE ParamOpenArray
  BY <1>0, <1>7, CallReads, CostTable, Retag, MatchSpends DEF ParamOpenArray, At,
     ParamDims, Frame, Ordinary, Pure
<1>8. CASE ParamLen
  BY <1>0, <1>8, GotoReads, MatchSpends DEF ParamLen, At, Frame, Ordinary, Pure
<1>9. CASE ParamNoLen
  BY <1>0, <1>9, CallSlack, CostTable, PlainSlack, Retag, ErrorSpends DEF ParamNoLen,
     At, ParamDims, Frame, Ordinary, Staged, Waiting, Pure
<1>10. CASE ParamClose
  BY <1>0, <1>10, CallSlack, CostTable, PlainSlack, ConsumeSpends DEF ParamClose, At,
     ParamFrame, Frame, Ordinary, Staged, Waiting, Pure
<1>11. CASE ParamNull
  BY <1>0, <1>11, StopWorks, ConsumeSpends DEF ParamNull, At, Die
<1>12. CASE ParamDefine
  BY <1>0, <1>12, GotoSlack, CostTable, PlainSlack, StaySpends DEF ParamDefine, At,
     FuncFrame, Frame, Ordinary, Staged, Waiting, Pure
<1>13. CASE ParamComma
  BY <1>0, <1>13, GotoReads, MatchSpends DEF ParamComma, At, FuncFrame, Frame,
     Ordinary, Pure
<1>14. CASE ParamsEnd
  BY <1>0, <1>14, GotoSlack, CostTable, PlainSlack, ConsumeSpends DEF ParamsEnd, At,
     FuncFrame, Frame, Ordinary, Staged, Waiting, Pure
<1>15. CASE BodyOpen
  BY <1>0, <1>15, GotoSlack, CostTable, PlainSlack, Retag, ConsumeSpends DEF BodyOpen,
     At, Frame, Ordinary, Staged, Waiting, Pure
<1>16. CASE BodyEnd
  <2>1. Spends(1) \/ (Slack /\ Spends(0))
    BY <1>0, <1>16, ConsumeSpends DEF BodyEnd, At, Slack
  <2> QED  BY <1>0, <1>16, <2>1, ReturnReads, ReturnSlack DEF BodyEnd, At, RootLabels
<1> QED  BY <1>1, <1>2, <1>3, <1>4, <1>5, <1>6, <1>7, <1>8, <1>9, <1>10, <1>11, <1>12,
     <1>13, <1>14, <1>15, <1>16 DEF Functions

LEMMA TopLevelWork ==
  ASSUME StackInv, DepthInv, TokenInv, ProgressInv, TopLevel PROVE Onward
<1>0. ASSUME status = "run"
      PROVE  Going /\ "at" \in DOMAIN Top
  BY <1>0, TopFacts DEF Running, Going
<1>1. CASE GlobalNext
  <2>1. PICK f, g : Call(f, g) /\ f.at = "globals_ret" /\ g.at = "decl" /\ g.top
    BY <1>1 DEF GlobalNext, Frame
  <2>2. /\ Top' = g /\ Kind' = Kind /\ Kind # "EOF" /\ Spends(0) /\ Top.at = "globals"
        /\ status' = status
    BY <1>0, <1>1, <2>1, TopCalled, IdleSpends DEF GlobalNext, At, Pure
  <2>3. Takes' <=> Kind \in DeclStart
    BY <2>1, <2>2 DEF Takes
  <2>4. Stage' < Stage
    BY <2>1, <2>2, <2>3, StageTable, NextStageTable
  <2>5. 0 \in {0, 1} /\ Pays(0, Cost(Top.at), Cost(f.at) + Cost(g.at))
    BY <2>1, <2>2, <2>4, CostTable DEF Pays
  <2> QED  BY <1>0, <1>1, <2>1, <2>2, <2>5, CallWorks DEF GlobalNext, At, Leaves, Above
<1>2. CASE GlobalKeep
  <2>1. Slack
    BY <1>2, StageTable DEF GlobalKeep, At, Slack
  <2> QED  BY <1>0, <1>2, <2>1, IdleSpends, GotoSlack, CostTable DEF GlobalKeep, At,
           Frame, Ordinary
<1>3. CASE GlobalSync
  <2>1. PICK f, g : Call(f, g) /\ f.at = "globals_skip" /\ g.at = "sync"
    BY <1>3 DEF GlobalSync, Frame
  <2>2. /\ Top' = g /\ Kind' = Kind /\ Spends(0) /\ Top.at = "globals_ret" /\ ret = NullNode
        /\ status' = status /\ ~panic_mode'
    BY <1>0, <1>3, <2>1, TopCalled, StaySpends DEF GlobalSync, At, Pure, Stay, lexVars,
       Kind
  <2>3. Kind # "EOF" => Stage = 3 /\ Stage' = 2
    BY <2>1, <2>2, StageTable, NextStageTable
  <2>4. 0 \in {0, 1} /\ Pays(0, Cost(Top.at), Cost(f.at) + Cost(g.at))
    BY <2>1, <2>2, <2>3, CostTable DEF Pays, Slack
  <2> QED  BY <1>0, <1>3, <2>1, <2>2, <2>4, CallWorks DEF GlobalSync, At, Leaves, Above
<1>4. CASE GlobalNoSync
  <2>1. PICK f : Goto(f) /\ f.at = "globals_skip"
    BY <1>4 DEF GlobalNoSync, Frame
  <2>2. /\ Top' = f /\ Kind' = Kind /\ Spends(0) /\ Top.at = "globals_ret" /\ ret = NullNode
        /\ status' = status
    BY <1>0, <1>4, <2>1, TopGone, IdleSpends DEF GlobalNoSync, At, Pure
  <2>3. Kind # "EOF" => Stage = 3 /\ Stage' = 2
    BY <2>1, <2>2, StageTable, NextStageTable
  <2>4. 0 \in {0, 1} /\ Pays(0, Cost(Top.at), Cost(f.at)) /\ Replaces(Top, f)
    BY <2>1, <2>2, <2>3, CostTable DEF Pays, Slack, Replaces
  <2> QED  BY <1>0, <1>4, <2>1, <2>2, <2>4, GotoWorks DEF GlobalNoSync, At
<1>5. CASE GlobalSkip
  <2>1. PICK f : Goto(f) /\ f.at = "globals"
    BY <1>5 DEF GlobalSkip, Frame
  <2>2. Top' = f /\ Top.at = "globals_skip" /\ status' = status /\ Ordinary(f) /\ Replaces(Top, f)
    BY <1>0, <1>5, <2>1, TopGone DEF GlobalSkip, At, Pure, Ordinary, Replaces
  <2>3. CASE Kind \in DeclStart \cup {"EOF"}
    <3>1. Kind' = Kind /\ Spends(0)
      BY <1>0, <1>5, <2>3, StaySpends DEF GlobalSkip, At, Stay, lexVars, Kind
    <3>2. Kind # "EOF" => Stage = 2 /\ Stage' = 1
      BY <2>1, <2>2, <2>3, <3>1, StageTable, NextStageTable
    <3>3. 0 \in {0, 1} /\ Pays(0, Cost(Top.at), Cost(f.at))
      BY <2>1, <2>2, <3>2, CostTable DEF Pays, Slack
    <3> QED  BY <1>0, <1>5, <2>1, <2>2, <3>1, <3>3, GotoWorks DEF GlobalSkip, At
  <2>4. CASE Kind \notin DeclStart \cup {"EOF"}
    BY <1>0, <1>5, <2>1, <2>2, <2>4, AdvanceSpends, GotoReads DEF GlobalSkip, At
  <2> QED  BY <2>3, <2>4
<1>6. CASE GlobalsEnd
  BY <1>0, <1>6, AdvanceSpends, StopWorks DEF GlobalsEnd, Match, At
<1>7. CASE SyncSkip
  BY <1>0, <1>7, AdvanceSpends, StillWorks, GoingStack DEF SyncSkip, At, Synced, Pure
<1>8. CASE SyncEnd
  <2>1. /\ Return(NullNode) /\ Top.at = "sync" /\ Top.at \notin RootLabels /\ status' = status
        /\ Spends(0) /\ Kind' = Kind /\ panic_mode' = panic_mode /\ ~panic_mode
    BY <1>0, <1>8, IdleSpends, GoingStack DEF SyncEnd, At, Idle, Pure, RootLabels
  <2>2. Top'.at \in {"block", "body", "globals_skip"}
    BY <1>0, <1>8, <2>1, TopReturned DEF SyncEnd, At, Above
  <2>3. Kind # "EOF" => Stage = 2 /\ Stage' <= 2
    BY <2>1, <2>2, StageTable, NextStageTable
  <2>4. 0 \in {0, 1} /\ Pays(0, Cost(Top.at), 0)
    BY <2>1, <2>3, CostTable DEF Pays, Slack
  <2> QED  BY <1>0, <1>8, <2>1, <2>4, ReturnWorks DEF SyncEnd, At
<1> QED  BY <1>1, <1>2, <1>3, <1>4, <1>5, <1>6, <1>7, <1>8 DEF TopLevel

\* For every token stream and every mixture of errors each step of the parser
\* leaves less to do: at most forty-eight steps for every token that can still
\* come, and a few more, are left, so that no loop can come round to where it was
\* without having read - neither synchronize, nor a block that skips what it
\* cannot start with, nor the top level (parser.c:78-98, 410-455, 722-764,
\* 852-878).
THEOREM ParserLinear == Spec => ParsesLinear
<1>1. Init => ProgressInv
  <2> SUFFICES ASSUME Init PROVE ProgressInv
    OBVIOUS
  <2>1. /\ stack = <<Frame("globals")>> /\ fed = IF Kind = "EOF" THEN 0 ELSE 1
        /\ Kind # "EOF" => Len(Prefix) > 0 \/ FreeTokens > 0
    BY DEF Init, Kind, Tok
  <2>2. Len(stack) = 1 /\ stack[1].at = "globals"
    BY <2>1 DEF Frame
  <2>3. Stacked(stack) /\ Top.at = "globals"
    BY <2>2 DEF Stacked, Top, Last
  <2>4. fed <= Supply
    BY <2>1, SupplyNat, ParserAssumption DEF Supply
  <2> QED  BY <2>3, <2>4 DEF ProgressInv
<1>2. LatchInv /\ StackInv /\ DepthInv /\ ProgressInv /\ [Next]_vars
        => ProgressInv' /\ [status = "run" => Work' \in Nat /\ Work' < Work]_vars
  <2> SUFFICES ASSUME LatchInv, StackInv, DepthInv, ProgressInv, Next \/ UNCHANGED vars
               PROVE  /\ ProgressInv'
                      /\ (status = "run" => Work' \in Nat /\ Work' < Work) \/ UNCHANGED vars
    OBVIOUS
  <2>1. CASE UNCHANGED vars
    BY <2>1 DEF vars, lexVars, ProgressInv, Top
  <2>2. CASE Stopped
    BY <2>1, <2>2 DEF Stopped
  <2>3. CASE Step
    <3>1. Onward
      BY <2>3, ExpressionsWork, StatementsWork, DeclarationsWork, FunctionsWork, TopLevelWork
         DEF Step, LatchInv
    <3> QED  BY <3>1 DEF Onward, Falls
  <2> QED  BY <2>1, <2>2, <2>3 DEF Next
<1> QED  BY <1>1, <1>2, LatchInvariant, StackInvariant, DepthInvariant, PTL DEF Spec, ParsesLinear
=============================================================================
