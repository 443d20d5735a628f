----------------------------- MODULE FramingProofs -----------------------------
(***************************************************************************)
(* What holds of Framing for every base (256 in the code), all delimiters, *)
(* payload bytes, limits and buffer sizes.                                 *)
(*                                                                         *)
(* The recursive functions are reasoned about with sets of naturals, which *)
(* have least elements.  The rest is one position in all that was written: *)
(* r bytes have been read (Wire: the stream is what follows), and r is     *)
(* where Headed (Uint32, Uvarint) or Trailed (Legacy) says the decoder is. *)
(***************************************************************************)
EXTENDS Framing, WellFoundedInduction, TLAPS

-------------------------------------------------------------------------------
(* Induction over data                                                     *)

\* A set of naturals has a least element.
LEMMA Least ==
    ASSUME NEW T \in SUBSET Nat, T # {}
    PROVE  \E x \in T : \A y \in T : x <= y
<1>1. IsWellFoundedOn(OpToRel(<, Nat), Nat) BY NatLessThanWellFounded
<1>2. PICK x \in T : \A y \in T : ~(<<y, x>> \in OpToRel(<, Nat)) BY <1>1, WFMin, Zenon
<1>3. \A y \in T : <<y, x>> \in OpToRel(<, Nat) <=> y < x BY DEF OpToRel
<1>4. \A y \in T : ~(y < x) BY <1>2, <1>3, Zenon
<1>5. x \in Nat /\ \A y \in T : y \in Nat OBVIOUS
<1>6. \A y \in T : x <= y BY <1>4, <1>5
<1> QED BY <1>6

\* Induction over the naturals, for a set of numbers.
LEMMA Induction ==
    ASSUME NEW T \in SUBSET Nat, 0 \in T, \A n \in T : n + 1 \in T
    PROVE  T = Nat
<1> SUFFICES ASSUME T # Nat PROVE FALSE OBVIOUS
<1>1. PICK x \in Nat \ T : \A y \in Nat \ T : x <= y BY Least
<1>2. x - 1 \in Nat /\ x - 1 \in T BY <1>1
<1> QED BY <1>1, <1>2

\* The same with all smaller numbers in the hypothesis.
LEMMA StrongInduction ==
    ASSUME NEW T \in SUBSET Nat, \A n \in Nat : (\A m \in 0..(n - 1) : m \in T) => n \in T
    PROVE  T = Nat
<1> SUFFICES ASSUME T # Nat PROVE FALSE OBVIOUS
<1>1. PICK x \in Nat \ T : \A y \in Nat \ T : x <= y BY Least
<1>2. \A m \in 0..(x - 1) : m \in T BY <1>1
<1> QED BY <1>1, <1>2

-------------------------------------------------------------------------------
(* Total                                                                   *)

\* The recursion of Total has a solution.
LEMMA TotalExists ==
    ASSUME NEW i \in Nat, NEW w \in [1..i -> Nat]
    PROVE  \E f \in [0..i -> Nat] : f = [k \in 0..i |-> IF k = 0 THEN 0 ELSE f[k - 1] + w[k]]
<1> DEFINE Solved(n) ==
              \E f \in [0..n -> Nat] : f[0] = 0 /\ \A k \in 1..n : f[k] = f[k - 1] + w[k]
           T == {n \in Nat : n <= i => Solved(n)}
<1>1. Solved(0)
  <2>1. [k \in 0..0 |-> 0] \in [0..0 -> Nat] OBVIOUS
  <2>2. [k \in 0..0 |-> 0][0] = 0 /\ 1..0 = {} OBVIOUS
  <2> QED BY <2>1, <2>2
<1>2. ASSUME NEW n \in Nat, n + 1 <= i, Solved(n) PROVE Solved(n + 1)
  <2>1. PICK f \in [0..n -> Nat] : f[0] = 0 /\ \A k \in 1..n : f[k] = f[k - 1] + w[k] BY <1>2
  <2> DEFINE g == [k \in 0..(n + 1) |-> IF k <= n THEN f[k] ELSE f[n] + w[n + 1]]
  <2>2. w[n + 1] \in Nat BY <1>2
  <2>3. g \in [0..(n + 1) -> Nat] BY <2>2
  <2>4. g[0] = 0 BY <2>1
  <2>5. ASSUME NEW k \in 1..(n + 1) PROVE g[k] = g[k - 1] + w[k]
    <3>1. CASE k <= n BY <2>1, <3>1
    <3>2. CASE k = n + 1
      <4>1. g[n + 1] = f[n] + w[n + 1] /\ g[n] = f[n] BY <1>2
      <4> QED BY <4>1, <3>2
    <3> QED BY <3>1, <3>2
  <2> HIDE DEF g
  <2> QED BY <2>3, <2>4, <2>5
<1> HIDE DEF Solved
<1>3. T = Nat
  <2>1. 0 \in T BY <1>1
  <2>2. \A n \in T : n + 1 \in T BY <1>2
  <2> QED BY <2>1, <2>2, Induction
<1>4. Solved(i) BY <1>3
<1>5. PICK f \in [0..i -> Nat] : f[0] = 0 /\ \A k \in 1..i : f[k] = f[k - 1] + w[k]
  BY <1>4 DEF Solved
<1>6. f = [k \in 0..i |-> IF k = 0 THEN 0 ELSE f[k - 1] + w[k]] BY <1>5
<1> QED BY <1>6

\* Total is the only one.
LEMMA TotalIs ==
    ASSUME NEW n \in Nat, NEW w \in [1..n -> Nat], NEW g \in [0..n -> Nat],
           g[0] = 0, \A k \in 1..n : g[k] = g[k - 1] + w[k],
           NEW i \in 0..n
    PROVE  Total(w, i) = g[i]
<1> DEFINE P(f) == f = [k \in 0..i |-> IF k = 0 THEN 0 ELSE f[k - 1] + w[k]]
           h == [k \in 0..i |-> g[k]]
           f == CHOOSE x : P(x)
<1>1. P(h)
  <2>1. \A k \in 0..i : h[k] = IF k = 0 THEN 0 ELSE h[k - 1] + w[k] OBVIOUS
  <2> QED BY <2>1
<1>2. P(f)
  <2> HIDE DEF P, h
  <2> QED BY <1>1, Zenon
<1> DEFINE T == {k \in Nat : k <= i => f[k] = g[k]}
<1>3. f[0] = 0 /\ \A k \in 1..i : f[k] = f[k - 1] + w[k]
  <2> HIDE DEF f
  <2>1. f = [k \in 0..i |-> IF k = 0 THEN 0 ELSE f[k - 1] + w[k]] BY <1>2, Zenon
  <2>2. \A k \in 0..i : f[k] = IF k = 0 THEN 0 ELSE f[k - 1] + w[k] BY ONLY <2>1, Zenon
  <2>3. 0 \in 0..i /\ \A k \in 1..i : k \in 0..i /\ k # 0 OBVIOUS
  <2> QED BY <2>2, <2>3, Zenon
<1>4. Total(w, i) = f[i] BY Zenon DEF Total
<1> HIDE DEF f
<1>5. T = Nat
  <2>1. 0 \in T BY <1>3
  <2>2. ASSUME NEW k \in T PROVE k + 1 \in T
    <3>1. CASE k + 1 > i BY <3>1
    <3>2. CASE k + 1 <= i
      <4>1. f[k + 1] = f[k] + w[k + 1] BY <1>3, <3>2
      <4>2. g[k + 1] = g[k] + w[k + 1] BY <3>2
      <4> QED BY <4>1, <4>2, <3>2
    <3> QED BY <3>1, <3>2
  <2> QED BY <2>1, <2>2, Induction
<1>6. \A k \in Nat : k <= i => f[k] = g[k] BY <1>5
<1> QED BY <1>4, <1>6

LEMMA Totals ==
    ASSUME NEW n \in Nat, NEW w \in [1..n -> Nat]
    PROVE  /\ Total(w, 0) = 0
           /\ \A i \in 0..n : Total(w, i) \in Nat
           /\ \A i \in 1..n : Total(w, i) = Total(w, i - 1) + w[i]
<1>1. PICK g \in [0..n -> Nat] : g = [k \in 0..n |-> IF k = 0 THEN 0 ELSE g[k - 1] + w[k]]
  BY TotalExists
<1>2. g[0] = 0 /\ \A k \in 1..n : g[k] = g[k - 1] + w[k] BY <1>1
<1>3. \A i \in 0..n : Total(w, i) = g[i] BY <1>2, TotalIs
<1> QED BY <1>2, <1>3

\* It depends on the first lengths only.
LEMMA TotalOfSome ==
    ASSUME NEW m \in Nat, NEW n \in Nat, NEW v \in [1..m -> Nat], NEW w \in [1..n -> Nat],
           NEW i \in Nat, i <= m, i <= n, \A k \in 1..i : v[k] = w[k]
    PROVE  Total(v, i) = Total(w, i)
<1>1. /\ Total(v, 0) = 0
      /\ \A k \in 0..m : Total(v, k) \in Nat
      /\ \A k \in 1..m : Total(v, k) = Total(v, k - 1) + v[k]
  BY Totals
<1>2. /\ Total(w, 0) = 0
      /\ \A k \in 0..n : Total(w, k) \in Nat
      /\ \A k \in 1..n : Total(w, k) = Total(w, k - 1) + w[k]
  BY Totals
<1> DEFINE T == {k \in Nat : k <= i => Total(v, k) = Total(w, k)}
<1>3. T = Nat
  <2>1. 0 \in T BY <1>1, <1>2
  <2>2. ASSUME NEW k \in T PROVE k + 1 \in T
    <3>1. CASE k + 1 > i BY <3>1
    <3>2. CASE k + 1 <= i
      <4>1. Total(v, k + 1) = Total(v, k) + v[k + 1] BY <1>1, <3>2
      <4>2. Total(w, k + 1) = Total(w, k) + w[k + 1] BY <1>2, <3>2
      <4>3. v[k + 1] = w[k + 1] BY <3>2
      <4> QED BY <4>1, <4>2, <4>3, <3>2
    <3> QED BY <3>1, <3>2
  <2> QED BY <2>1, <2>2, Induction
<1> QED BY <1>3

LEMMA TotalRises ==
    ASSUME NEW n \in Nat, NEW w \in [1..n -> Nat], \A k \in 1..n : w[k] > 0
    PROVE  \A i, j \in 0..n : i < j => Total(w, i) < Total(w, j)
<1> SUFFICES ASSUME NEW i \in 0..n PROVE \A j \in 0..n : i < j => Total(w, i) < Total(w, j)
  OBVIOUS
<1>1. /\ \A k \in 0..n : Total(w, k) \in Nat
      /\ \A k \in 1..n : Total(w, k) = Total(w, k - 1) + w[k]
  BY Totals
<1> DEFINE T == {k \in Nat : k \in (i + 1)..n => Total(w, i) < Total(w, k)}
<1>2. T = Nat
  <2>1. 0 \in T OBVIOUS
  <2>2. ASSUME NEW k \in T PROVE k + 1 \in T
    <3> SUFFICES ASSUME k + 1 \in (i + 1)..n PROVE Total(w, i) < Total(w, k + 1) OBVIOUS
    <3>1. Total(w, k + 1) = Total(w, k) + w[k + 1] /\ w[k + 1] > 0 BY <1>1
    <3>2. Total(w, k) \in Nat /\ w[k + 1] \in Nat BY <1>1
    <3>3. CASE k = i BY <3>1, <3>2, <3>3
    <3>4. CASE k # i BY <3>1, <3>2, <3>4, <1>1
    <3> QED BY <3>3, <3>4
  <2> QED BY <2>1, <2>2, Induction
<1>3. \A j \in (i + 1)..n : j \in T BY <1>2
<1> QED BY <1>3

-------------------------------------------------------------------------------
(* NonEmpty                                                                *)

Solves(f, n, s) ==
    /\ f[0] = <<>>
    /\ \A k \in 1..n : f[k] = IF s[k] = <<>> THEN f[k - 1] ELSE Append(f[k - 1], s[k])

LEMMA NonEmptyExists ==
    ASSUME NEW X, NEW s \in Seq(X)
    PROVE  \E f \in [0..Len(s) -> Seq(X)] : Solves(f, Len(s), s)
<1> DEFINE Solved(n) == \E f \in [0..n -> Seq(X)] : Solves(f, n, s)
           T == {n \in Nat : n <= Len(s) => Solved(n)}
<1>1. Solved(0)
  <2>1. [k \in 0..0 |-> <<>>] \in [0..0 -> Seq(X)] OBVIOUS
  <2>2. [k \in 0..0 |-> <<>>][0] = <<>> /\ 1..0 = {} OBVIOUS
  <2>3. Solves([k \in 0..0 |-> <<>>], 0, s) BY <2>2 DEF Solves
  <2> QED BY <2>1, <2>3
<1>2. ASSUME NEW n \in Nat, n + 1 <= Len(s), Solved(n) PROVE Solved(n + 1)
  <2>1. PICK f \in [0..n -> Seq(X)] : Solves(f, n, s) BY <1>2
  <2> DEFINE last == IF s[n + 1] = <<>> THEN f[n] ELSE Append(f[n], s[n + 1])
             g == [k \in 0..(n + 1) |-> IF k <= n THEN f[k] ELSE last]
  <2>2. last \in Seq(X) BY <1>2
  <2> HIDE DEF last
  <2>3. g \in [0..(n + 1) -> Seq(X)] BY <2>2
  <2>4. g[0] = <<>> BY <2>1 DEF Solves
  <2>5. ASSUME NEW k \in 1..(n + 1)
        PROVE  g[k] = IF s[k] = <<>> THEN g[k - 1] ELSE Append(g[k - 1], s[k])
    <3>1. CASE k <= n
      <4>1. g[k] = f[k] /\ g[k - 1] = f[k - 1] BY <3>1
      <4> HIDE DEF g
      <4> QED BY <2>1, <3>1, <4>1 DEF Solves
    <3>2. CASE k = n + 1
      <4>1. g[n + 1] = last /\ g[n] = f[n] BY <1>2
      <4> HIDE DEF g
      <4> QED BY <4>1, <3>2 DEF last
    <3> QED BY <3>1, <3>2
  <2> HIDE DEF g
  <2> QED BY <2>3, <2>4, <2>5 DEF Solves
<1> HIDE DEF Solved
<1>3. T = Nat
  <2>1. 0 \in T BY <1>1
  <2>2. \A n \in T : n + 1 \in T BY <1>2
  <2> QED BY <2>1, <2>2, Induction
<1>4. Solved(Len(s)) BY <1>3
<1> QED BY <1>4 DEF Solved

LEMMA NonEmptyIs ==
    ASSUME NEW X, NEW s \in Seq(X), NEW m \in Nat, NEW t, NEW g, Solves(g, m, t), Len(s) <= m,
           \A k \in 1..Len(s) : s[k] = t[k]
    PROVE  NonEmpty(s) = g[Len(s)]
<1> DEFINE n == Len(s)
           P(f) == f = [i \in 0..n |-> IF i = 0 THEN <<>>
                          ELSE IF s[i] = <<>> THEN f[i - 1] ELSE Append(f[i - 1], s[i])]
           f == CHOOSE x : P(x)
<1>1. PICK h \in [0..n -> Seq(X)] : Solves(h, n, s) BY NonEmptyExists
<1>2. P(h)
  <2>1. h[0] = <<>> BY <1>1 DEF Solves
  <2>2. \A i \in 1..n : h[i] = IF s[i] = <<>> THEN h[i - 1] ELSE Append(h[i - 1], s[i])
    BY <1>1 DEF Solves
  <2>3. \A i \in 0..n : i # 0 => i \in 1..n OBVIOUS
  <2>4. \A i \in 0..n : h[i] = IF i = 0 THEN <<>>
              ELSE IF s[i] = <<>> THEN h[i - 1] ELSE Append(h[i - 1], s[i])
    BY <2>1, <2>2, <2>3, Zenon
  <2>5. h = [i \in 0..n |-> h[i]] OBVIOUS
  <2> QED BY <2>4, <2>5, Zenon
<1>3. P(f)
  <2> HIDE DEF P
  <2> QED BY <1>2, Zenon
<1>4. NonEmpty(s) = f[n] BY Zenon DEF NonEmpty
<1>5. Solves(f, n, s)
  <2> HIDE DEF f
  <2>1. n \in Nat OBVIOUS
  <2>2. \A i \in 0..n : f[i] = IF i = 0 THEN <<>>
              ELSE IF s[i] = <<>> THEN f[i - 1] ELSE Append(f[i - 1], s[i])
    BY <1>3, Zenon
  <2> HIDE DEF n
  <2>3. \A i \in 1..n : i # 0 /\ i \in 0..n BY <2>1
  <2>4. \A i \in 1..n : f[i] = IF s[i] = <<>> THEN f[i - 1] ELSE Append(f[i - 1], s[i])
    BY <2>2, <2>3, Zenon
  <2>5. f[0] = <<>> BY <2>1, <2>2
  <2> QED BY <2>4, <2>5 DEF Solves
<1> HIDE DEF f
<1> DEFINE T == {k \in Nat : k <= n => f[k] = g[k]}
<1>6. T = Nat
  <2>1. 0 \in T BY <1>5 DEF Solves
  <2>2. ASSUME NEW k \in T PROVE k + 1 \in T
    <3>1. CASE k + 1 > n BY <3>1
    <3>2. CASE k + 1 <= n
      <4>1. f[k + 1] = IF s[k + 1] = <<>> THEN f[k] ELSE Append(f[k], s[k + 1])
        BY <1>5, <3>2 DEF Solves
      <4>2. g[k + 1] = IF t[k + 1] = <<>> THEN g[k] ELSE Append(g[k], t[k + 1])
        BY <3>2 DEF Solves
      <4> QED BY <4>1, <4>2, <3>2
    <3> QED BY <3>1, <3>2
  <2> QED BY <2>1, <2>2, Induction
<1>7. f[n] = g[n] BY <1>6
<1> QED BY <1>4, <1>7

\* One element more, and what comes first stays first.
LEMMA NonEmptys ==
    ASSUME NEW X, NEW s \in Seq(X)
    PROVE  /\ NonEmpty(First(s, 0)) = <<>>
           /\ \A k \in 0..Len(s) : NonEmpty(First(s, k)) \in Seq(X)
           /\ \A k \in 1..Len(s) :
                NonEmpty(First(s, k)) =
                    IF s[k] = <<>> THEN NonEmpty(First(s, k - 1))
                    ELSE Append(NonEmpty(First(s, k - 1)), s[k])
           /\ NonEmpty(First(s, Len(s))) = NonEmpty(s)
<1>1. PICK g \in [0..Len(s) -> Seq(X)] : Solves(g, Len(s), s) BY NonEmptyExists
<1>2. ASSUME NEW k \in 0..Len(s) PROVE NonEmpty(First(s, k)) = g[k]
  <2>1. First(s, k) \in Seq(X) /\ Len(First(s, k)) = k /\ \A i \in 1..k : First(s, k)[i] = s[i]
    BY DEF First
  <2> DEFINE t == First(s, k)
  <2>2. t \in Seq(X) /\ Len(t) = k /\ Len(t) <= Len(s) /\ Len(s) \in Nat
    BY <2>1
  <2>3. \A i \in 1..Len(t) : t[i] = s[i] BY <2>1
  <2> HIDE DEF t
  <2>4. NonEmpty(t) = g[Len(t)] BY <1>1, <2>2, <2>3, NonEmptyIs
  <2> QED BY <2>2, <2>4 DEF t
<1>3. First(s, Len(s)) = s BY DEF First
<1>4. g[0] = <<>> /\ \A k \in 0..Len(s) : g[k] \in Seq(X) BY <1>1 DEF Solves
<1>5. \A k \in 1..Len(s) : g[k] = IF s[k] = <<>> THEN g[k - 1] ELSE Append(g[k - 1], s[k])
  BY <1>1 DEF Solves
<1>6. \A k \in 1..Len(s) : k \in 0..Len(s) /\ k - 1 \in 0..Len(s) OBVIOUS
<1>7. NonEmpty(First(s, 0)) = <<>> BY <1>2, <1>4
<1>8. NonEmpty(First(s, Len(s))) = NonEmpty(s) BY <1>3
<1>9. \A k \in 0..Len(s) : NonEmpty(First(s, k)) \in Seq(X) BY <1>2, <1>4
<1>10. ASSUME NEW k \in 1..Len(s)
       PROVE  NonEmpty(First(s, k)) =
                    IF s[k] = <<>> THEN NonEmpty(First(s, k - 1))
                    ELSE Append(NonEmpty(First(s, k - 1)), s[k])
  <2>1. NonEmpty(First(s, k)) = g[k] /\ NonEmpty(First(s, k - 1)) = g[k - 1] BY <1>2, <1>6
  <2> QED BY <2>1, <1>5, Zenon
<1> QED BY <1>7, <1>8, <1>9, <1>10

LEMMA NonEmptyGrows ==
    ASSUME NEW X, NEW s \in Seq(X), NEW i \in 0..Len(s)
    PROVE  \A k \in i..Len(s) :
              LET a == NonEmpty(First(s, i))
                  b == NonEmpty(First(s, k))
              IN  Len(a) <= Len(b) /\ \A x \in 1..Len(a) : b[x] = a[x]
<1> DEFINE N(k) == NonEmpty(First(s, k))
           Keeps(k) == Len(N(i)) <= Len(N(k)) /\ \A x \in 1..Len(N(i)) : N(k)[x] = N(i)[x]
           T == {k \in Nat : k \in i..Len(s) => Keeps(k)}
<1>1. /\ \A k \in 0..Len(s) : N(k) \in Seq(X)
      /\ \A k \in 1..Len(s) : N(k) = IF s[k] = <<>> THEN N(k - 1) ELSE Append(N(k - 1), s[k])
  BY NonEmptys
<1> HIDE DEF N
<1>2. Keeps(i) BY <1>1
<1>3. ASSUME NEW k \in i..Len(s), k + 1 <= Len(s), Keeps(k) PROVE Keeps(k + 1)
  <2>1. N(k) \in Seq(X) /\ N(i) \in Seq(X) BY <1>1
  <2>2. k + 1 \in 1..Len(s) /\ (k + 1) - 1 = k BY <1>3
  <2>3. N(k + 1) = IF s[k + 1] = <<>> THEN N((k + 1) - 1) ELSE Append(N((k + 1) - 1), s[k + 1])
    BY <1>1, <2>2, Zenon
  <2>4. s[k + 1] \in X BY <1>3
  <2>5. CASE s[k + 1] = <<>> BY <1>3, <2>2, <2>3, <2>5, Zenon
  <2>6. CASE s[k + 1] # <<>>
    <3>1. N(k + 1) = Append(N(k), s[k + 1]) BY <2>2, <2>3, <2>6, Zenon
    <3> DEFINE a == N(i)
               b == N(k)
               c == N(k + 1)
               e == s[k + 1]
    <3>2. c = Append(b, e) /\ a \in Seq(X) /\ b \in Seq(X) /\ e \in X
      BY <3>1, <2>1, <2>4
    <3>3. Len(a) <= Len(b) /\ \A x \in 1..Len(a) : b[x] = a[x] BY <1>3
    <3> HIDE DEF a, b, c, e
    <3>4. Len(a) <= Len(c) /\ \A x \in 1..Len(a) : c[x] = a[x] BY <3>2, <3>3
    <3> QED BY <3>4 DEF a, c
  <2> QED BY <2>5, <2>6
<1> HIDE DEF Keeps
<1>4. T = Nat
  <2>1. 0 \in T BY <1>2
  <2>2. ASSUME NEW k \in T PROVE k + 1 \in T BY <1>2, <1>3
  <2> QED BY <2>1, <2>2, Induction
<1>5. \A k \in i..Len(s) : Keeps(k) BY <1>4
<1> QED BY <1>5 DEF Keeps, N

-------------------------------------------------------------------------------
(* Varint                                                                  *)

LEMMA Division ==
    ASSUME NEW n \in Nat
    PROVE  /\ n \div Base \in Nat /\ n % Base \in 0..(Base - 1)
           /\ n = (n % Base) + (n \div Base) * Base
           /\ n < Base => n % Base = n
           /\ n >= Base => n \div Base < n
           /\ (Base + (n % Base)) % Base = n % Base
           /\ Base + (n % Base) \in Byte /\ n % Base \in Byte
<1>1. Base \in Nat /\ Base > 1 BY BaseAssumption
<1>2. n \div Base \in Nat /\ n % Base \in 0..(Base - 1) BY <1>1
<1>3. n = (n % Base) + (n \div Base) * Base BY <1>1
<1>4. n >= Base => n \div Base < n BY <1>1
<1>5. n < Base => n % Base = n BY <1>1
<1>6. \A d \in 0..(Base - 1) : (Base + d) % Base = d BY <1>1
<1>7. Base + (n % Base) \in Byte /\ n % Base \in Byte BY <1>1, <1>2 DEF Byte
<1> QED BY <1>2, <1>3, <1>4, <1>5, <1>6, <1>7

Digits(f, n) == IF n < Base THEN <<n>> ELSE <<Base + (n % Base)>> \o f[n \div Base]

LEMMA DigitsAreBytes ==
    ASSUME NEW n \in Nat, NEW f, n >= Base => f[n \div Base] \in Seq(Byte)
    PROVE  Digits(f, n) \in Seq(Byte)
<1>1. CASE n < Base
  <2>1. n \in Byte BY <1>1, BaseAssumption DEF Byte
  <2> QED BY <1>1, <2>1 DEF Digits
<1>2. CASE n >= Base
  <2>1. Base + (n % Base) \in Byte BY Division, BaseAssumption
  <2>2. ~(n < Base) BY <1>2, BaseAssumption
  <2> QED BY <1>2, <2>1, <2>2 DEF Digits
<1> QED BY <1>1, <1>2, BaseAssumption

LEMMA VarintExists ==
    ASSUME NEW M \in Nat
    PROVE  \E f \in [0..M -> Seq(Byte)] : \A n \in 0..M : f[n] = Digits(f, n)
<1> DEFINE Solved(m) == \E f \in [0..m -> Seq(Byte)] : \A n \in 0..m : f[n] = Digits(f, n)
           T == {m \in Nat : Solved(m)}
<1>1. Solved(0)
  <2>1. 0 < Base BY BaseAssumption
  <2> DEFINE f == [n \in 0..0 |-> <<0>>]
  <2>2. <<0>> \in Seq(Byte) BY <2>1, BaseAssumption DEF Byte
  <2>3. f \in [0..0 -> Seq(Byte)] BY <2>2
  <2>4. \A n \in 0..0 : f[n] = Digits(f, n) BY <2>1 DEF Digits
  <2> HIDE DEF f
  <2> QED BY <2>3, <2>4
<1>2. ASSUME NEW m \in Nat, Solved(m) PROVE Solved(m + 1)
  <2>1. PICK f \in [0..m -> Seq(Byte)] : \A n \in 0..m : f[n] = Digits(f, n) BY <1>2
  <2> DEFINE last == Digits(f, m + 1)
             g == [n \in 0..(m + 1) |-> IF n <= m THEN f[n] ELSE last]
  <2>2. ASSUME NEW n \in 0..(m + 1), n >= Base PROVE n \div Base \in 0..m
    <3>1. n \div Base \in Nat /\ n \div Base < n BY <2>2, Division
    <3> QED BY <3>1
  <2>3. last \in Seq(Byte) BY <2>2, DigitsAreBytes
  <2> HIDE DEF last
  <2>4. g \in [0..(m + 1) -> Seq(Byte)] BY <2>3
  <2>5. ASSUME NEW n \in 0..(m + 1) PROVE Digits(g, n) = Digits(f, n)
    <3>1. CASE n < Base BY <3>1 DEF Digits
    <3>2. CASE n >= Base
      <4>1. g[n \div Base] = f[n \div Base] BY <2>2, <3>2
      <4> HIDE DEF g
      <4> QED BY <4>1 DEF Digits
    <3> QED BY <3>1, <3>2, BaseAssumption
  <2>6. ASSUME NEW n \in 0..(m + 1) PROVE g[n] = Digits(g, n)
    <3>1. CASE n <= m
      <4>1. g[n] = f[n] BY <3>1
      <4> HIDE DEF g
      <4> QED BY <2>1, <2>5, <3>1, <4>1
    <3>2. CASE n = m + 1
      <4>1. g[m + 1] = last OBVIOUS
      <4> HIDE DEF g
      <4> QED BY <2>5, <3>2, <4>1 DEF last
    <3> QED BY <3>1, <3>2
  <2> HIDE DEF g
  <2> QED BY <2>4, <2>6
<1> HIDE DEF Solved
<1>3. T = Nat
  <2>1. 0 \in T BY <1>1
  <2>2. \A n \in T : n + 1 \in T BY <1>2
  <2> QED BY <2>1, <2>2, Induction
<1>4. Solved(M) BY <1>3
<1> QED BY <1>4 DEF Solved

LEMMA VarintDef ==
    \A n \in 0..MaxPayload : Varint[n] = Digits(Varint, n)
<1> DEFINE P(f) == f = [n \in 0..MaxPayload |->
                          IF n < Base THEN <<n>> ELSE <<Base + (n % Base)>> \o f[n \div Base]]
<1>1. MaxPayload \in Nat BY PayloadAssumption, BaseAssumption DEF MaxUint16
<1>2. PICK h \in [0..MaxPayload -> Seq(Byte)] : \A n \in 0..MaxPayload : h[n] = Digits(h, n)
  BY <1>1, VarintExists
<1>3. P(h)
  <2>1. h = [n \in 0..MaxPayload |-> h[n]] OBVIOUS
  <2> QED BY <1>2, <2>1, Zenon DEF Digits
<1>4. P(Varint)
  <2>1. Varint = CHOOSE x : P(x) BY Zenon DEF Varint
  <2> HIDE DEF P
  <2> QED BY <1>3, <2>1, Zenon
<1>5. ASSUME NEW n \in 0..MaxPayload PROVE Varint[n] = Digits(Varint, n)
  BY <1>4, Zenon DEF Digits
<1> QED BY <1>5

\* v are the values of the digits of h from each on.
Values(v, h) ==
    /\ v[Len(h) + 1] = 0
    /\ \A i \in 1..Len(h) : v[i] = (h[i] % Base) + v[i + 1] * Base

\* What Varint writes: a last digit without the mark, only marked ones before it, and
\* together they are worth what was written.
Encodes(h, n) ==
    /\ h \in Seq(Byte) /\ Len(h) > 0
    /\ h[Len(h)] < Base /\ \A i \in 1..(Len(h) - 1) : h[i] >= Base
    /\ \E v \in [1..(Len(h) + 1) -> Nat] : Values(v, h) /\ v[1] = n

LEMMA OneDigit ==
    ASSUME NEW n \in Nat, n < Base
    PROVE  Encodes(<<n>>, n)
<1> DEFINE h == <<n>>
           v == [i \in 1..2 |-> IF i = 1 THEN n ELSE 0]
<1>1. n \in Byte /\ n % Base = n BY Division, BaseAssumption DEF Byte
<1>2. h \in Seq(Byte) /\ Len(h) = 1 /\ h[1] = n BY <1>1
<1>3. v \in [1..2 -> Nat] /\ v[1] = n /\ v[2] = 0 OBVIOUS
<1> HIDE DEF h, v
<1>4. Values(v, h)
  <2>1. \A i \in 1..1 : i = 1 OBVIOUS
  <2>2. 0 * Base = 0 BY BaseAssumption
  <2>3. v[1] = (h[1] % Base) + v[1 + 1] * Base BY <1>1, <1>2, <1>3, <2>2
  <2> QED BY <1>2, <1>3, <2>1, <2>3 DEF Values
<1>5. \E u \in [1..(Len(h) + 1) -> Nat] : Values(u, h) /\ u[1] = n BY <1>2, <1>3, <1>4
<1>6. \A i \in 1..(Len(h) - 1) : h[i] >= Base BY <1>2
<1>7. Encodes(h, n) BY <1>2, <1>5, <1>6 DEF Encodes
<1> QED BY <1>7 DEF h

LEMMA MoreDigits ==
    ASSUME NEW n \in Nat, n >= Base, NEW t, Encodes(t, n \div Base)
    PROVE  Encodes(<<Base + (n % Base)>> \o t, n)
<1> DEFINE d == Base + (n % Base)
           h == <<d>> \o t
<1>1. d \in Byte /\ d >= Base /\ d % Base = n % Base /\ n = (n % Base) + (n \div Base) * Base
  <2>1. n % Base \in 0..(Base - 1) /\ n = (n % Base) + (n \div Base) * Base BY Division
  <2>2. d \in Byte /\ d % Base = n % Base BY Division
  <2>3. d >= Base BY <2>1, BaseAssumption
  <2> QED BY <2>1, <2>2, <2>3
<1>2. t \in Seq(Byte) /\ Len(t) > 0 /\ t[Len(t)] < Base /\ \A i \in 1..(Len(t) - 1) : t[i] >= Base
  BY DEF Encodes
<1>3. PICK u \in [1..(Len(t) + 1) -> Nat] : Values(u, t) /\ u[1] = n \div Base BY DEF Encodes
<1> HIDE DEF d
<1>4. /\ h \in Seq(Byte) /\ Len(h) = Len(t) + 1
      /\ h[1] = d /\ \A i \in 2..(Len(t) + 1) : h[i] = t[i - 1]
  BY <1>1, <1>2
<1> DEFINE v == [i \in 1..(Len(t) + 2) |-> IF i = 1 THEN n ELSE u[i - 1]]
<1>5. /\ v \in [1..(Len(t) + 2) -> Nat] /\ v[1] = n
      /\ \A i \in 2..(Len(t) + 2) : v[i] = u[i - 1]
  BY <1>2
<1> HIDE DEF h, v
<1>6. Values(v, h)
  <2>1. v[Len(h) + 1] = 0
    <3>1. Len(h) + 1 = Len(t) + 2 /\ Len(t) + 2 \in 2..(Len(t) + 2) BY <1>2, <1>4
    <3>2. v[Len(t) + 2] = u[Len(t) + 1]
      <4>1. v[Len(t) + 2] = u[(Len(t) + 2) - 1] BY <1>5, <3>1, Zenon
      <4>2. (Len(t) + 2) - 1 = Len(t) + 1 BY <1>2
      <4> QED BY <4>1, <4>2, Zenon
    <3>3. u[Len(t) + 1] = 0 BY <1>3 DEF Values
    <3> QED BY <3>1, <3>2, <3>3
  <2>2. v[1] = (h[1] % Base) + v[1 + 1] * Base BY <1>1, <1>2, <1>3, <1>4, <1>5
  <2>3. ASSUME NEW i \in 2..Len(h) PROVE v[i] = (h[i] % Base) + v[i + 1] * Base
    <3>1. v[i] = u[i - 1] /\ v[i + 1] = u[i] /\ h[i] = t[i - 1] BY <1>2, <1>4, <1>5
    <3>2. i - 1 \in 1..Len(t) /\ (i - 1) + 1 = i BY <1>2, <1>4
    <3>3. u[i - 1] = (t[i - 1] % Base) + u[(i - 1) + 1] * Base BY <1>3, <3>2 DEF Values
    <3> QED BY <3>1, <3>2, <3>3, Zenon
  <2>4. \A i \in 1..Len(h) : i = 1 \/ i \in 2..Len(h) BY <1>4
  <2> QED BY <2>1, <2>2, <2>3, <2>4 DEF Values
<1>7. h[Len(h)] < Base /\ \A i \in 1..(Len(h) - 1) : h[i] >= Base
  <2>1. h[Len(h)] = t[Len(t)] BY <1>2, <1>4
  <2>2. ASSUME NEW i \in 1..(Len(h) - 1) PROVE h[i] >= Base
    <3>1. CASE i = 1 BY <1>1, <1>4, <3>1
    <3>2. CASE i # 1
      <4>1. h[i] = t[i - 1] /\ i - 1 \in 1..(Len(t) - 1) BY <1>2, <1>4, <3>2
      <4> QED BY <1>2, <4>1
    <3> QED BY <3>1, <3>2
  <2> QED BY <1>2, <2>1, <2>2
<1>8. Len(h) > 0 /\ Len(h) + 1 = Len(t) + 2 BY <1>2, <1>4
<1>9. \E x \in [1..(Len(h) + 1) -> Nat] : Values(x, h) /\ x[1] = n BY <1>5, <1>6, <1>8
<1>10. Encodes(h, n) BY <1>4, <1>7, <1>8, <1>9 DEF Encodes
<1> QED BY <1>10 DEF h, d

LEMMA VarintEncodes ==
    \A n \in 0..MaxPayload : Encodes(Varint[n], n)
<1> DEFINE T == {n \in Nat : n <= MaxPayload => Encodes(Varint[n], n)}
<1>1. MaxPayload \in Nat BY PayloadAssumption, BaseAssumption DEF MaxUint16
<1>2. ASSUME NEW n \in Nat, \A m \in 0..(n - 1) : m \in T PROVE n \in T
  <2> SUFFICES ASSUME n <= MaxPayload PROVE Encodes(Varint[n], n) OBVIOUS
  <2>1. Varint[n] = Digits(Varint, n) BY <1>1, VarintDef
  <2>2. CASE n < Base BY <2>1, <2>2, OneDigit DEF Digits
  <2>3. CASE n >= Base
    <3>1. n \div Base \in 0..(n - 1) BY <2>3, Division
    <3>2. n \div Base <= MaxPayload BY <1>1, <3>1
    <3>3. Encodes(Varint[n \div Base], n \div Base) BY <1>2, <3>1, <3>2
    <3>4. ~(n < Base) BY <2>3, BaseAssumption
    <3> QED BY <2>1, <2>3, <3>3, <3>4, MoreDigits DEF Digits
  <2> QED BY <2>2, <2>3, BaseAssumption
<1>3. T = Nat
  <2> HIDE DEF T
  <2>1. T \in SUBSET Nat BY DEF T
  <2> QED BY <1>2, <2>1, StrongInduction
<1> QED BY <1>1, <1>3

\* ReadUvarint gets back what was written.
LEMMA UvarintReads ==
    ASSUME NEW h, NEW n \in Nat, Encodes(h, n), stream \in Seq(Byte), Len(h) <= Len(stream),
           \A i \in 1..Len(h) : stream[i] = h[i]
    PROVE  UvarintValue(Len(h)) = n
<1> DEFINE m == Len(h)
           P(f) == f = [i \in 1..(m + 1) |->
                          IF i > m THEN 0 ELSE (stream[i] % Base) + f[i + 1] * Base]
           f == CHOOSE x : P(x)
<1>1. m \in Nat /\ m > 0 BY DEF Encodes
<1>2. PICK v \in [1..(m + 1) -> Nat] : Values(v, h) /\ v[1] = n BY DEF Encodes
<1>3. UvarintValue(m) = f[1] BY Zenon DEF UvarintValue
<1> HIDE DEF m
<1>4. v[m + 1] = 0 /\ \A i \in 1..m : v[i] = (stream[i] % Base) + v[i + 1] * Base
  BY <1>2 DEF Values, m
<1>5. P(v)
  <2>1. \A i \in 1..(m + 1) : IF i > m THEN i = m + 1 ELSE i \in 1..m BY <1>1
  <2>2. \A i \in 1..(m + 1) :
           v[i] = IF i > m THEN 0 ELSE (stream[i] % Base) + v[i + 1] * Base
    BY <1>4, <2>1, Zenon
  <2>3. v = [i \in 1..(m + 1) |-> v[i]] OBVIOUS
  <2> QED BY <2>2, <2>3, Zenon
<1>6. P(f)
  <2> HIDE DEF P
  <2> QED BY <1>5, Zenon
<1> HIDE DEF f
<1>7. f[m + 1] = 0 /\ \A i \in 1..m : f[i] = (stream[i] % Base) + f[i + 1] * Base
  <2>1. m + 1 \in 1..(m + 1) /\ m + 1 > m BY <1>1
  <2>2. \A i \in 1..m : i \in 1..(m + 1) /\ ~(i > m) BY <1>1
  <2> QED BY <1>6, <2>1, <2>2, Zenon
<1> DEFINE Same(k) == f[m + 1 - k] = v[m + 1 - k]
           T == {k \in Nat : k <= m => Same(k)}
<1>8. T = Nat
  <2>1. 0 \in T BY <1>1, <1>4, <1>7
  <2>2. ASSUME NEW k \in T PROVE k + 1 \in T
    <3> SUFFICES ASSUME k + 1 <= m PROVE f[m + 1 - (k + 1)] = v[m + 1 - (k + 1)] OBVIOUS
    <3> DEFINE i == m + 1 - (k + 1)
    <3>1. i \in 1..m /\ i + 1 = m + 1 - k BY <1>1
    <3>2. f[i + 1] = v[i + 1] BY <1>1, <3>1
    <3> HIDE DEF i
    <3>3. f[i] = v[i] BY <1>4, <1>7, <3>1, <3>2, Zenon
    <3> QED BY <3>3 DEF i
  <2> QED BY <2>1, <2>2, Induction
<1>9. Same(m)
  <2> HIDE DEF Same
  <2> QED BY <1>1, <1>8
<1>10. m + 1 - m = 1 BY <1>1
<1> QED BY <1>2, <1>3, <1>9, <1>10 DEF m

-------------------------------------------------------------------------------
(* Frames                                                                  *)

LEMMA TwoParts ==
    ASSUME NEW X, NEW a \in Seq(X), NEW b \in Seq(X)
    PROVE  /\ a \o b \in Seq(X) /\ Len(a \o b) = Len(a) + Len(b)
           /\ \A i \in 1..Len(a) : (a \o b)[i] = a[i]
           /\ \A i \in 1..Len(b) : (a \o b)[Len(a) + i] = b[i]
OBVIOUS

LEMMA ThreeParts ==
    ASSUME NEW X, NEW a \in Seq(X), NEW b \in Seq(X), NEW c \in Seq(X)
    PROVE  /\ a \o b \o c \in Seq(X) /\ Len(a \o b \o c) = Len(a) + Len(b) + Len(c)
           /\ \A i \in 1..Len(a) : (a \o b \o c)[i] = a[i]
           /\ \A i \in 1..Len(b) : (a \o b \o c)[Len(a) + i] = b[i]
           /\ \A i \in 1..Len(c) : (a \o b \o c)[Len(a) + Len(b) + i] = c[i]
<1> DEFINE d == a \o b
<1>1. /\ d \in Seq(X) /\ Len(d) = Len(a) + Len(b)
      /\ \A i \in 1..Len(a) : d[i] = a[i]
      /\ \A i \in 1..Len(b) : d[Len(a) + i] = b[i]
  BY TwoParts
<1> HIDE DEF d
<1>2. /\ d \o c \in Seq(X) /\ Len(d \o c) = Len(d) + Len(c)
      /\ \A i \in 1..Len(d) : (d \o c)[i] = d[i]
      /\ \A i \in 1..Len(c) : (d \o c)[Len(d) + i] = c[i]
  <2>1. d \in Seq(X) /\ c \in Seq(X) BY <1>1
  <2>2. d \o c \in Seq(X) /\ Len(d \o c) = Len(d) + Len(c) BY <2>1, TwoParts
  <2>3. ASSUME NEW i \in 1..Len(d) PROVE (d \o c)[i] = d[i] BY <2>1, TwoParts
  <2>4. ASSUME NEW i \in 1..Len(c) PROVE (d \o c)[Len(d) + i] = c[i] BY <2>1, TwoParts
  <2> QED BY <2>2, <2>3, <2>4
<1>3. /\ \A i \in 1..Len(a) : i \in 1..Len(d)
      /\ \A i \in 1..Len(b) : Len(a) + i \in 1..Len(d)
  BY <1>1
<1>4. \A i \in 1..Len(a) : (d \o c)[i] = a[i] BY <1>1, <1>2, <1>3
<1>5. \A i \in 1..Len(b) : (d \o c)[Len(a) + i] = b[i] BY <1>1, <1>2, <1>3
<1>6. Len(d \o c) = Len(a) + Len(b) + Len(c) BY <1>1, <1>2
<1>7. \A i \in 1..Len(c) : (d \o c)[Len(a) + Len(b) + i] = c[i] BY <1>1, <1>2
<1> QED BY <1>2, <1>4, <1>5, <1>6, <1>7 DEF d

CodecTypes ==
    /\ codec \in Codec /\ delim \in Seq(Byte)
    /\ codec = "Legacy" => delim # <<>> /\ delim \in Delims
    /\ codec # "Legacy" => delim = <<>>

\* What precedes the payload of a Uint32 or a Uvarint frame.
Header(payload) ==
    IF codec = "Uvarint" THEN Varint[Len(payload)] ELSE TwoDigits(Len(payload))

LEMMA SizesAreNat ==
    /\ Base \in Nat /\ Base > 1 /\ MaxUint16 \in Nat /\ MaxPayload \in Nat
    /\ MaxPayload <= MaxUint16 /\ Limit \in Nat /\ BufSize \in Nat /\ BufSize > 0 /\ MaxSent \in Nat
BY BaseAssumption, SizeAssumption, PayloadAssumption DEF MaxUint16

LEMMA PayloadFacts ==
    ASSUME codec \in Codec, NEW payload \in Payload
    PROVE  payload \in Seq(Byte) /\ Len(payload) \in 0..MaxPayload
<1>1. PICK n \in 0..MaxPayload : payload \in [1..n -> Alphabet[codec]] BY DEF Payload
<1>2. Alphabet[codec] \subseteq Byte BY AlphaAssumption
<1>3. payload \in [1..n -> Byte] BY <1>1, <1>2
<1> QED BY <1>3, SizesAreNat

LEMMA TwoDigitsFacts ==
    ASSUME NEW n \in 0..MaxUint16
    PROVE  /\ TwoDigits(n) \in Seq(Byte) /\ Len(TwoDigits(n)) = 2
           /\ TwoDigits(n)[1] * Base + TwoDigits(n)[2] = n
<1>1. n \in Nat /\ n < Base * Base BY SizesAreNat DEF MaxUint16
<1>2. n % Base \in 0..(Base - 1) /\ n \div Base \in Nat /\ n = (n % Base) + (n \div Base) * Base
  BY <1>1, Division
<1>3. n \div Base < Base
  <2> DEFINE q == n \div Base
             r == n % Base
  <2>1. q \in Nat /\ r \in Nat /\ r + q * Base < Base * Base BY <1>1, <1>2, SizesAreNat
  <2> HIDE DEF q, r
  <2>2. q < Base BY <2>1, SizesAreNat
  <2> QED BY <2>2 DEF q
<1>4. n % Base \in Byte /\ n \div Base \in Byte BY <1>2, <1>3, SizesAreNat DEF Byte
<1> DEFINE q == n \div Base
           r == n % Base
<1>5. q \in Byte /\ r \in Byte /\ q \in Nat /\ r \in Nat /\ n = r + q * Base
  BY <1>1, <1>2, <1>4, SizesAreNat
<1> HIDE DEF q, r
<1>6. <<q, r>> \in Seq(Byte) /\ Len(<<q, r>>) = 2 /\ <<q, r>>[1] = q /\ <<q, r>>[2] = r BY <1>5
<1>7. q * Base + r = n BY <1>5, SizesAreNat
<1>8. TwoDigits(n) = <<q, r>> BY DEF TwoDigits, q, r
<1> QED BY <1>6, <1>7, <1>8

LEMMA HeaderFacts ==
    ASSUME codec \in Codec, NEW payload \in Payload
    PROVE  Header(payload) \in Seq(Byte) /\ Len(Header(payload)) > 0
<1>1. Len(payload) \in 0..MaxPayload /\ Len(payload) \in 0..MaxUint16 BY PayloadFacts, SizesAreNat
<1>2. TwoDigits(Len(payload)) \in Seq(Byte) /\ Len(TwoDigits(Len(payload))) > 0
  BY <1>1, TwoDigitsFacts
<1>3. Varint[Len(payload)] \in Seq(Byte) /\ Len(Varint[Len(payload)]) > 0
  BY <1>1, VarintEncodes DEF Encodes
<1> QED BY <1>2, <1>3 DEF Header

LEMMA FrameFacts ==
    ASSUME CodecTypes, NEW payload \in Payload
    PROVE  /\ Frame(payload) \in Seq(Byte) /\ Len(Frame(payload)) > 0
           /\ codec # "Legacy" => /\ Frame(payload) = Header(payload) \o payload
                                  /\ Len(Frame(payload)) = Len(Header(payload)) + Len(payload)
           /\ codec = "Legacy" => /\ Frame(payload) = payload \o TwoDigits(Len(payload)) \o delim
                                  /\ Len(Frame(payload)) = Len(payload) + 2 + Len(delim)
<1>1. payload \in Seq(Byte) /\ Len(payload) \in 0..MaxUint16
  BY PayloadFacts, SizesAreNat DEF CodecTypes
<1>2. Header(payload) \in Seq(Byte) /\ Len(Header(payload)) > 0 BY HeaderFacts DEF CodecTypes
<1>3. TwoDigits(Len(payload)) \in Seq(Byte) /\ Len(TwoDigits(Len(payload))) = 2
  BY <1>1, TwoDigitsFacts
<1>4. codec # "Legacy" => Frame(payload) = Header(payload) \o payload
  BY DEF Frame, Header, CodecTypes, Codec
<1>5. codec = "Legacy" => Frame(payload) = payload \o TwoDigits(Len(payload)) \o delim
  BY DEF Frame, LegacyFrame
<1>6. delim \in Seq(Byte) BY DEF CodecTypes
<1> DEFINE a == Header(payload)
           b == TwoDigits(Len(payload))
<1> HIDE DEF a, b
<1>7. a \o payload \in Seq(Byte) /\ Len(a \o payload) = Len(a) + Len(payload) /\ Len(a) + Len(payload) > 0
  BY <1>1, <1>2 DEF a
<1>8. payload \o b \o delim \in Seq(Byte) /\ Len(payload \o b \o delim) = Len(payload) + 2 + Len(delim)
  <2>1. b \in Seq(Byte) /\ Len(b) = 2 BY <1>3 DEF b
  <2>2. Len(payload \o b \o delim) = Len(payload) + Len(b) + Len(delim)
    <3>1. payload \in Seq(Byte) /\ b \in Seq(Byte) /\ delim \in Seq(Byte) BY <1>1, <1>6, <2>1
    <3> QED BY <3>1, ThreeParts
  <2> QED BY <1>1, <1>6, <2>1, <2>2, ThreeParts
<1>9. Len(payload) + 2 + Len(delim) > 0 BY <1>1, <1>6
<1> QED BY <1>4, <1>5, <1>7, <1>8, <1>9 DEF a, b

\* Where a stream agrees with a header, exactly its end ends a header, and the value
\* is the payload's length.
LEMMA HeaderRead ==
    ASSUME codec \in Codec, codec # "Legacy", NEW payload \in Payload, stream \in Seq(Byte),
           \A i \in 1..Len(Header(payload)) : i <= Len(stream) => stream[i] = Header(payload)[i]
    PROVE  /\ \A n \in 1..Len(stream) : HeaderEnds(n) <=> n = Len(Header(payload))
           /\ Len(Header(payload)) <= Len(stream) =>
                  HeaderValue(Len(Header(payload))) = Len(payload)
<1> DEFINE h == Header(payload)
<1>1. Len(payload) \in 0..MaxPayload /\ Len(payload) \in 0..MaxUint16 BY PayloadFacts, SizesAreNat
<1>2. h \in Seq(Byte) /\ Len(h) > 0 BY HeaderFacts
<1>3. CASE codec = "Uvarint"
  <2>1. Encodes(h, Len(payload)) BY <1>1, <1>3, VarintEncodes DEF Header
  <2> HIDE DEF h
  <2>2. h[Len(h)] < Base /\ \A i \in 1..(Len(h) - 1) : h[i] >= Base BY <2>1 DEF Encodes
  <2>3. \A i \in 1..Len(h) : i <= Len(stream) => stream[i] = h[i] BY DEF h
  <2>4. ASSUME NEW n \in 1..Len(stream) PROVE HeaderEnds(n) <=> n = Len(h)
    <3>1. HeaderEnds(n) <=> stream[n] < Base /\ \A i \in 1..(n - 1) : stream[i] >= Base
      BY <1>3 DEF HeaderEnds
    <3>2. Base \in Nat /\ Len(h) \in Nat /\ Len(stream) \in Nat BY <1>2, SizesAreNat
    <3>3. CASE n < Len(h)
      <4>1. n \in 1..(Len(h) - 1) /\ n \in 1..Len(h) BY <3>2, <3>3
      <4>2. stream[n] = h[n] /\ h[n] >= Base BY <2>2, <2>3, <4>1
      <4>3. h[n] \in Nat
        <5>1. h[n] \in Byte BY <1>2, <4>1
        <5> QED BY <5>1, SizesAreNat DEF Byte
      <4>4. ~(stream[n] < Base) BY <3>2, <4>2, <4>3
      <4> QED BY <3>1, <3>2, <3>3, <4>4
    <3>4. CASE n = Len(h)
      <4>1. stream[n] = h[n] /\ \A i \in 1..(n - 1) : stream[i] = h[i] BY <2>3, <3>2, <3>4
      <4> QED BY <2>2, <3>1, <3>4, <4>1
    <3>5. CASE n > Len(h)
      <4>1. Len(h) \in 1..Len(h) /\ Len(h) <= Len(stream) /\ Len(h) \in 1..(n - 1)
        BY <1>2, <3>2, <3>5
      <4>2. stream[Len(h)] < Base BY <2>2, <2>3, <4>1
      <4>3. stream[Len(h)] \in Nat
        <5>1. stream[Len(h)] \in Byte BY <3>2, <4>1
        <5> QED BY <5>1, SizesAreNat DEF Byte
      <4>4. ~(stream[Len(h)] >= Base) BY <3>2, <4>2, <4>3
      <4> QED BY <3>1, <3>2, <3>5, <4>1, <4>4
    <3> QED BY <3>2, <3>3, <3>4, <3>5
  <2>5. ASSUME Len(h) <= Len(stream) PROVE HeaderValue(Len(h)) = Len(payload)
    <3>1. \A i \in 1..Len(h) : stream[i] = h[i] BY <1>2, <2>3, <2>5
    <3>2. UvarintValue(Len(h)) = Len(payload) BY <1>1, <2>1, <2>5, <3>1, UvarintReads
    <3> QED BY <1>3, <3>2 DEF HeaderValue
  <2> QED BY <2>4, <2>5 DEF h
<1>4. CASE codec = "Uint32"
  <2>1. h = TwoDigits(Len(payload)) BY <1>4 DEF Header
  <2>2. Len(h) = 2 /\ h[1] * Base + h[2] = Len(payload) BY <1>1, <2>1, TwoDigitsFacts
  <2>3. \A i \in 1..Len(h) : i <= Len(stream) => stream[i] = h[i] OBVIOUS
  <2> HIDE DEF h
  <2>4. \A n \in 1..Len(stream) : HeaderEnds(n) <=> n = Len(h) BY <1>4, <2>2 DEF HeaderEnds
  <2>5. ASSUME Len(h) <= Len(stream) PROVE HeaderValue(Len(h)) = Len(payload)
    <3>1. stream[1] = h[1] /\ stream[2] = h[2] BY <2>2, <2>3, <2>5
    <3>2. HeaderValue(Len(h)) = stream[1] * Base + stream[2] BY <1>4 DEF HeaderValue
    <3> QED BY <2>2, <3>1, <3>2
  <2> QED BY <2>4, <2>5 DEF h
<1> QED BY <1>3, <1>4 DEF Codec

-------------------------------------------------------------------------------
(* Types and positions                                                     *)

Types ==
    /\ CodecTypes
    /\ sent \in Seq(Payload) /\ Len(sent) <= MaxSent
    /\ open \in BOOLEAN /\ cut \in BOOLEAN
    /\ stream \in Seq(Byte) /\ buf \in Seq(Byte) /\ decoded \in Seq(Seq(Byte))
    /\ status \in {"reading", "EOF", "UnexpectedEOF", "CorruptFrame", "FrameTooLarge"}

\* What Offset means.
Positions ==
    /\ Offset(0) = 0
    /\ \A i \in 0..Len(sent) : Offset(i) \in Nat
    /\ \A i \in 1..Len(sent) : Offset(i) = Offset(i - 1) + Len(Frame(sent[i]))
    /\ \A i, j \in 0..Len(sent) : i < j => Offset(i) < Offset(j)

SentTypes ==
    \A i \in 1..Len(sent) :
        sent[i] \in Payload /\ Frame(sent[i]) \in Seq(Byte) /\ Len(Frame(sent[i])) > 0

LEMMA HeaderTypes ==
    ASSUME Types, NEW payload \in Payload
    PROVE  Header(payload) \in Seq(Byte) /\ Len(Header(payload)) \in Nat /\ Len(Header(payload)) > 0
<1>1. codec \in Codec BY DEF Types, CodecTypes
<1>2. Header(payload) \in Seq(Byte) /\ Len(Header(payload)) > 0 BY <1>1, HeaderFacts
<1> QED BY <1>2

LEMMA FramesAreBytes == Types => SentTypes
<1> SUFFICES ASSUME Types, NEW i \in 1..Len(sent)
             PROVE  sent[i] \in Payload /\ Frame(sent[i]) \in Seq(Byte) /\ Len(Frame(sent[i])) > 0
  BY DEF SentTypes
<1>1. sent \in Seq(Payload) /\ CodecTypes BY DEF Types
<1>2. sent[i] \in Payload BY <1>1
<1> QED BY <1>1, <1>2, FrameFacts

LEMMA PositionsHold == Types => Positions
<1> SUFFICES ASSUME Types PROVE Positions OBVIOUS
<1> DEFINE n == Len(sent)
           w == [k \in DOMAIN sent |-> Len(Frame(sent[k]))]
<1>1. sent \in Seq(Payload) BY DEF Types
<1>2. n \in Nat /\ DOMAIN sent = 1..n BY <1>1
<1>3. \A k \in 1..n : Frame(sent[k]) \in Seq(Byte) /\ Len(Frame(sent[k])) > 0
  BY FramesAreBytes DEF SentTypes
<1>4. \A k \in 1..n : Len(Frame(sent[k])) \in Nat /\ Len(Frame(sent[k])) > 0
  <2> HIDE DEF n
  <2> QED BY <1>3
<1>5. w \in [1..n -> Nat] /\ \A k \in 1..n : w[k] > 0 /\ w[k] = Len(Frame(sent[k]))
  BY <1>2, <1>4
<1>6. \A i : Offset(i) = Total(w, i) BY DEF Offset
<1> HIDE DEF n, w
<1>7. /\ Total(w, 0) = 0
      /\ \A i \in 0..n : Total(w, i) \in Nat
      /\ \A i \in 1..n : Total(w, i) = Total(w, i - 1) + w[i]
  BY <1>2, <1>5, Totals
<1>8. \A i, j \in 0..n : i < j => Total(w, i) < Total(w, j) BY <1>2, <1>5, TotalRises
<1> QED BY <1>5, <1>6, <1>7, <1>8 DEF Positions, n

\* A step that keeps a payload keeps the end of its frame.
LEMMA PositionsStay ==
    ASSUME Types, Types', codec' = codec, delim' = delim,
           NEW m \in Nat, m <= Len(sent), m <= Len(sent'), \A k \in 1..m : sent'[k] = sent[k]
    PROVE  \A i \in 0..m : Offset(i)' = Offset(i)
<1> DEFINE n == Len(sent)
           w == [k \in DOMAIN sent |-> Len(Frame(sent[k]))]
<1>1. sent \in Seq(Payload) BY DEF Types
<1>2. n \in Nat /\ DOMAIN sent = 1..n BY <1>1
<1>3. \A k \in 1..n : Frame(sent[k]) \in Seq(Byte) BY FramesAreBytes DEF SentTypes
<1>4. \A k \in 1..n : Len(Frame(sent[k])) \in Nat
  <2> HIDE DEF n
  <2> QED BY <1>3
<1>5. w \in [1..n -> Nat] /\ \A k \in 1..n : w[k] = Len(Frame(sent[k])) BY <1>2, <1>4
<1>6. sent' \in Seq(Payload') /\ n' \in Nat /\ DOMAIN sent' = 1..(n') BY DEF Types
<1>7. SentTypes' BY FramesAreBytes, PTL
<1>8. \A k \in 1..(n') : Frame(sent[k])' \in Seq(Byte) BY <1>7 DEF SentTypes
<1>9. \A k \in 1..(n') : Len(Frame(sent[k])') \in Nat
  <2> HIDE DEF n
  <2> QED BY <1>8
<1>10. w' \in [1..(n') -> Nat] /\ \A k \in 1..(n') : w'[k] = Len(Frame(sent[k])')
  BY <1>6, <1>9
<1>11. \A k \in 1..m : Frame(sent[k])' = Frame(sent[k]) BY DEF Frame, LegacyFrame
<1>12. \A k \in 1..m : w'[k] = w[k]
  <2>1. \A k \in 1..m : k \in 1..n /\ k \in 1..(n') BY <1>2, <1>6
  <2> HIDE DEF w
  <2> QED BY <1>5, <1>10, <1>11, <2>1
<1>13. \A i : Offset(i) = Total(w, i) /\ Offset(i)' = Total(w', i) BY DEF Offset
<1> HIDE DEF n, w
<1>14. ASSUME NEW i \in 0..m PROVE Total(w', i) = Total(w, i)
  <2>1. i \in Nat /\ i <= n /\ i <= n' /\ \A k \in 1..i : w'[k] = w[k]
    BY <1>2, <1>6, <1>12 DEF n
  <2>2. PICK N \in Nat : N = n BY <1>2
  <2>3. PICK M \in Nat : M = n' BY <1>6
  <2>4. PICK v \in [1..N -> Nat] : v = w BY <1>5, <2>2
  <2>5. PICK v1 \in [1..M -> Nat] : v1 = w' BY <1>10, <2>3
  <2>6. i <= N /\ i <= M /\ \A k \in 1..i : v1[k] = v[k] BY <2>1, <2>2, <2>3, <2>4, <2>5
  <2>7. /\ N \in Nat /\ M \in Nat /\ i \in Nat
        /\ v \in [1..N -> Nat] /\ v1 \in [1..M -> Nat]
    BY <2>1
  <2>8. Total(v1, i) = Total(v, i) BY ONLY <2>6, <2>7, TotalOfSome
  <2> QED BY <2>4, <2>5, <2>8
<1> QED BY <1>13, <1>14

-------------------------------------------------------------------------------
(* The stream                                                              *)

LEMMA Cutting ==
    ASSUME NEW X, NEW s \in Seq(X), NEW n \in 0..Len(s)
    PROVE  /\ First(s, n) \in Seq(X) /\ Len(First(s, n)) = n
           /\ \A i \in 1..n : First(s, n)[i] = s[i]
           /\ After(s, n) \in Seq(X) /\ Len(After(s, n)) = Len(s) - n
           /\ \A i \in 1..(Len(s) - n) : After(s, n)[i] = s[n + i]
BY DEF First, After

\* bytes are what the frames have at positions from + 1, from + 2, ... of all that was
\* written.
Carries(bytes, from) ==
    \A j \in 1..Len(sent) : \A p \in 1..Len(Frame(sent[j])) :
        LET q == Offset(j - 1) + p - from IN
        q \in 1..Len(bytes) => bytes[q] = Frame(sent[j])[p]

\* The decoder has read r bytes: what is under way follows, up to the end of the last
\* frame or, if the stream was cut, to a place within it.
Wire(r) ==
    /\ r + Len(stream) <= Offset(Len(sent))
    /\ cut <=> r + Len(stream) # Offset(Len(sent))
    /\ open => ~cut
    /\ ~open /\ Len(sent) > 0 => Offset(Len(sent) - 1) < r + Len(stream)
    /\ Carries(stream, r)

LEMMA WireRead ==
    ASSUME Types, NEW r \in Nat, Wire(r), NEW n \in 0..Len(stream), stream' = After(stream, n),
           UNCHANGED <<codec, delim, sent, open, cut>>
    PROVE  Wire(r + n)' /\ stream' \in Seq(Byte)
<1>1. stream \in Seq(Byte) BY DEF Types
<1>2. /\ stream' \in Seq(Byte) /\ Len(stream') = Len(stream) - n
      /\ \A i \in 1..(Len(stream) - n) : stream'[i] = stream[n + i]
  BY <1>1, Cutting
<1>3. Positions BY PositionsHold
<1>4. \A i : Offset(i)' = Offset(i) BY DEF Offset, Frame, LegacyFrame
<1>5. \A k : Frame(sent[k])' = Frame(sent[k]) BY DEF Frame, LegacyFrame
<1>6. ASSUME NEW j \in 1..Len(sent), NEW p \in 1..Len(Frame(sent[j])),
             Offset(j - 1) + p - (r + n) \in 1..Len(stream')
      PROVE  stream'[Offset(j - 1) + p - (r + n)] = Frame(sent[j])[p]
  <2> DEFINE q == Offset(j - 1) + p - r
  <2>1. Len(sent) \in Nat /\ Len(stream) \in Nat BY DEF Types
  <2>2. Offset(j - 1) \in Nat /\ p \in Nat
    <3>1. j - 1 \in 0..Len(sent) BY <2>1
    <3>2. Frame(sent[j]) \in Seq(Byte) BY FramesAreBytes DEF SentTypes
    <3> QED BY <1>3, <3>1, <3>2 DEF Positions
  <2>3. q \in 1..Len(stream) /\ q - n \in 1..(Len(stream) - n) /\ n + (q - n) = q
        /\ Offset(j - 1) + p - (r + n) = q - n
    <3> DEFINE o == Offset(j - 1)
               L == Len(stream)
               M == Len(stream')
               z == o + p - (r + n)
    <3>1. M = L - n /\ z \in 1..M /\ q = o + p - r BY <1>2, <1>6
    <3>2. L \in Nat /\ o \in Nat /\ p \in Nat /\ r \in Nat /\ n \in 0..L BY <2>1, <2>2
    <3> HIDE DEF q, o, L, M
    <3>3. q \in 1..L /\ q - n \in 1..(L - n) /\ n + (q - n) = q /\ z = q - n BY <3>1, <3>2
    <3> QED BY <3>3 DEF o, L
  <2>4. stream[q] = Frame(sent[j])[p] BY <2>3 DEF Wire, Carries
  <2> HIDE DEF q
  <2>5. stream'[q - n] = stream[q] BY <1>2, <2>3
  <2> QED BY <2>3, <2>4, <2>5
<1>7. Carries(stream, r + n)' BY <1>4, <1>5, <1>6 DEF Carries
<1>8. r + n + Len(stream') = r + Len(stream) /\ (r + n)' = r + n BY <1>1, <1>2
<1> QED BY <1>2, <1>4, <1>7, <1>8 DEF Wire

LEMMA WriteTypes ==
    ASSUME Types, NEW payload \in Payload, Write(payload)
    PROVE  Types' /\ Payload' = Payload /\ sent' = Append(sent, payload)
<1>1. Frame(payload) \in Seq(Byte) BY FrameFacts DEF Types
<1>2. Payload' = Payload BY DEF Write, Payload
<1>3. stream \in Seq(Byte) /\ sent \in Seq(Payload) BY DEF Types
<1>4. stream' = stream \o Frame(payload) /\ sent' = Append(sent, payload) BY DEF Write
<1>5. stream' \in Seq(Byte) BY <1>1, <1>3, <1>4, TwoParts
<1>6. sent' \in Seq(Payload) /\ Len(sent') <= MaxSent BY <1>3, <1>4, SizesAreNat DEF Write
<1>7. CodecTypes' BY DEF Types, CodecTypes, Write
<1> QED BY <1>2, <1>4, <1>5, <1>6, <1>7 DEF Types, Write

LEMMA WireWrite ==
    ASSUME Types, NEW r \in Nat, Wire(r), NEW payload \in Payload, Write(payload)
    PROVE  Wire(r)' /\ \A i \in 0..Len(sent) : Offset(i)' = Offset(i)
<1>0. PICK n \in Nat : n = Len(sent) BY DEF Types
<1>1. stream \in Seq(Byte) /\ sent \in Seq(Payload) /\ codec' = codec /\ delim' = delim
  BY DEF Types, Write
<1>2. Types' /\ Payload' = Payload /\ sent' = Append(sent, payload) BY WriteTypes
<1>3. Frame(payload) \in Seq(Byte) BY FrameFacts DEF Types
<1>4. /\ Len(stream') = Len(stream) + Len(Frame(payload))
      /\ \A i \in 1..Len(stream) : stream'[i] = stream[i]
      /\ \A i \in 1..Len(Frame(payload)) : stream'[Len(stream) + i] = Frame(payload)[i]
  BY <1>1, <1>3, TwoParts DEF Write
<1>5. /\ n \in Nat /\ Len(sent') = n + 1 /\ sent'[n + 1] = payload
      /\ \A k \in 1..n : sent'[k] = sent[k]
  BY <1>0, <1>1, <1>2
<1>6. \A i \in 0..n : Offset(i)' = Offset(i)
  <2>1. n <= Len(sent) /\ n <= Len(sent') BY <1>0, <1>5
  <2> QED BY <1>1, <1>2, <1>5, <2>1, PositionsStay
<1>7. Positions /\ Positions' BY <1>2, PositionsHold, PTL
<1>8. /\ \A k \in 1..n : Frame(sent[k])' = Frame(sent[k])
      /\ Frame(sent[n + 1])' = Frame(payload)
  BY <1>1, <1>5 DEF Frame, LegacyFrame
<1>9. Offset(n + 1)' = Offset(n) + Len(Frame(payload))
  <2>1. n + 1 \in 1..Len(sent') /\ (n + 1) - 1 = n BY <1>5
  <2>2. \A i \in 1..Len(sent') : Offset(i)' = Offset(i - 1)' + Len(Frame(sent[i])')
    BY <1>0, <1>7 DEF Positions
  <2>3. Offset(n + 1)' = Offset((n + 1) - 1)' + Len(Frame(sent[n + 1])') BY <2>1, <2>2
  <2>4. Offset(n)' = Offset(n) BY <1>5, <1>6
  <2> QED BY <1>8, <2>1, <2>3, <2>4
<1>10. Offset(n) = r + Len(stream) /\ ~cut /\ cut' = cut /\ open /\ open' = open
  BY <1>0 DEF Wire, Write
<1>11. \A k \in 0..n : Offset(k) \in Nat BY <1>0, <1>7 DEF Positions
<1>12. Len(stream) \in Nat /\ Len(Frame(payload)) \in Nat BY <1>1, <1>3
<1>13. ASSUME NEW j \in 1..(n + 1), NEW p \in 1..Len(Frame(sent[j])'),
             Offset(j - 1)' + p - r \in 1..Len(stream')
      PROVE  stream'[Offset(j - 1)' + p - r] = (Frame(sent[j])')[p]
  <2>1. CASE j \in 1..n
    <3> DEFINE q == Offset(j - 1) + p - r
    <3>1. j - 1 \in 0..n /\ Offset(j - 1)' = Offset(j - 1) BY <1>5, <1>6, <2>1
    <3>2. Frame(sent[j])' = Frame(sent[j]) /\ Frame(sent[j]) \in Seq(Byte)
      BY <1>0, <1>8, <2>1, FramesAreBytes DEF SentTypes
    <3>3. Offset(j) = Offset(j - 1) + Len(Frame(sent[j])) /\ Offset(j) <= Offset(n)
      <4>1. Offset(j) = Offset(j - 1) + Len(Frame(sent[j])) BY <1>0, <1>7, <2>1 DEF Positions
      <4>2. j < n => Offset(j) < Offset(n) BY <1>0, <1>5, <1>7, <2>1 DEF Positions
      <4>3. j \in 0..n /\ n \in 0..n /\ (j < n \/ j = n) BY <1>5, <2>1
      <4>4. Offset(j) \in Nat /\ Offset(n) \in Nat BY <1>11, <4>3
      <4>5. Offset(j) <= Offset(n) BY <4>2, <4>3, <4>4
      <4> QED BY <4>1, <4>5
    <3>4. Offset(j - 1) \in Nat /\ p \in Nat /\ p <= Len(Frame(sent[j])) BY <1>11, <3>1, <3>2
    <3>5. Len(Frame(sent[j])) \in Nat BY <3>2
    <3>6. q \in 1..Len(stream) BY <1>10, <1>12, <1>13, <3>1, <3>3, <3>4, <3>5
    <3>7. p \in 1..Len(Frame(sent[j])) /\ j \in 1..Len(sent) BY <1>0, <2>1, <3>2
    <3>8. stream[q] = Frame(sent[j])[p] BY <3>6, <3>7 DEF Wire, Carries
    <3>9. stream'[q] = stream[q] BY <1>4, <3>6
    <3> QED BY <3>1, <3>2, <3>8, <3>9
  <2>2. CASE j = n + 1
    <3>1. j - 1 = n /\ Offset(j - 1)' = Offset(n) BY <1>5, <1>6, <2>2
    <3>2. Frame(sent[j])' = Frame(payload) /\ p \in 1..Len(Frame(payload)) BY <1>8, <2>2
    <3>3. Offset(n) + p - r = Len(stream) + p BY <1>10, <1>12, <3>2
    <3>4. stream'[Len(stream) + p] = Frame(payload)[p] BY <1>4, <3>2
    <3> QED BY <3>1, <3>2, <3>3, <3>4
  <2> QED BY <1>5, <2>1, <2>2
<1>14. Carries(stream, r)' BY <1>5, <1>13 DEF Carries
<1>15. Offset(Len(sent))' = r + Len(stream')
  <2>1. Offset(Len(sent))' = Offset(n + 1)' BY <1>5 DEF Offset
  <2> QED BY <1>4, <1>9, <1>10, <1>12, <2>1
<1>16. r + Len(stream') \in Nat BY <1>4, <1>12
<1> QED BY <1>6, <1>10, <1>14, <1>0, <1>15, <1>16 DEF Wire

\* What is left after the stream has been closed, in the middle of a frame or not.
LEMMA WireClose ==
    ASSUME Types, NEW r \in Nat, Wire(r), CloseStream
    PROVE  /\ Types' /\ Wire(r)'
           /\ \E m \in 0..Len(sent) :
                /\ sent' = First(sent, m) /\ Len(sent') = m /\ r <= Offset(m)
                /\ \A k \in 1..m : sent'[k] = sent[k] /\ Frame(sent[k])' = Frame(sent[k])
                /\ \A k \in 0..m : Offset(k)' = Offset(k)
<1>1. stream \in Seq(Byte) /\ sent \in Seq(Payload) /\ codec' = codec /\ delim' = delim
  BY DEF Types, CloseStream
<1>2. Positions BY PositionsHold
<1>3. Offset(Len(sent)) = r + Len(stream) BY DEF Wire, CloseStream
<1>4. PICK n \in 0..Len(stream), m \in 0..Len(sent) :
        LET through == Offset(Len(sent)) - Len(stream) + n IN
          /\ Offset(m) >= through /\ \A j \in 0..(m - 1) : Offset(j) < through
          /\ stream' = First(stream, n)
          /\ sent' = First(sent, m)
          /\ cut' = (Offset(m) # through)
  BY Zenon DEF CloseStream
<1>5. Offset(Len(sent)) - Len(stream) + n = r + n BY <1>1, <1>3
<1>6. /\ Offset(m) >= r + n /\ \A j \in 0..(m - 1) : Offset(j) < r + n
      /\ stream' = First(stream, n) /\ sent' = First(sent, m)
      /\ cut' = (Offset(m) # r + n)
  BY <1>4, <1>5
<1>7. /\ stream' \in Seq(Byte) /\ Len(stream') = n
      /\ \A i \in 1..n : stream'[i] = stream[i]
  BY <1>1, <1>6, Cutting
<1>8. /\ sent' \in Seq(Payload) /\ Len(sent') = m /\ m \in Nat /\ m <= Len(sent)
      /\ \A k \in 1..m : sent'[k] = sent[k]
  <2>1. m \in 0..Len(sent) /\ sent \in Seq(Payload) BY <1>1
  <2>2. First(sent, m) \in Seq(Payload) /\ Len(First(sent, m)) = m
        /\ \A i \in 1..m : First(sent, m)[i] = sent[i]
    BY <2>1, Cutting
  <2> QED BY <1>6, <2>1, <2>2
<1>9. Types'
  <2>1. Payload' = Payload /\ CodecTypes' BY <1>1 DEF Payload, Types, CodecTypes
  <2>2. cut' \in BOOLEAN /\ open' \in BOOLEAN BY <1>6 DEF CloseStream
  <2>3. Len(sent') <= MaxSent BY <1>8, SizesAreNat DEF Types
  <2> QED BY <1>7, <1>8, <2>1, <2>2, <2>3 DEF Types, CloseStream
<1>10. \A k \in 0..m : Offset(k)' = Offset(k)
  <2>1. m <= Len(sent) /\ m <= Len(sent') BY <1>8
  <2> QED BY <1>1, <1>8, <1>9, <2>1, PositionsStay
<1>11. \A k \in 1..m : Frame(sent[k])' = Frame(sent[k]) BY <1>1, <1>8 DEF Frame, LegacyFrame
<1>12. \A k \in 0..m : Offset(k) \in Nat
  <2>1. \A k \in 0..m : k \in 0..Len(sent) BY <1>8
  <2> QED BY <1>2, <2>1 DEF Positions
<1>13. n \in Nat /\ n <= Len(stream) BY <1>1
<1>14. r <= Offset(m)
  <2>1. Offset(m) \in Nat BY <1>8, <1>12
  <2> QED BY <1>6, <1>13, <2>1
<1>15. Carries(stream, r)'
  <2>1. ASSUME NEW j \in 1..m, NEW p \in 1..Len(Frame(sent[j])),
               Offset(j - 1) + p - r \in 1..n
        PROVE  stream'[Offset(j - 1) + p - r] = Frame(sent[j])[p]
    <3> DEFINE q == Offset(j - 1) + p - r
    <3>1. q \in 1..n /\ q \in 1..Len(stream) BY <1>13, <2>1
    <3> HIDE DEF q
    <3>2. j \in 1..Len(sent) BY <1>8
    <3>3. stream[q] = Frame(sent[j])[p] BY <3>1, <3>2 DEF Wire, Carries, q
    <3>4. stream'[q] = stream[q] BY <1>7, <3>1
    <3> QED BY <3>3, <3>4 DEF q
  <2>2. \A j \in 1..m : Offset(j - 1)' = Offset(j - 1)
    <3>1. \A j \in 1..m : j - 1 \in 0..m BY <1>8
    <3> QED BY <1>10, <3>1
  <2> QED BY <1>7, <1>8, <1>11, <2>1, <2>2 DEF Carries
<1>16. Offset(Len(sent))' = Offset(m) /\ (m > 0 => Offset(Len(sent) - 1)' = Offset(m - 1))
  <2>1. Offset(Len(sent))' = Offset(m)' /\ Offset(Len(sent) - 1)' = Offset(m - 1)'
    BY <1>8 DEF Offset
  <2>2. m \in 0..m /\ (m > 0 => m - 1 \in 0..m) BY <1>8
  <2> QED BY <1>10, <2>1, <2>2
<1>17. m > 0 => Offset(m - 1) < r + n
  <2>1. m > 0 => m - 1 \in 0..(m - 1) BY <1>8
  <2> QED BY <1>6, <2>1
<1>18. Wire(r)'
  <2>1. r + Len(stream') <= Offset(Len(sent))'
    <3>1. Offset(m) \in Nat /\ r + n \in Nat BY <1>8, <1>12, <1>13
    <3> QED BY <1>6, <1>7, <1>16, <3>1
  <2>2. cut' <=> r + Len(stream') # Offset(Len(sent))' BY <1>6, <1>7, <1>16
  <2>3. ~open' BY DEF CloseStream
  <2>4. Len(sent') > 0 => Offset(Len(sent) - 1)' < r + Len(stream') BY <1>7, <1>8, <1>16, <1>17
  <2> QED BY <1>15, <2>1, <2>2, <2>3, <2>4 DEF Wire
<1>19. m \in 0..Len(sent) BY <1>4
<1> QED BY <1>6, <1>8, <1>9, <1>10, <1>11, <1>14, <1>18, <1>19

\* The x-th byte of frame k + 1 has been read last: its next ones are at the front of the
\* stream, all of them if the stream was not cut.
LEMMA Ahead ==
    ASSUME Types, NEW k \in Nat, k < Len(sent), NEW x \in Nat, Wire(Offset(k) + x)
    PROVE  /\ \A i \in 1..Len(stream) : x + i <= Len(Frame(sent[k + 1])) =>
                 stream[i] = Frame(sent[k + 1])[x + i]
           /\ ~cut => x + Len(stream) >= Len(Frame(sent[k + 1]))
           /\ Offset(k + 1) = Offset(k) + Len(Frame(sent[k + 1]))
           /\ Offset(k) \in Nat /\ Len(Frame(sent[k + 1])) \in Nat
<1>1. Len(sent) \in Nat /\ Len(stream) \in Nat BY DEF Types
<1>2. Positions BY PositionsHold
<1>3. k + 1 \in 1..Len(sent) /\ (k + 1) - 1 = k /\ k \in 0..Len(sent) BY <1>1
<1>4. Offset(k) \in Nat BY <1>2, <1>3 DEF Positions
<1>5. Frame(sent[k + 1]) \in Seq(Byte) BY <1>3, FramesAreBytes DEF SentTypes
<1>6. Len(Frame(sent[k + 1])) \in Nat BY <1>5
<1>7. Offset(k + 1) = Offset(k) + Len(Frame(sent[k + 1])) BY <1>2, <1>3 DEF Positions
<1>8. ASSUME NEW i \in 1..Len(stream), x + i <= Len(Frame(sent[k + 1]))
      PROVE  stream[i] = Frame(sent[k + 1])[x + i]
  <2>1. x + i \in 1..Len(Frame(sent[k + 1])) BY <1>6, <1>8
  <2>2. Offset(k) + (x + i) - (Offset(k) + x) = i BY <1>1, <1>4
  <2>3. Offset((k + 1) - 1) = Offset(k) BY <1>3
  <2>4. Carries(stream, Offset(k) + x) BY DEF Wire
  <2>5. LET q == Offset((k + 1) - 1) + (x + i) - (Offset(k) + x) IN
        q \in 1..Len(stream) => stream[q] = Frame(sent[k + 1])[x + i]
    BY <1>3, <2>1, <2>4, Zenon DEF Carries
  <2> QED BY <1>8, <2>2, <2>3, <2>5
<1>9. ASSUME ~cut PROVE x + Len(stream) >= Len(Frame(sent[k + 1]))
  <2>1. Offset(k) + x + Len(stream) = Offset(Len(sent)) BY <1>9 DEF Wire
  <2>2. Offset(k + 1) <= Offset(Len(sent)) /\ Offset(Len(sent)) \in Nat
    <3>1. k + 1 \in 0..Len(sent) /\ Len(sent) \in 0..Len(sent) /\ (k + 1 < Len(sent) \/ k + 1 = Len(sent))
      BY <1>1, <1>3
    <3>2. Offset(k + 1) \in Nat /\ Offset(Len(sent)) \in Nat BY <1>2, <3>1 DEF Positions
    <3>3. k + 1 < Len(sent) => Offset(k + 1) < Offset(Len(sent)) BY <1>2, <3>1 DEF Positions
    <3> QED BY <3>1, <3>2, <3>3
  <2> QED BY <1>1, <1>4, <1>6, <1>7, <2>1, <2>2
<1> QED BY <1>4, <1>6, <1>7, <1>8, <1>9

-------------------------------------------------------------------------------
(* Uint32 and Uvarint                                                      *)

\* The decoder has returned the first payloads and stands at the end of their frames
\* or behind the header of the next.
Headed(r) ==
    codec # "Legacy" =>
        LET k == Len(decoded) IN
        /\ buf = <<>>
        /\ k <= Len(sent) /\ \A i \in 1..k : decoded[i] = sent[i] /\ Len(decoded[i]) <= Limit
        /\ status # "CorruptFrame"
        /\ status = "EOF" => ~open /\ ~cut /\ k = Len(sent)
        /\ status = "UnexpectedEOF" => ~open /\ cut
        /\ need = None /\ status # "FrameTooLarge" => r = Offset(k)
        /\ need # None \/ status = "FrameTooLarge" =>
               k < Len(sent) /\ r = Offset(k) + Len(Header(sent[k + 1]))
        /\ status = "FrameTooLarge" => need = None /\ Len(sent[k + 1]) > Limit
        /\ need # None => need = Len(sent[k + 1]) /\ need <= Limit

LEMMA HeadedWrite ==
    ASSUME Types, NEW r \in Nat, Wire(r), Headed(r), NEW payload \in Payload, Write(payload)
    PROVE  Headed(r)'
<1> SUFFICES ASSUME codec # "Legacy" PROVE Headed(r)' BY DEF Headed, Write
<1>1. sent' = Append(sent, payload) /\ sent \in Seq(Payload) BY DEF Types, Write
<1>2. /\ Len(sent) \in Nat /\ Len(sent') = Len(sent) + 1
      /\ \A k \in 1..Len(sent) : sent'[k] = sent[k]
  BY <1>1, WriteTypes
<1>3. \A i \in 0..Len(sent) : Offset(i)' = Offset(i) BY WireWrite
<1>4. PICK k \in Nat : k = Len(decoded) BY DEF Types
<1>5. /\ codec' = codec /\ buf' = buf /\ decoded' = decoded /\ need' = need /\ open /\ open' = open
      /\ cut' = cut /\ status' = status
  BY DEF Write
<1>6. k <= Len(sent) /\ k \in 0..Len(sent) BY <1>2, <1>4 DEF Headed
<1>7. Offset(k)' = Offset(k) BY <1>3, <1>6
<1>8. k < Len(sent) => sent'[k + 1] = sent[k + 1] /\ Header(sent[k + 1])' = Header(sent[k + 1])
  BY <1>2, <1>4, <1>5 DEF Header
<1>9. \A i \in 1..k : decoded'[i] = sent'[i] BY <1>2, <1>4, <1>5, <1>6 DEF Headed
<1>10. k <= Len(sent') /\ (k < Len(sent) => k < Len(sent')) BY <1>2, <1>6
<1>11. Offset(Len(decoded))' = Offset(k)' BY <1>4, <1>5 DEF Offset
<1> QED BY <1>4, <1>5, <1>7, <1>8, <1>9, <1>10, <1>11 DEF Headed

LEMMA HeadedClose ==
    ASSUME Types, NEW r \in Nat, Wire(r), Headed(r), CloseStream
    PROVE  Headed(r)'
<1> SUFFICES ASSUME codec # "Legacy" PROVE Headed(r)' BY DEF Headed, CloseStream
<1>1. PICK m \in 0..Len(sent) :
        /\ sent' = First(sent, m) /\ Len(sent') = m /\ r <= Offset(m)
        /\ \A k \in 1..m : sent'[k] = sent[k] /\ Frame(sent[k])' = Frame(sent[k])
        /\ \A k \in 0..m : Offset(k)' = Offset(k)
  BY WireClose
<1>2. PICK k \in Nat : k = Len(decoded) BY DEF Types
<1>3. /\ codec' = codec /\ buf' = buf /\ decoded' = decoded /\ need' = need /\ open
      /\ status' = status
  BY DEF CloseStream
<1>4. Len(sent) \in Nat /\ m \in Nat /\ m <= Len(sent) BY DEF Types
<1>5. k <= Len(sent) /\ k \in 0..Len(sent) BY <1>2, <1>4 DEF Headed
<1>6. Positions BY PositionsHold
<1>7. Offset(k) \in Nat /\ Offset(m) \in Nat /\ (m < k => Offset(m) < Offset(k))
  BY <1>4, <1>5, <1>6 DEF Positions
<1>8. CASE need = None /\ status # "FrameTooLarge"
  <2>1. r = Offset(k) BY <1>2, <1>8 DEF Headed
  <2>2. k <= m BY <1>1, <1>4, <1>7, <2>1
  <2>3. Offset(k)' = Offset(k) BY <1>1, <1>4, <2>2
  <2>4. Offset(Len(decoded))' = Offset(k)' BY <1>2, <1>3 DEF Offset
  <2>5. \A i \in 1..k : decoded'[i] = sent'[i] BY <1>1, <1>2, <1>3, <1>4, <2>2 DEF Headed
  <2> QED BY <1>1, <1>2, <1>3, <1>8, <2>1, <2>2, <2>3, <2>4, <2>5 DEF Headed
<1>9. CASE need # None \/ status = "FrameTooLarge"
  <2>1. k < Len(sent) /\ r = Offset(k) + Len(Header(sent[k + 1])) BY <1>2, <1>9 DEF Headed
  <2>2. sent[k + 1] \in Payload BY <1>4, <2>1, FramesAreBytes DEF SentTypes
  <2>3. Header(sent[k + 1]) \in Seq(Byte) /\ Len(Header(sent[k + 1])) > 0
    BY <2>2, HeaderTypes
  <2>4. Len(Header(sent[k + 1])) \in Nat /\ Len(Header(sent[k + 1])) > 0 BY <2>3
  <2>5. k < m
    <3>1. CASE k > m BY <1>1, <1>4, <1>7, <2>1, <2>4, <3>1
    <3>2. CASE k = m BY <1>1, <1>4, <1>7, <2>1, <2>4, <3>2
    <3> QED BY <1>4, <3>1, <3>2
  <2>6. Offset(k)' = Offset(k) /\ sent'[k + 1] = sent[k + 1] BY <1>1, <1>4, <2>5
  <2>7. Header(sent[k + 1])' = Header(sent[k + 1]) BY <1>3, <2>6 DEF Header
  <2>8. Offset(Len(decoded))' = Offset(k)' BY <1>2, <1>3 DEF Offset
  <2>9. \A i \in 1..k : decoded'[i] = sent'[i] BY <1>1, <1>2, <1>3, <1>4, <2>5 DEF Headed
  <2> QED BY <1>1, <1>2, <1>3, <1>4, <1>9, <2>1, <2>5, <2>6, <2>7, <2>8, <2>9 DEF Headed
<1> QED BY <1>8, <1>9

LEMMA HeadedReadHeader ==
    ASSUME Types, NEW r \in Nat, Wire(r), Headed(r), ReadHeader
    PROVE  Types' /\ \E x \in Nat : Wire(x)' /\ Headed(x)'
<1>1. /\ codec # "Legacy" /\ status = "reading" /\ need = None
      /\ codec' = codec /\ delim' = delim /\ sent' = sent /\ open' = open /\ cut' = cut
      /\ buf' = buf /\ decoded' = decoded
  BY DEF ReadHeader
<1>2. PICK n \in 1..Len(stream) :
          /\ HeaderEnds(n)
          /\ stream' = After(stream, n)
          /\ LET length == HeaderValue(n) IN
             IF length > Limit
             THEN status' = "FrameTooLarge" /\ UNCHANGED need
             ELSE need' = length /\ UNCHANGED status
  BY Zenon DEF ReadHeader
<1>3. PICK k \in Nat : k = Len(decoded) BY DEF Types
<1>4. /\ Len(sent) \in Nat /\ stream \in Seq(Byte) /\ Len(stream) \in Nat
      /\ n \in Nat /\ n > 0 /\ n <= Len(stream)
  BY DEF Types
<1>5. k <= Len(sent) /\ r = Offset(k) /\ \A i \in 1..k : decoded[i] = sent[i]
  BY <1>1, <1>3 DEF Headed
<1>6. k < Len(sent)
  <2> SUFFICES ASSUME k = Len(sent) PROVE FALSE BY <1>3, <1>4, <1>5
  <2>1. r + Len(stream) <= r BY <1>5 DEF Wire
  <2> QED BY <1>4, <2>1
<1> DEFINE p == sent[k + 1]
           h == Header(p)
<1>7. p \in Payload BY <1>4, <1>6, FramesAreBytes DEF SentTypes
<1>8. Offset(k) \in Nat BY <1>4, <1>6, PositionsHold DEF Positions
<1>9. \A i \in 1..Len(stream) : i <= Len(Frame(p)) => stream[i] = Frame(p)[i]
  <2>1. Wire(Offset(k) + 0) BY <1>5, <1>8
  <2>2. \A i \in 1..Len(stream) : 0 + i <= Len(Frame(p)) => stream[i] = Frame(p)[0 + i]
    BY <1>6, <2>1, Ahead
  <2>3. \A i \in 1..Len(stream) : 0 + i = i BY <1>4
  <2> QED BY <2>2, <2>3
<1>10. p \in Seq(Byte) /\ Len(p) \in Nat BY <1>7, PayloadFacts DEF Types, CodecTypes
<1>11. h \in Seq(Byte) /\ Len(h) \in Nat BY <1>7, HeaderTypes
<1>12. Frame(p) = h \o p /\ Len(Frame(p)) = Len(h) + Len(p)
  BY <1>1, <1>7, FrameFacts DEF Types
<1> HIDE DEF p, h
<1>13. \A i \in 1..Len(h) : i <= Len(stream) => stream[i] = h[i]
  <2>1. \A i \in 1..Len(h) : Frame(p)[i] = h[i] /\ i <= Len(Frame(p)) /\ i \in Nat /\ i >= 1
    BY <1>10, <1>11, <1>12, TwoParts
  <2> QED BY <1>4, <1>9, <2>1
<1>14. /\ \A i \in 1..Len(stream) : HeaderEnds(i) <=> i = Len(h)
       /\ Len(h) <= Len(stream) => HeaderValue(Len(h)) = Len(p)
  <2>1. codec \in Codec BY DEF Types, CodecTypes
  <2> QED BY <1>1, <1>4, <1>7, <1>13, <2>1, HeaderRead DEF h
<1>15. n = Len(h) /\ HeaderValue(n) = Len(p) BY <1>2, <1>4, <1>14
<1>16. Wire(r + n)' /\ stream' \in Seq(Byte)
  <2>1. n \in 0..Len(stream) BY <1>4
  <2> QED BY <1>1, <1>2, <2>1, WireRead
<1>17. \/ Len(p) > Limit /\ status' = "FrameTooLarge" /\ need' = None
       \/ Len(p) <= Limit /\ need' = Len(p) /\ status' = "reading"
  BY <1>1, <1>2, <1>10, <1>15, SizesAreNat
<1>18. Types' BY <1>1, <1>16, <1>17 DEF Types, CodecTypes, Payload
<1>19. sent'[k + 1] = p /\ Header(sent[k + 1])' = h /\ Offset(Len(decoded))' = Offset(k)
  BY <1>1, <1>3 DEF Offset, Header, Frame, LegacyFrame, p, h
<1>20. need' # None \/ status' = "FrameTooLarge" BY <1>10, <1>17 DEF None
<1>21. buf' = <<>> BY <1>1 DEF Headed
<1>22. Headed(r + n)'
  BY <1>1, <1>3, <1>5, <1>6, <1>15, <1>17, <1>19, <1>20, <1>21 DEF Headed
<1>23. r + n \in Nat BY <1>4
<1> QED BY <1>16, <1>18, <1>22, <1>23

LEMMA HeadedReadPayload ==
    ASSUME Types, NEW r \in Nat, Wire(r), Headed(r), ReadPayload
    PROVE  Types' /\ \E x \in Nat : Wire(x)' /\ Headed(x)'
<1>1. /\ codec # "Legacy" /\ status = "reading" /\ need # None /\ Len(stream) >= need
      /\ decoded' = Append(decoded, First(stream, need)) /\ stream' = After(stream, need)
      /\ need' = None /\ status' = status
      /\ codec' = codec /\ delim' = delim /\ sent' = sent /\ open' = open /\ cut' = cut
      /\ buf' = buf
  BY DEF ReadPayload, Readable
<1>2. PICK k \in Nat : k = Len(decoded) BY DEF Types
<1>3. /\ Len(sent) \in Nat /\ stream \in Seq(Byte) /\ Len(stream) \in Nat
      /\ decoded \in Seq(Seq(Byte))
  BY DEF Types
<1> DEFINE p == sent[k + 1]
           h == Header(p)
<1>4. k < Len(sent) /\ r = Offset(k) + Len(h) /\ need = Len(p)
      /\ \A i \in 1..k : decoded[i] = sent[i]
  BY <1>1, <1>2 DEF Headed
<1>5. p \in Payload BY <1>3, <1>4, FramesAreBytes DEF SentTypes
<1>6. p \in Seq(Byte) /\ Len(p) \in Nat BY <1>5, PayloadFacts DEF Types, CodecTypes
<1>7. h \in Seq(Byte) /\ Len(h) \in Nat BY <1>5, HeaderTypes
<1>8. Frame(p) = h \o p /\ Len(Frame(p)) = Len(h) + Len(p)
  BY <1>1, <1>5, FrameFacts DEF Types
<1>9. /\ \A i \in 1..Len(stream) : Len(h) + i <= Len(Frame(p)) => stream[i] = Frame(p)[Len(h) + i]
      /\ Offset(k + 1) = Offset(k) + Len(Frame(p))
      /\ Offset(k) \in Nat
  BY <1>4, <1>7, Ahead
<1> HIDE DEF p, h
<1>10. need \in 0..Len(stream) BY <1>1, <1>3, <1>4, <1>6
<1>11. First(stream, need) = p
  <2>1. /\ First(stream, need) \in Seq(Byte) /\ Len(First(stream, need)) = need
        /\ \A i \in 1..need : First(stream, need)[i] = stream[i]
    BY <1>3, <1>10, Cutting
  <2>2. \A i \in 1..Len(p) : Frame(p)[Len(h) + i] = p[i] BY <1>6, <1>7, <1>8, TwoParts
  <2>3. \A i \in 1..Len(p) : i \in 1..Len(stream) /\ Len(h) + i <= Len(Frame(p))
    BY <1>4, <1>6, <1>7, <1>8, <1>10
  <2>4. \A i \in 1..Len(p) : First(stream, need)[i] = p[i] BY <1>4, <1>9, <2>1, <2>2, <2>3
  <2> DEFINE f == First(stream, need)
  <2>5. f \in Seq(Byte) /\ Len(f) = Len(p) /\ \A i \in 1..Len(p) : f[i] = p[i] BY <1>4, <2>1, <2>4
  <2> HIDE DEF f
  <2>6. f = p BY <1>6, <2>5
  <2> QED BY <2>6 DEF f
<1>0. PICK d \in Nat : d = need BY <1>3, <1>10
<1>12. Wire(r + d)' /\ stream' \in Seq(Byte)
  <2>1. d \in 0..Len(stream) /\ stream' = After(stream, d) BY <1>0, <1>1, <1>10
  <2> QED BY <1>1, <2>1, WireRead
<1>13. decoded' = Append(decoded, p) /\ decoded' \in Seq(Seq(Byte)) /\ Len(decoded') = k + 1
       /\ decoded'[k + 1] = p /\ \A i \in 1..k : decoded'[i] = decoded[i]
  BY <1>1, <1>2, <1>3, <1>6, <1>11
<1>14. Types' BY <1>1, <1>12, <1>13 DEF Types, CodecTypes, Payload
<1>15. r + d = Offset(k + 1)
  <2>1. r = Offset(k) + Len(h) /\ d = Len(p) BY <1>0, <1>4
  <2>2. Offset(k + 1) = Offset(k) + (Len(h) + Len(p)) BY <1>8, <1>9
  <2>3. Len(h) \in Nat /\ Len(p) \in Nat /\ Offset(k) \in Nat BY <1>6, <1>7, <1>9
  <2> QED BY <2>1, <2>2, <2>3
<1>16. Offset(Len(decoded))' = Offset(k + 1) BY <1>1, <1>13 DEF Offset, Frame, LegacyFrame
<1>17. k + 1 <= Len(sent') /\ \A i \in 1..(k + 1) : decoded'[i] = sent'[i]
  <2>1. k + 1 <= Len(sent) BY <1>3, <1>4
  <2>2. k + 1 <= Len(sent') BY <1>1, <2>1
  <2>3. decoded'[k + 1] = sent'[k + 1] BY <1>1, <1>13 DEF p
  <2>4. ASSUME NEW i \in 1..k PROVE decoded'[i] = sent'[i] BY <1>1, <1>4, <1>13
  <2>5. ASSUME NEW i \in 1..(k + 1) PROVE decoded'[i] = sent'[i]
    <3>1. CASE i = k + 1 BY ONLY <2>3, <3>1
    <3>2. CASE i # k + 1
      <4>1. i \in 1..k BY <3>2
      <4> QED BY <2>4, <4>1
    <3> QED BY <3>1, <3>2
  <2> QED BY <2>2, <2>5
<1>18. buf' = <<>> BY <1>1 DEF Headed
<1>19. Headed(r + d)'
  <2>1. /\ need' = None /\ status' = "reading"
        /\ Len(decoded') = k + 1 /\ r + d = Offset(Len(decoded))'
    BY <1>1, <1>13, <1>15, <1>16
  <2>2. \A i \in 1..k : Len(decoded[i]) <= Limit BY <1>1, <1>2 DEF Headed
  <2>3. Len(p) <= Limit BY <1>1, <1>4 DEF Headed
  <2>4. ASSUME NEW i \in 1..(k + 1) PROVE Len(decoded'[i]) <= Limit
    <3>1. CASE i = k + 1
      <4>1. decoded'[i] = p BY <1>13, <3>1
      <4> QED BY <2>3, <4>1
    <3>2. CASE i # k + 1
      <4>1. i \in 1..k BY <3>2
      <4> QED BY <1>13, <2>2, <4>1
    <3> QED BY <3>1, <3>2
  <2>5. \A i \in 1..(k + 1) : decoded'[i] = sent'[i] /\ Len(decoded'[i]) <= Limit
    BY <1>17, <2>4
  <2>6. k + 1 <= Len(sent') BY <1>17
  <2> QED BY ONLY <1>18, <2>1, <2>5, <2>6 DEF Headed, None
<1>20. r + d \in Nat OBVIOUS
<1> QED BY <1>12, <1>14, <1>19, <1>20

\* A header or payload that has been sent can be read, unless the stream was cut.
LEMMA Complete ==
    ASSUME Types, NEW r \in Nat, Wire(r), Headed(r), codec # "Legacy", status = "reading", ~cut,
           NEW k \in Nat, k = Len(decoded), k < Len(sent)
    PROVE  Readable
<1> DEFINE p == sent[k + 1]
           h == Header(p)
<1>1. Len(sent) \in Nat /\ stream \in Seq(Byte) /\ Len(stream) \in Nat BY DEF Types
<1>2. p \in Payload BY <1>1, FramesAreBytes DEF SentTypes
<1>3. p \in Seq(Byte) /\ Len(p) \in Nat BY <1>2, PayloadFacts DEF Types, CodecTypes
<1>4. h \in Seq(Byte) /\ Len(h) \in Nat /\ Len(h) > 0 BY <1>2, HeaderTypes
<1>5. Frame(p) = h \o p /\ Len(Frame(p)) = Len(h) + Len(p) BY <1>2, FrameFacts DEF Types
<1>6. Offset(k) \in Nat
  <2>1. k \in 0..Len(sent) BY <1>1
  <2> QED BY <2>1, PositionsHold DEF Positions
<1>7. CASE need = None
  <2>1. r = Offset(k) /\ Offset(k) + 0 = Offset(k) BY <1>6, <1>7 DEF Headed
  <2>2. /\ \A i \in 1..Len(stream) : 0 + i <= Len(Frame(p)) => stream[i] = Frame(p)[0 + i]
        /\ 0 + Len(stream) >= Len(Frame(p))
    BY <2>1, Ahead
  <2>3. \A i \in 1..Len(stream) : 0 + i = i BY <1>1
  <2> HIDE DEF p, h
  <2>4. \A i \in 1..Len(h) : Frame(p)[i] = h[i] /\ i <= Len(Frame(p)) /\ i \in Nat /\ i >= 1
    BY <1>3, <1>4, <1>5, TwoParts
  <2>5. ASSUME NEW i \in 1..Len(h) PROVE stream[i] = h[i]
    <3>1. i \in 1..Len(stream)
      <4> DEFINE L == Len(stream)
                 F == Len(Frame(p))
      <4>1. 0 + L >= F /\ i <= F /\ i \in Nat /\ i >= 1 /\ L \in Nat BY <1>1, <2>2, <2>4
      <4>2. F \in Nat BY <1>3, <1>4, <1>5
      <4> HIDE DEF L, F
      <4>3. i \in 1..L BY <4>1, <4>2
      <4> QED BY <4>3 DEF L
    <3>2. 0 + i = i BY <2>3, <3>1
    <3>3. i <= Len(Frame(p)) /\ Frame(p)[i] = h[i] BY <2>4
    <3>4. stream[i] = Frame(p)[i] BY <2>2, <3>1, <3>2, <3>3
    <3> QED BY <3>3, <3>4
  <2>6. Len(h) \in 1..Len(stream) BY <1>1, <1>3, <1>4, <1>5, <2>2
  <2>7. HeaderEnds(Len(h))
    <3>1. codec \in Codec BY DEF Types, CodecTypes
    <3> QED BY <1>1, <1>2, <2>5, <2>6, <3>1, HeaderRead DEF h
  <2> QED BY <1>7, <2>6, <2>7 DEF Readable
<1>8. CASE need # None
  <2>1. r = Offset(k) + Len(h) /\ need = Len(p) BY <1>8 DEF Headed
  <2>2. Len(h) + Len(stream) >= Len(Frame(p)) BY <1>4, <2>1, Ahead
  <2> HIDE DEF p, h
  <2>3. Len(stream) >= need BY <1>1, <1>3, <1>4, <1>5, <2>1, <2>2
  <2> QED BY <1>8, <2>3 DEF Readable
<1> QED BY <1>7, <1>8

LEMMA HeadedEnd ==
    ASSUME Types, NEW r \in Nat, Wire(r), Headed(r), ReadFullEnd
    PROVE  Types' /\ Wire(r)' /\ Headed(r)'
<1>1. /\ codec # "Legacy" /\ status = "reading" /\ ~open
      /\ codec' = codec /\ delim' = delim /\ sent' = sent /\ open' = open /\ cut' = cut
      /\ buf' = buf /\ decoded' = decoded /\ stream' = stream /\ need' = need
      /\ status' = IF need = None /\ stream = <<>> THEN "EOF" ELSE "UnexpectedEOF"
  BY DEF ReadFullEnd
<1>2. PICK k \in Nat : k = Len(decoded) BY DEF Types
<1>3. Len(sent) \in Nat /\ stream \in Seq(Byte) /\ Len(stream) \in Nat BY DEF Types
<1>4. Types' BY <1>1 DEF Types, CodecTypes, Payload
<1>5. \A i : Offset(i)' = Offset(i) /\ Frame(sent[i])' = Frame(sent[i]) /\ Header(sent[i])' = Header(sent[i])
  BY <1>1 DEF Offset, Frame, LegacyFrame, Header
<1>6. Wire(r)' BY <1>1, <1>5 DEF Wire, Carries
<1>7. k <= Len(sent) /\ k \in 0..Len(sent) BY <1>1, <1>2, <1>3 DEF Headed
<1>8. Positions BY PositionsHold
<1>9. Offset(k) \in Nat /\ Offset(Len(sent)) \in Nat BY <1>3, <1>7, <1>8 DEF Positions
<1>10. CASE need = None /\ stream = <<>>
  <2>1. r = Offset(k) /\ Len(stream) = 0 BY <1>1, <1>2, <1>10 DEF Headed
  <2>2. k = Len(sent)
    <3> SUFFICES ASSUME k < Len(sent) PROVE FALSE BY <1>3, <1>7
    <3>1. Offset(Len(sent) - 1) < Offset(k) BY <1>1, <1>3, <1>9, <2>1 DEF Wire
    <3>2. Len(sent) - 1 \in 0..Len(sent) /\ k <= Len(sent) - 1 BY <1>3
    <3>3. k < Len(sent) - 1 => Offset(k) < Offset(Len(sent) - 1) BY <1>7, <1>8, <3>2 DEF Positions
    <3>4. Offset(Len(sent) - 1) \in Nat BY <1>8, <3>2 DEF Positions
    <3>5. k = Len(sent) - 1 \/ k < Len(sent) - 1 BY <1>3, <3>2
    <3> QED BY <1>9, <3>1, <3>3, <3>4, <3>5
  <2>3. ~cut BY <1>9, <2>1, <2>2 DEF Wire
  <2> QED BY <1>1, <1>2, <1>4, <1>5, <1>6, <1>10, <2>2, <2>3 DEF Headed
<1>11. CASE ~(need = None /\ stream = <<>>)
  <2>1. cut
    <3> SUFFICES ASSUME ~cut PROVE FALSE OBVIOUS
    <3>1. k < Len(sent)
      <4> SUFFICES ASSUME k = Len(sent) PROVE FALSE BY <1>3, <1>7
      <4>1. r + Len(stream) = Offset(Len(sent)) BY DEF Wire
      <4>2. need = None BY <1>1, <1>2 DEF Headed
      <4> QED BY <1>1, <1>2, <1>3, <1>9, <1>11, <4>1, <4>2 DEF Headed
    <3>2. Readable BY <1>1, <1>2, <3>1, Complete
    <3> QED BY <3>2 DEF ReadFullEnd
  <2>2. status' = "UnexpectedEOF" BY <1>1, <1>11
  <2> QED BY <1>1, <1>2, <1>4, <1>5, <1>6, <1>11, <2>1, <2>2 DEF Headed
<1> QED BY <1>10, <1>11

-------------------------------------------------------------------------------
(* Legacy                                                                  *)

\* Where the parts of a frame are.
LEMMA FrameParts ==
    ASSUME CodecTypes, codec = "Legacy", NEW p \in Payload
    PROVE  /\ p \in Seq(Byte) /\ Len(p) \in Nat /\ Len(delim) \in Nat /\ Len(delim) > 0
           /\ Frame(p) \in Seq(Byte) /\ Len(Frame(p)) = Len(p) + 2 + Len(delim)
           /\ \A i \in 1..Len(p) : Frame(p)[i] = p[i]
           /\ Frame(p)[Len(p) + 1] * Base + Frame(p)[Len(p) + 2] = Len(p)
           /\ \A i \in 1..Len(delim) : Frame(p)[Len(p) + 2 + i] = delim[i]
<1> DEFINE b == TwoDigits(Len(p))
<1>1. delim \in Seq(Byte) /\ delim # <<>> BY DEF CodecTypes
<1>2. Len(delim) \in Nat /\ Len(delim) > 0 BY <1>1
<1>3. p \in Seq(Byte) BY PayloadFacts DEF CodecTypes
<1>4. Len(p) \in Nat BY <1>3
<1>5. Len(p) \in 0..MaxUint16 BY PayloadFacts, SizesAreNat DEF CodecTypes
<1>6. b \in Seq(Byte) /\ Len(b) = 2 /\ b[1] * Base + b[2] = Len(p) BY <1>5, TwoDigitsFacts
<1>7. Frame(p) = p \o b \o delim /\ Frame(p) \in Seq(Byte) /\ Len(Frame(p)) = Len(p) + 2 + Len(delim)
  BY FrameFacts
<1> HIDE DEF b
<1>8. p \in Seq(Byte) /\ b \in Seq(Byte) /\ delim \in Seq(Byte) BY <1>1, <1>3, <1>6
<1>9. /\ \A i \in 1..Len(p) : (p \o b \o delim)[i] = p[i]
      /\ \A i \in 1..Len(b) : (p \o b \o delim)[Len(p) + i] = b[i]
      /\ \A i \in 1..Len(delim) : (p \o b \o delim)[Len(p) + Len(b) + i] = delim[i]
  BY <1>8, ThreeParts
<1>10. \A i \in 1..Len(p) : Frame(p)[i] = p[i] BY <1>7, <1>9
<1>11. Frame(p)[Len(p) + 1] = b[1] /\ Frame(p)[Len(p) + 2] = b[2] BY <1>6, <1>7, <1>9
<1>12. \A i \in 1..Len(delim) : Frame(p)[Len(p) + 2 + i] = delim[i] BY <1>6, <1>7, <1>9
<1> QED BY <1>2, <1>3, <1>4, <1>6, <1>7, <1>10, <1>11, <1>12

\* A whole frame ends where it ends.
LEMMA WholeFrame ==
    ASSUME CodecTypes, codec = "Legacy", NEW p \in Payload
    PROVE  FrameEnd(Frame(p)) /\ FrameLen(Frame(p)) = Len(p)
<1> DEFINE f == Frame(p)
           n == Len(p)
           d == Len(delim)
<1>1. /\ n \in Nat /\ d \in Nat /\ d > 0 /\ f \in Seq(Byte) /\ Len(f) = n + 2 + d
      /\ f[n + 1] * Base + f[n + 2] = n
      /\ \A i \in 1..d : f[n + 2 + i] = delim[i]
  BY FrameParts
<1>2. delim \in Seq(Byte) BY DEF CodecTypes
<1> HIDE DEF f
<1>3. FrameLen(f) = n BY <1>1 DEF FrameLen
<1>4. After(f, n + 2) = delim
  <2>1. n + 2 \in 0..Len(f) /\ Len(f) - (n + 2) = d BY <1>1
  <2>2. /\ After(f, n + 2) \in Seq(Byte) /\ Len(After(f, n + 2)) = Len(f) - (n + 2)
        /\ \A i \in 1..(Len(f) - (n + 2)) : After(f, n + 2)[i] = f[n + 2 + i]
    BY <1>1, <2>1, Cutting
  <2> DEFINE a == After(f, n + 2)
  <2>3. a \in Seq(Byte) /\ Len(a) = Len(delim) /\ \A i \in 1..Len(delim) : a[i] = delim[i]
    BY <1>1, <2>1, <2>2
  <2> HIDE DEF a
  <2>4. a = delim BY <1>2, <2>3
  <2> QED BY <2>4 DEF a
<1>5. FrameEnd(f) BY <1>1, <1>3, <1>4 DEF FrameEnd
<1> QED BY <1>3, <1>5 DEF f

\* What the decoder has buffered stays in the place it was sent at.
LEMMA ReadBytes ==
    ASSUME Types, NEW from \in Nat, Carries(buf, from), Wire(from + Len(buf)),
           NEW n \in 0..Len(stream)
    PROVE  LET bytes == buf \o First(stream, n)
           IN  bytes \in Seq(Byte) /\ Len(bytes) = Len(buf) + n /\ Carries(bytes, from)
<1> DEFINE c == First(stream, n)
           bytes == buf \o c
<1>1. stream \in Seq(Byte) /\ buf \in Seq(Byte) BY DEF Types
<1>2. c \in Seq(Byte) /\ Len(c) = n /\ \A i \in 1..n : c[i] = stream[i] BY <1>1, Cutting
<1> HIDE DEF c
<1>3. /\ bytes \in Seq(Byte) /\ Len(bytes) = Len(buf) + Len(c)
      /\ \A i \in 1..Len(buf) : bytes[i] = buf[i]
      /\ \A i \in 1..Len(c) : bytes[Len(buf) + i] = c[i]
  <2>1. buf \in Seq(Byte) /\ c \in Seq(Byte) BY <1>1, <1>2
  <2> QED BY <2>1, TwoParts
<1>4. Len(buf) \in Nat /\ Len(stream) \in Nat /\ n \in Nat /\ n <= Len(stream) BY <1>1
<1> HIDE DEF bytes
<1>5. ASSUME NEW j \in 1..Len(sent), NEW p \in 1..Len(Frame(sent[j])),
             Offset(j - 1) + p - from \in 1..Len(bytes)
      PROVE  bytes[Offset(j - 1) + p - from] = Frame(sent[j])[p]
  <2> DEFINE q == Offset(j - 1) + p - from
  <2>1. Offset(j - 1) \in Nat /\ p \in Nat
    <3>1. Positions /\ j - 1 \in 0..Len(sent) BY PositionsHold DEF Types
    <3>2. Frame(sent[j]) \in Seq(Byte) BY FramesAreBytes DEF SentTypes
    <3> QED BY <3>1, <3>2 DEF Positions
  <2>2. CASE q <= Len(buf)
    <3>1. q \in 1..Len(buf) BY <1>4, <1>5, <2>1, <2>2
    <3>2. buf[q] = Frame(sent[j])[p] BY <3>1 DEF Carries
    <3> HIDE DEF q
    <3>3. bytes[q] = buf[q] BY <1>3, <3>1
    <3> QED BY <3>2, <3>3 DEF q
  <2>3. CASE q > Len(buf)
    <3> DEFINE x == Offset(j - 1) + p - (from + Len(buf))
    <3>1. x = q - Len(buf) /\ q \in 1..(Len(buf) + n) BY <1>2, <1>3, <1>4, <1>5, <2>1
    <3>2. x \in 1..n /\ x \in 1..Len(stream) /\ q = Len(buf) + x
      <4> DEFINE B == Len(buf)
                 L == Len(stream)
      <4>1. x = q - B /\ q \in 1..(B + n) /\ q > B BY <2>3, <3>1
      <4>2. B \in Nat /\ L \in Nat /\ n \in Nat /\ n <= L BY <1>4
      <4> HIDE DEF q, x, B, L
      <4>3. x \in 1..n /\ x \in 1..L /\ q = B + x BY <4>1, <4>2
      <4> QED BY <4>3 DEF B, L
    <3>3. stream[x] = Frame(sent[j])[p] BY <3>2 DEF Wire, Carries
    <3> HIDE DEF x
    <3>4. bytes[q] = stream[x] BY <1>2, <1>3, <3>2
    <3> QED BY <3>3, <3>4
  <2> QED BY <1>4, <1>5, <2>1, <2>2, <2>3
<1>6. Carries(bytes, from) BY <1>5 DEF Carries
<1> QED BY <1>2, <1>3, <1>6 DEF bytes, c

\* Bytes that start where a frame starts are a first part of it, or more.
LEMMA InFrame ==
    ASSUME Types, NEW k \in Nat, k < Len(sent), NEW bytes \in Seq(Byte), Carries(bytes, Offset(k)),
           Len(bytes) <= Len(Frame(sent[k + 1]))
    PROVE  bytes = First(Frame(sent[k + 1]), Len(bytes))
<1> DEFINE f == Frame(sent[k + 1])
           n == Len(bytes)
<1>1. Len(sent) \in Nat BY DEF Types
<1>2. k + 1 \in 1..Len(sent) /\ (k + 1) - 1 = k /\ k \in 0..Len(sent) BY <1>1
<1>3. f \in Seq(Byte) BY <1>2, FramesAreBytes DEF SentTypes
<1>4. Offset(k) \in Nat BY <1>2, PositionsHold DEF Positions
<1>5. n \in 0..Len(f) /\ Len(f) \in Nat BY <1>3
<1>6. ASSUME NEW i \in 1..n PROVE bytes[i] = f[i]
  <2>1. i \in 1..Len(f) /\ Offset(k) + i - Offset(k) = i BY <1>4, <1>5
  <2>2. Offset((k + 1) - 1) = Offset(k) BY <1>2
  <2>3. LET q == Offset((k + 1) - 1) + i - Offset(k) IN
        q \in 1..Len(bytes) => bytes[q] = Frame(sent[k + 1])[i]
    BY <1>2, <2>1, Zenon DEF Carries
  <2> QED BY <2>1, <2>2, <2>3
<1>7. /\ First(f, n) \in Seq(Byte) /\ Len(First(f, n)) = n
      /\ \A i \in 1..n : First(f, n)[i] = f[i]
  BY <1>3, <1>5, Cutting
<1> DEFINE a == First(f, n)
<1>8. a \in Seq(Byte) /\ Len(a) = Len(bytes) /\ \A i \in 1..Len(bytes) : a[i] = bytes[i]
  BY <1>6, <1>7
<1> HIDE DEF a
<1>9. a = bytes BY <1>8
<1> QED BY <1>9 DEF a

\* Bytes that look like a frame and end where one ends are that frame: its length field
\* says where it starts.
LEMMA Trailer ==
    ASSUME Types, codec = "Legacy", NEW bytes \in Seq(Byte), NEW from \in Nat, Carries(bytes, from),
           NEW k \in 1..Len(sent), from + Len(bytes) = Offset(k), FrameEnd(bytes)
    PROVE  /\ from = Offset(k - 1) /\ FrameLen(bytes) = Len(sent[k])
           /\ First(bytes, FrameLen(bytes)) = sent[k]
<1> DEFINE p == sent[k]
           f == Frame(sent[k])
           d == Len(delim)
           n == FrameLen(bytes)
<1>1. p \in Payload /\ CodecTypes BY FramesAreBytes DEF SentTypes, Types
<1>2. /\ p \in Seq(Byte) /\ Len(p) \in Nat /\ d \in Nat /\ d > 0 /\ Len(f) = Len(p) + 2 + d
      /\ \A i \in 1..Len(p) : f[i] = p[i]
      /\ f[Len(p) + 1] * Base + f[Len(p) + 2] = Len(p)
  BY <1>1, FrameParts
<1>3. Offset(k) = Offset(k - 1) + Len(f) /\ Offset(k - 1) \in Nat
  <2>1. Positions /\ k - 1 \in 0..Len(sent) BY PositionsHold DEF Types
  <2> QED BY <2>1 DEF Positions
<1>4. \A i \in 1..Len(f) : LET q == Offset(k - 1) + i - from IN
         q \in 1..Len(bytes) => bytes[q] = f[i]
  BY DEF Carries
<1>5. /\ n = Len(bytes) - d - 2 /\ n >= 0 /\ Len(bytes) \in Nat
      /\ bytes[n + 1] * Base + bytes[n + 2] = n
  BY DEF FrameEnd, FrameLen
<1> HIDE DEF p, f, d, n
<1>6. from + n = Offset(k - 1) + Len(p)
  <2> DEFINE x == Len(bytes)
             y == Len(p)
             z == Len(f)
             o == Offset(k)
             u == Offset(k - 1)
  <2>1. o = u + z /\ z = y + 2 + d /\ n = x - d - 2 /\ from + x = o BY <1>2, <1>3, <1>5
  <2>2. u \in Nat /\ y \in Nat /\ d \in Nat /\ x \in Nat /\ from \in Nat BY <1>2, <1>3, <1>5
  <2> HIDE DEF x, y, z, o, u
  <2>3. from + n = u + y BY <2>1, <2>2
  <2> QED BY <2>3 DEF u, y
<1>7. n \in Nat /\ n + 1 \in 1..Len(bytes) /\ n + 2 \in 1..Len(bytes)
  <2> DEFINE x == Len(bytes)
  <2>1. n = x - d - 2 /\ n >= 0 /\ x \in Nat /\ d \in Nat /\ d > 0 BY <1>2, <1>5
  <2> HIDE DEF x
  <2>2. n \in Nat /\ n + 1 \in 1..x /\ n + 2 \in 1..x BY <2>1
  <2> QED BY <2>2 DEF x
<1>8. Len(p) + 1 \in 1..Len(f) /\ Len(p) + 2 \in 1..Len(f) BY <1>2
<1>9. Offset(k - 1) + (Len(p) + 1) - from = n + 1 /\ Offset(k - 1) + (Len(p) + 2) - from = n + 2
  <2> DEFINE y == Len(p)
             u == Offset(k - 1)
  <2>1. u \in Nat /\ y \in Nat /\ n \in Nat /\ from \in Nat /\ from + n = u + y
    BY <1>2, <1>3, <1>6, <1>7
  <2> HIDE DEF y, u
  <2>2. u + (y + 1) - from = n + 1 /\ u + (y + 2) - from = n + 2 BY <2>1
  <2> QED BY <2>2 DEF y, u
<1>10. bytes[n + 1] = f[Len(p) + 1] /\ bytes[n + 2] = f[Len(p) + 2]
  <2>1. bytes[n + 1] = f[Len(p) + 1] BY ONLY <1>4, <1>7, <1>8, <1>9
  <2>2. bytes[n + 2] = f[Len(p) + 2] BY ONLY <1>4, <1>7, <1>8, <1>9
  <2> QED BY <2>1, <2>2
<1>11. n = Len(p) BY <1>2, <1>5, <1>10
<1>12. from = Offset(k - 1)
  <2> DEFINE u == Offset(k - 1)
  <2>1. u \in Nat /\ n \in Nat /\ from + n = u + n BY <1>3, <1>6, <1>7, <1>11
  <2> HIDE DEF u
  <2>2. from = u BY <2>1
  <2> QED BY <2>2 DEF u
<1>13. ASSUME NEW i \in 1..n PROVE bytes[i] = p[i]
  <2>1. i \in 1..Len(f) /\ i \in 1..Len(bytes) /\ i \in 1..Len(p)
    <3> DEFINE x == Len(bytes)
               y == Len(p)
               z == Len(f)
    <3>1. n = x - d - 2 /\ n = y /\ z = y + 2 + d /\ x \in Nat /\ y \in Nat /\ d \in Nat
      BY <1>2, <1>5, <1>11
    <3> HIDE DEF x, y, z
    <3>2. i \in 1..z /\ i \in 1..x /\ i \in 1..y BY <3>1
    <3> QED BY <3>2 DEF x, y, z
  <2>2. Offset(k - 1) + i - from = i BY <1>3, <1>12
  <2>3. bytes[i] = f[i] BY <1>4, <2>1, <2>2
  <2> QED BY <1>2, <2>1, <2>3
<1>14. n \in 0..Len(bytes) BY <1>2, <1>5, <1>7
<1>15. /\ First(bytes, n) \in Seq(Byte) /\ Len(First(bytes, n)) = n
       /\ \A i \in 1..n : First(bytes, n)[i] = bytes[i]
  BY <1>14, Cutting
<1> DEFINE a == First(bytes, n)
<1>16. a \in Seq(Byte) /\ Len(a) = Len(p) /\ \A i \in 1..Len(p) : a[i] = p[i] BY <1>11, <1>13, <1>15
<1> HIDE DEF a
<1>17. a = p BY <1>2, <1>16
<1> QED BY <1>11, <1>12, <1>17 DEF a, n, p

\* The decoder's buffer starts behind s bytes.  Should a frame start there, then all
\* before it has been returned.
Buffered(s) ==
    /\ need = None /\ Carries(buf, s)
    /\ \A k \in 0..Len(sent) : s = Offset(k) => decoded = NonEmpty(First(sent, k))

\* The buffer holds a proper first part of frame k + 1.
InStep(s, k) ==
    /\ s = Offset(k)
    /\ k = Len(sent) => buf = <<>>
    /\ k < Len(sent) => Len(buf) < Len(Frame(sent[k + 1]))

\* Whatever the decoder has touched is unambiguous.
Sure(r) == \A j \in 1..Len(sent) : Offset(j - 1) < r => Unambiguous(sent[j])

Outcome ==
    /\ status # "FrameTooLarge"
    /\ status = "reading" => Len(buf) <= FrameMax
    /\ status = "CorruptFrame" => Len(buf) > FrameMax
    /\ status \in {"EOF", "UnexpectedEOF"} =>
           ~open /\ stream = <<>> /\ (status = "EOF" <=> buf = <<>>)

Trailed(r) ==
    codec = "Legacy" =>
        /\ Outcome
        /\ \E s \in Nat :
              /\ r = s + Len(buf) /\ Buffered(s)
              /\ Sure(r) => \E k \in 0..Len(sent) : InStep(s, k)

\* ReadSlice never runs past the last byte of a frame, which is a delimiter's last.
LEMMA NoOvershoot ==
    ASSUME Types, codec = "Legacy", NEW s \in Nat, NEW k \in Nat, k < Len(sent), InStep(s, k),
           Wire(s + Len(buf)), NEW x \in 0..Len(stream), \A m \in 1..x : m \notin Stops
    PROVE  Len(buf) + x < Len(Frame(sent[k + 1]))
<1> DEFINE p == sent[k + 1]
           f == Frame(p)
           d == Len(delim)
           b == Len(buf)
<1>1. b \in Nat /\ Len(stream) \in Nat /\ Len(sent) \in Nat /\ x \in Nat /\ x <= Len(stream)
  BY DEF Types
<1>2. p \in Payload /\ CodecTypes
  <2>1. k + 1 \in 1..Len(sent) BY <1>1
  <2> QED BY <2>1, FramesAreBytes DEF SentTypes, Types
<1>3. /\ Len(p) \in Nat /\ d \in Nat /\ d > 0 /\ Len(f) = Len(p) + 2 + d
      /\ \A i \in 1..d : f[Len(p) + 2 + i] = delim[i]
  BY <1>2, FrameParts
<1>4. Wire(Offset(k) + b) /\ b < Len(f) BY DEF InStep
<1>5. \A i \in 1..Len(stream) : b + i <= Len(f) => stream[i] = f[b + i]
  BY <1>1, <1>4, Ahead
<1> HIDE DEF p, f, d, b
<1> SUFFICES ASSUME ~(b + x < Len(f)) PROVE FALSE BY DEF b, f, p
<1> DEFINE m == Len(f) - b
<1>6. m \in 1..x /\ m \in 1..Len(stream) /\ b + m = Len(f) /\ Len(f) = Len(p) + 2 + d
  BY <1>1, <1>3, <1>4
<1> HIDE DEF m
<1>7. stream[m] = f[Len(f)]
  <2>1. b + m <= Len(f) BY <1>3, <1>6
  <2>2. stream[m] = f[b + m] BY <1>5, <1>6, <2>1
  <2> QED BY <1>6, <2>2
<1>8. f[Len(f)] = delim[d] BY <1>3, <1>6
<1>9. m \in Stops BY <1>6, <1>7, <1>8 DEF Stops, d
<1> QED BY <1>6, <1>9

LEMMA SureSoFar ==
    ASSUME Types, NEW r \in Nat, NEW n \in Nat, Sure(r + n)
    PROVE  Sure(r)
<1> SUFFICES ASSUME NEW j \in 1..Len(sent), Offset(j - 1) < r PROVE Unambiguous(sent[j]) BY DEF Sure
<1>1. Positions /\ j - 1 \in 0..Len(sent) BY PositionsHold DEF Types
<1>2. Offset(j - 1) \in Nat BY <1>1 DEF Positions
<1>3. Offset(j - 1) < r + n BY <1>2
<1> QED BY <1>3 DEF Sure

\* What a chunk makes of the buffer as long as the decoder is in step: a longer first part
\* of the frame, or all of it, and only then is it taken for one.
LEMMA ChunkInStep ==
    ASSUME Types, codec = "Legacy", NEW r \in Nat, Wire(r), NEW s \in Nat, r = s + Len(buf),
           Carries(buf, s), NEW k \in 0..Len(sent), InStep(s, k),
           NEW n \in 1..Len(stream), \A m \in Stops : n <= m, Sure(r + n),
           NEW b \in Seq(Byte), Len(b) = Len(buf) + n, Carries(b, s)
    PROVE  /\ k < Len(sent) /\ Len(b) <= Len(Frame(sent[k + 1]))
           /\ FrameEnd(b) <=> Len(b) = Len(Frame(sent[k + 1]))
<1>1. Len(buf) \in Nat /\ Len(stream) \in Nat /\ Len(sent) \in Nat /\ Len(b) \in Nat BY DEF Types
<1>2. Positions BY PositionsHold
<1>3. s = Offset(k) /\ Offset(k) \in Nat BY <1>2 DEF InStep, Positions
<1>4. k < Len(sent)
  <2> SUFFICES ASSUME k = Len(sent) PROVE FALSE BY <1>1
  <2>1. Len(buf) = 0 BY DEF InStep
  <2>2. r + Len(stream) <= Offset(k) BY DEF Wire
  <2> QED BY <1>1, <1>3, <2>1, <2>2
<1> DEFINE p == sent[k + 1]
           f == Frame(p)
<1>5. k + 1 \in 1..Len(sent) /\ (k + 1) - 1 = k /\ k \in Nat BY <1>1, <1>4
<1>6. p \in Payload /\ f \in Seq(Byte) /\ CodecTypes
  BY <1>5, FramesAreBytes DEF SentTypes, Types
<1>7. Len(f) \in Nat BY <1>6
<1>8. Len(b) <= Len(f)
  <2>1. n - 1 \in 0..Len(stream) BY <1>1
  <2>2. \A m \in 1..(n - 1) : m \notin Stops
    <3>1. \A m \in 1..(n - 1) : ~(n <= m) BY <1>1
    <3> QED BY <3>1
  <2>3. Wire(s + Len(buf)) OBVIOUS
  <2>4. Len(buf) + (n - 1) < Len(f) BY <1>4, <1>5, <2>1, <2>2, <2>3, NoOvershoot
  <2> HIDE DEF f
  <2> QED BY <1>1, <1>7, <2>4
<1>9. b = First(f, Len(b)) BY <1>3, <1>4, <1>5, <1>8, InFrame
<1>10. ASSUME Len(b) = Len(f) PROVE FrameEnd(b)
  <2>1. First(f, Len(f)) = f BY <1>6 DEF First
  <2>2. FrameEnd(f) BY <1>6, WholeFrame
  <2> QED BY <1>9, <1>10, <2>1, <2>2
<1>11. ASSUME Len(b) # Len(f) PROVE ~FrameEnd(b)
  <2>1. Offset((k + 1) - 1) < r + n BY <1>1, <1>3, <1>5
  <2>2. Unambiguous(p) BY <1>5, <2>1 DEF Sure
  <2>3. Len(b) \in 0..(Len(f) - 1) BY <1>1, <1>7, <1>8, <1>11
  <2>4. ~FrameEnd(First(f, Len(b))) BY <2>2, <2>3 DEF Unambiguous
  <2> QED BY <1>9, <2>4
<1> QED BY <1>4, <1>8, <1>10, <1>11

LEMMA TrailedChunk ==
    ASSUME Types, NEW r \in Nat, Wire(r), Trailed(r), ReadChunk
    PROVE  Types' /\ \E x \in Nat : Wire(x)' /\ Trailed(x)'
<1>1. /\ codec = "Legacy" /\ status = "reading"
      /\ codec' = codec /\ delim' = delim /\ sent' = sent /\ open' = open /\ cut' = cut
      /\ need' = need
  BY DEF ReadChunk
<1>2. PICK n \in Stops :
          /\ \A m \in Stops : n <= m
          /\ stream' = After(stream, n)
          /\ LET bytes == buf \o First(stream, n) IN
             \/ /\ FrameEnd(bytes)
                /\ decoded' = IF FrameLen(bytes) = 0 THEN decoded
                              ELSE Append(decoded, First(bytes, FrameLen(bytes)))
                /\ buf' = <<>>
                /\ UNCHANGED status
             \/ /\ ~FrameEnd(bytes)
                /\ buf' = bytes
                /\ status' = IF Len(bytes) > FrameMax THEN "CorruptFrame" ELSE status
                /\ UNCHANGED decoded
  BY Zenon DEF ReadChunk
<1>3. PICK s \in Nat : /\ r = s + Len(buf) /\ Buffered(s)
                       /\ Sure(r) => \E k \in 0..Len(sent) : InStep(s, k)
  BY <1>1 DEF Trailed
<1>4. n \in 1..Len(stream) BY DEF Stops
<1>5. Len(buf) \in Nat /\ Len(stream) \in Nat /\ Len(sent) \in Nat /\ n \in Nat /\ n > 0
      /\ decoded \in Seq(Seq(Byte)) /\ delim \in Seq(Byte) /\ sent \in Seq(Payload)
  BY <1>4 DEF Types, CodecTypes
<1>6. n \in 0..Len(stream) BY <1>4, <1>5
<1>7. Wire(r + n)' /\ stream' \in Seq(Byte) BY <1>1, <1>2, <1>6, WireRead
<1> DEFINE bytes == buf \o First(stream, n)
<1>8. bytes \in Seq(Byte) /\ Len(bytes) = Len(buf) + n /\ Carries(bytes, s)
  BY <1>3, <1>6, ReadBytes DEF Buffered
<1> HIDE DEF bytes
<1>9. PICK b \in Seq(Byte) : b = bytes BY <1>8
<1>10. Len(b) = Len(buf) + n /\ Carries(b, s) /\ Len(b) \in Nat /\ r + n = s + Len(b) /\ r + n \in Nat
  <2>1. Len(b) = Len(buf) + n /\ Carries(b, s) BY <1>8, <1>9
  <2>2. Len(b) \in Nat BY <1>9
  <2>3. r = s + Len(buf) /\ Len(buf) \in Nat BY <1>3, <1>5
  <2>4. Len(b) = Len(buf) + n BY <2>1
  <2>5. r + n = s + Len(b) /\ r + n \in Nat BY <1>5, <2>3, <2>4
  <2> QED BY <2>1, <2>2, <2>5
<1>11. /\ \A i : Offset(i)' = Offset(i) /\ Frame(sent[i])' = Frame(sent[i])
       /\ \A i : Unambiguous(sent[i])' <=> Unambiguous(sent[i])
       /\ FrameMax' = FrameMax
  <2>1. \A x : Frame(x)' = Frame(x) /\ (FrameEnd(x)' <=> FrameEnd(x))
    BY <1>1 DEF Frame, LegacyFrame, FrameEnd, FrameLen
  <2>2. \A i : Frame(sent[i])' = Frame(sent[i]) BY <1>1 DEF Frame, LegacyFrame
  <2>3. \A i : Offset(i)' = Offset(i) BY <1>1 DEF Offset, Frame, LegacyFrame
  <2>4. \A i : Unambiguous(sent[i])' <=> Unambiguous(sent[i])
    BY <1>1 DEF Unambiguous, Frame, LegacyFrame, FrameEnd, FrameLen
  <2> QED BY <1>1, <2>2, <2>3, <2>4 DEF FrameMax
<1>12. ASSUME Sure(r + n)'
       PROVE  \E k \in 0..Len(sent) :
                 /\ s = Offset(k) /\ k < Len(sent) /\ Len(b) <= Len(Frame(sent[k + 1]))
                 /\ FrameEnd(b) <=> Len(b) = Len(Frame(sent[k + 1]))
  <2>1. Sure(r + n) BY <1>1, <1>11, <1>12 DEF Sure
  <2>2. Sure(r) BY <1>5, <2>1, SureSoFar
  <2>3. PICK k \in 0..Len(sent) : InStep(s, k) BY <1>3, <2>2
  <2>4. /\ k < Len(sent) /\ Len(b) <= Len(Frame(sent[k + 1]))
        /\ FrameEnd(b) <=> Len(b) = Len(Frame(sent[k + 1]))
    <3>1. Carries(buf, s) /\ r = s + Len(buf) BY <1>3 DEF Buffered
    <3>2. codec = "Legacy" /\ \A m \in Stops : n <= m BY <1>1, <1>2
    <3>3. Len(b) = Len(buf) + n /\ Carries(b, s) /\ n \in 1..Len(stream) BY <1>4, <1>10
    <3>4. InStep(s, k) /\ Sure(r + n) /\ Types /\ Wire(r) BY <2>1, <2>3
    <3>5. r \in Nat /\ s \in Nat /\ b \in Seq(Byte) /\ k \in 0..Len(sent) OBVIOUS
    <3> QED BY ONLY <3>1, <3>2, <3>3, <3>4, <3>5, ChunkInStep
  <2> QED BY <2>3, <2>4 DEF InStep
<1>13. need = None BY <1>3 DEF Buffered
<1>14. CASE FrameEnd(b)
  <2>1. /\ buf' = <<>> /\ status' = "reading"
        /\ decoded' = IF FrameLen(b) = 0 THEN decoded ELSE Append(decoded, First(b, FrameLen(b)))
    BY <1>1, <1>2, <1>9, <1>14 DEF bytes
  <2>2. FrameLen(b) \in 0..Len(b) BY <1>5, <1>10, <1>14 DEF FrameEnd, FrameLen
  <2>3. First(b, FrameLen(b)) \in Seq(Byte) BY <2>2, Cutting
  <2>4. decoded' \in Seq(Seq(Byte)) BY <1>5, <2>1, <2>3
  <2>5. Types' BY <1>1, <1>7, <2>1, <2>4 DEF Types, CodecTypes, Payload
  <2>6. Carries(buf, r + n)' BY <2>1 DEF Carries
  <2>7. ASSUME NEW k \in 0..Len(sent), r + n = Offset(k)
        PROVE  decoded' = NonEmpty(First(sent, k))
    <3>1. k # 0
      <4>1. Offset(0) = 0 BY PositionsHold DEF Positions
      <4> QED BY <1>5, <2>7, <4>1
    <3>2. k \in 1..Len(sent) /\ k - 1 \in 0..Len(sent) BY <1>5, <3>1
    <3>3. s = Offset(k - 1) /\ FrameLen(b) = Len(sent[k]) /\ First(b, FrameLen(b)) = sent[k]
      BY <1>1, <1>10, <1>14, <2>7, <3>2, Trailer
    <3>4. decoded = NonEmpty(First(sent, k - 1)) BY <1>3, <3>2, <3>3 DEF Buffered
    <3>5. sent[k] \in Seq(Byte)
      BY <3>2, FramesAreBytes, PayloadFacts DEF SentTypes, Types, CodecTypes
    <3>6. FrameLen(b) = 0 <=> sent[k] = <<>> BY <3>3, <3>5
    <3>7. \A i \in 1..Len(sent) : sent[i] \in Seq(Byte)
      BY FramesAreBytes, PayloadFacts DEF SentTypes, Types, CodecTypes
    <3>8. NonEmpty(First(sent, k)) = IF sent[k] = <<>> THEN NonEmpty(First(sent, k - 1))
                                     ELSE Append(NonEmpty(First(sent, k - 1)), sent[k])
      BY <1>5, <3>2, NonEmptys
    <3> QED BY <2>1, <3>3, <3>4, <3>6, <3>8
  <2>8. Buffered(r + n)' BY <1>1, <1>11, <1>13, <2>6, <2>7 DEF Buffered
  <2>9. ASSUME Sure(r + n)' PROVE \E k \in 0..Len(sent') : InStep(r + n, k)'
    <3>1. PICK k \in 0..Len(sent) :
             /\ s = Offset(k) /\ k < Len(sent) /\ Len(b) = Len(Frame(sent[k + 1]))
      BY <1>12, <1>14, <2>9
    <3>2. k + 1 \in 0..Len(sent) /\ k + 1 \in 1..Len(sent) /\ (k + 1) - 1 = k BY <1>5, <3>1
    <3>3. Offset(k + 1) = Offset(k) + Len(Frame(sent[k + 1])) BY <3>2, PositionsHold DEF Positions
    <3>4. r + n = Offset(k + 1) BY <1>10, <3>1, <3>3
    <3>5. k + 1 < Len(sent) => Len(Frame(sent[(k + 1) + 1])) > 0
      <4>1. k + 1 < Len(sent) => (k + 1) + 1 \in 1..Len(sent) BY <1>5, <3>1
      <4> QED BY <4>1, FramesAreBytes DEF SentTypes
    <3>6. InStep(r + n, k + 1)' BY <1>1, <1>11, <2>1, <3>4, <3>5 DEF InStep
    <3> QED BY <1>1, <3>2, <3>6
  <2>10. Outcome'
    <3>1. FrameMax \in Nat BY <1>5, SizesAreNat DEF FrameMax
    <3>2. Len(buf') = 0 BY <2>1
    <3> QED BY <1>11, <2>1, <3>1, <3>2 DEF Outcome
  <2>11. r + n = (r + n) + Len(buf') BY <1>10, <2>1
  <2>12. Trailed(r + n)' BY <1>10, <2>8, <2>9, <2>10, <2>11 DEF Trailed
  <2> QED BY <1>7, <1>10, <2>5, <2>12
<1>15. CASE ~FrameEnd(b)
  <2>1. /\ buf' = b /\ decoded' = decoded
        /\ status' = IF Len(b) > FrameMax THEN "CorruptFrame" ELSE "reading"
    BY <1>1, <1>2, <1>9, <1>15 DEF bytes
  <2>2. Types' BY <1>1, <1>5, <1>7, <2>1 DEF Types, CodecTypes, Payload
  <2>3. Carries(buf, s)' BY <1>1, <1>10, <1>11, <2>1 DEF Carries
  <2>4. Buffered(s)' BY <1>1, <1>3, <1>11, <1>13, <2>1, <2>3 DEF Buffered
  <2>5. ASSUME Sure(r + n)' PROVE \E k \in 0..Len(sent') : InStep(s, k)'
    <3>1. PICK k \in 0..Len(sent) :
             /\ s = Offset(k) /\ k < Len(sent) /\ Len(b) <= Len(Frame(sent[k + 1]))
             /\ Len(b) # Len(Frame(sent[k + 1]))
      BY <1>12, <1>15, <2>5
    <3>2. Len(Frame(sent[k + 1])) \in Nat
      <4>1. k + 1 \in 1..Len(sent) BY <1>5, <3>1
      <4>2. Frame(sent[k + 1]) \in Seq(Byte) BY <4>1, FramesAreBytes DEF SentTypes
      <4> QED BY <4>2
    <3>3. Len(b) < Len(Frame(sent[k + 1])) BY <1>10, <3>1, <3>2
    <3>4. InStep(s, k)' BY <1>1, <1>11, <2>1, <3>1, <3>3 DEF InStep
    <3> QED BY <1>1, <3>4
  <2>6. Outcome'
    <3>1. FrameMax \in Nat BY <1>5, SizesAreNat DEF FrameMax
    <3> QED BY <1>10, <1>11, <2>1, <3>1 DEF Outcome
  <2>7. Trailed(r + n)' BY <1>10, <2>1, <2>4, <2>5, <2>6 DEF Trailed
  <2> QED BY <1>7, <1>10, <2>2, <2>7
<1> QED BY <1>14, <1>15

LEMMA TrailedEnd ==
    ASSUME Types, NEW r \in Nat, Wire(r), Trailed(r), ReadChunkEnd
    PROVE  Types' /\ \E x \in Nat : Wire(x)' /\ Trailed(x)'
<1>1. /\ codec = "Legacy" /\ status = "reading" /\ ~open /\ Stops = {}
      /\ stream' = <<>> /\ buf' = buf \o stream
      /\ status' = IF Len(buf') > FrameMax THEN "CorruptFrame"
                   ELSE IF buf' = <<>> THEN "EOF" ELSE "UnexpectedEOF"
      /\ codec' = codec /\ delim' = delim /\ sent' = sent /\ open' = open /\ cut' = cut
      /\ need' = need /\ decoded' = decoded
  BY DEF ReadChunkEnd, Readable
<1>2. PICK s \in Nat : /\ r = s + Len(buf) /\ Buffered(s)
                       /\ Sure(r) => \E k \in 0..Len(sent) : InStep(s, k)
  BY <1>1 DEF Trailed
<1>3. /\ stream \in Seq(Byte) /\ buf \in Seq(Byte) /\ Len(sent) \in Nat /\ delim \in Seq(Byte)
      /\ sent \in Seq(Payload)
  BY DEF Types, CodecTypes
<1>4. PICK n \in Nat : n = Len(stream) BY <1>3
<1>5. PICK b \in Seq(Byte) : b = buf \o stream
  <2>1. buf \o stream \in Seq(Byte) BY <1>3, TwoParts
  <2> QED BY <2>1
<1>6. n \in 0..Len(stream) BY <1>4
<1>7. First(stream, n) = stream BY <1>3, <1>4 DEF First
<1>8. stream' = After(stream, n)
  <2> DEFINE a == After(stream, n)
  <2>1. a \in Seq(Byte) /\ Len(a) = Len(stream) - n BY <1>3, <1>6, Cutting
  <2> HIDE DEF a
  <2>2. Len(a) = 0 BY <1>4, <2>1
  <2>3. a = <<>> BY <2>1, <2>2
  <2> QED BY <1>1, <2>3 DEF a
<1>9. Wire(r + n)' BY <1>1, <1>6, <1>8, WireRead
<1>10. Len(b) = Len(buf) + n /\ Carries(b, s)
  <2>1. Carries(buf, s) /\ Wire(s + Len(buf)) BY <1>2 DEF Buffered
  <2>2. Len(buf \o First(stream, n)) = Len(buf) + n /\ Carries(buf \o First(stream, n), s)
    BY <1>6, <2>1, ReadBytes
  <2> QED BY <1>5, <1>7, <2>2
<1>11. r + n = s + Len(b) /\ r + n \in Nat /\ Len(b) \in Nat
  <2>1. Len(buf) \in Nat BY <1>3
  <2>2. r = s + Len(buf) /\ Len(b) = Len(buf) + n BY <1>2, <1>10
  <2> QED BY <2>1, <2>2
<1>12. /\ \A i : Offset(i)' = Offset(i) /\ Frame(sent[i])' = Frame(sent[i])
       /\ \A i : Unambiguous(sent[i])' <=> Unambiguous(sent[i])
       /\ FrameMax' = FrameMax
  <2>1. \A i : Frame(sent[i])' = Frame(sent[i]) BY <1>1 DEF Frame, LegacyFrame
  <2>2. \A i : Offset(i)' = Offset(i) BY <1>1 DEF Offset, Frame, LegacyFrame
  <2>3. \A i : Unambiguous(sent[i])' <=> Unambiguous(sent[i])
    BY <1>1 DEF Unambiguous, Frame, LegacyFrame, FrameEnd, FrameLen
  <2> QED BY <1>1, <2>1, <2>2, <2>3 DEF FrameMax
<1>13. Types'
  <2>1. buf' \in Seq(Byte) /\ stream' \in Seq(Byte) BY <1>1, <1>5
  <2>2. status' \in {"EOF", "UnexpectedEOF", "CorruptFrame"} BY <1>1
  <2> QED BY <1>1, <2>1, <2>2 DEF Types, CodecTypes, Payload
<1>14. Buffered(s)'
  <2>1. buf' = b /\ sent' = sent BY <1>1, <1>5
  <2>2. Carries(b, s) BY <1>10
  <2>3. \A i : Offset(i)' = Offset(i) /\ Frame(sent[i])' = Frame(sent[i]) BY <1>12
  <2>4. Carries(buf, s)' BY <2>1, <2>2, <2>3 DEF Carries
  <2> QED BY <1>1, <1>2, <1>12, <2>4 DEF Buffered
<1>15. ASSUME Sure(r + n)' PROVE \E k \in 0..Len(sent') : InStep(s, k)'
  <2>1. Sure(r + n) BY <1>1, <1>12, <1>15 DEF Sure
  <2>2. Sure(r) BY <2>1, SureSoFar
  <2>3. PICK k \in 0..Len(sent) : InStep(s, k) BY <1>2, <2>2
  <2>4. ASSUME k < Len(sent) PROVE Len(b) < Len(Frame(sent[k + 1]))
    <3>1. k \in Nat /\ Wire(s + Len(buf)) /\ \A m \in 1..n : m \notin Stops BY <1>1, <1>2, <1>3
    <3>2. Len(buf) + n < Len(Frame(sent[k + 1])) BY <1>1, <1>6, <2>3, <2>4, <3>1, NoOvershoot
    <3> QED BY <1>10, <3>2
  <2>5. ASSUME k = Len(sent) PROVE buf' = <<>>
    <3>1. buf = <<>> /\ s = Offset(k) BY <2>3, <2>5 DEF InStep
    <3>2. s + n <= s BY <1>2, <1>4, <2>5, <3>1 DEF Wire
    <3>3. stream = <<>> BY <1>3, <1>4, <3>2
    <3> QED BY <1>1, <3>1, <3>3
  <2>6. InStep(s, k)' BY <1>1, <1>5, <1>12, <2>3, <2>4, <2>5 DEF InStep
  <2> QED BY <1>1, <2>6
<1>16. Outcome'
  <2>1. FrameMax \in Nat BY <1>3, SizesAreNat DEF FrameMax
  <2>2. Len(<<>>) = 0 /\ ~(0 > FrameMax) BY <2>1
  <2> QED BY <1>1, <1>12, <2>2 DEF Outcome
<1>17. r + n = s + Len(buf') BY <1>1, <1>5, <1>11
<1>18. Trailed(r + n)' BY <1>14, <1>15, <1>16, <1>17 DEF Trailed
<1> QED BY <1>9, <1>11, <1>13, <1>18

LEMMA TrailedWrite ==
    ASSUME Types, NEW r \in Nat, Wire(r), Trailed(r), NEW payload \in Payload, Write(payload)
    PROVE  Trailed(r)'
<1> SUFFICES ASSUME codec = "Legacy" PROVE Trailed(r)' BY DEF Trailed, Write
<1>1. /\ codec' = codec /\ delim' = delim /\ buf' = buf /\ decoded' = decoded /\ need' = need
      /\ open /\ open' = open /\ status' = status /\ sent' = Append(sent, payload)
  BY DEF Write
<1>2. PICK s \in Nat : /\ r = s + Len(buf) /\ Buffered(s)
                       /\ Sure(r) => \E k \in 0..Len(sent) : InStep(s, k)
  BY DEF Trailed
<1>3. PICK n \in Nat : n = Len(sent) BY DEF Types
<1>4. /\ sent \in Seq(Payload) /\ buf \in Seq(Byte) /\ delim \in Seq(Byte) /\ decoded \in Seq(Seq(Byte))
      /\ Len(stream) \in Nat
  BY DEF Types, CodecTypes
<1>5. Len(sent') = n + 1 /\ \A k \in 1..n : sent'[k] = sent[k] BY <1>1, <1>3, <1>4
<1>6. Types' BY WriteTypes
<1>7. Positions /\ Positions' /\ SentTypes /\ SentTypes'
  BY <1>6, PositionsHold, FramesAreBytes, PTL
<1>8. \A i \in 0..n : Offset(i)' = Offset(i) BY <1>3, WireWrite
<1>9. \A i \in 1..n : Frame(sent[i])' = Frame(sent[i]) /\ (Unambiguous(sent[i])' <=> Unambiguous(sent[i]))
  <2> SUFFICES ASSUME NEW i \in 1..n
               PROVE  /\ Frame(sent[i])' = Frame(sent[i])
                      /\ Unambiguous(sent[i])' <=> Unambiguous(sent[i])
    OBVIOUS
  <2>1. sent'[i] = sent[i] /\ codec' = codec /\ delim' = delim BY <1>1, <1>5
  <2> QED BY <2>1 DEF Unambiguous, Frame, LegacyFrame, FrameEnd, FrameLen
<1>10. r <= Offset(n) /\ Offset(n) \in Nat
  <2>1. n \in 0..Len(sent) BY <1>3
  <2>2. Offset(n) \in Nat BY <1>7, <2>1 DEF Positions
  <2>3. r + Len(stream) <= Offset(n) BY <1>3 DEF Wire
  <2> QED BY <1>4, <2>2, <2>3
<1>11. Offset(n)' < Offset(n + 1)'
  <2>1. n \in 0..Len(sent') /\ n + 1 \in 0..Len(sent') /\ n < n + 1 BY <1>5
  <2>2. \A i, j \in 0..Len(sent') : i < j => Offset(i)' < Offset(j)' BY <1>3, <1>7 DEF Positions
  <2> QED BY <2>1, <2>2
<1>12. Carries(buf, s)'
  <2>1. ASSUME NEW j \in 1..(n + 1), NEW p \in 1..Len(Frame(sent[j])'),
               Offset(j - 1)' + p - s \in 1..Len(buf)
        PROVE  buf[Offset(j - 1)' + p - s] = (Frame(sent[j])')[p]
    <3>1. CASE j = n + 1
      <4>1. Offset(j - 1)' = Offset(n)
        <5>1. j - 1 = n /\ n \in 0..n BY <3>1
        <5> QED BY <1>8, <5>1
      <4>2. p \in Nat /\ p > 0
        <5>1. j \in 1..Len(sent') BY <1>5
        <5>2. Frame(sent[j])' \in Seq(Byte) BY <1>3, <1>7, <5>1 DEF SentTypes
        <5> QED BY <5>2
      <4>3. r = s + Len(buf) /\ Len(buf) \in Nat BY <1>2, <1>4
      <4>4. Offset(n) + p - s <= Len(buf) BY <2>1, <4>1
      <4> QED BY <1>10, <4>2, <4>3, <4>4
    <3>2. CASE j \in 1..n
      <4>1. Offset(j - 1)' = Offset(j - 1)
        <5>1. j - 1 \in 0..n BY <3>2
        <5> QED BY <1>8, <5>1
      <4>2. Frame(sent[j])' = Frame(sent[j]) BY <1>9, <3>2
      <4> QED BY <1>2, <1>3, <2>1, <3>2, <4>1, <4>2 DEF Buffered, Carries
    <3> QED BY <3>1, <3>2
  <2> QED BY <1>1, <1>5, <2>1 DEF Carries
<1>13. ASSUME NEW k \in 0..(n + 1), s = Offset(k)'
       PROVE  decoded = NonEmpty(First(sent', k)) /\ k \in 0..n
  <2>1. k \in 0..n
    <3> SUFFICES ASSUME k = n + 1 PROVE FALSE OBVIOUS
    <3>1. Offset(n)' = Offset(n)
      <4>1. n \in 0..n OBVIOUS
      <4> QED BY <1>8, <4>1
    <3>2. Len(buf) \in Nat /\ r = s + Len(buf) BY <1>2, <1>4
    <3>3. Offset(n) < s BY <1>11, <1>13, <3>1
    <3> QED BY <1>10, <3>2, <3>3
  <2>2. s = Offset(k) BY <1>8, <1>13, <2>1
  <2>3. First(sent', k) = First(sent, k)
    <3>1. k \in 0..Len(sent) /\ sent' \in Seq(Payload') /\ k \in 0..Len(sent')
      BY <1>3, <1>5, <1>6, <2>1 DEF Types
    <3>2. Payload' = Payload BY WriteTypes
    <3>3. /\ First(sent, k) \in Seq(Payload) /\ Len(First(sent, k)) = k
          /\ \A i \in 1..k : First(sent, k)[i] = sent[i]
      BY <1>4, <3>1, Cutting
    <3>4. /\ First(sent', k) \in Seq(Payload) /\ Len(First(sent', k)) = k
          /\ \A i \in 1..k : First(sent', k)[i] = sent'[i]
      BY <3>1, <3>2, Cutting
    <3>5. \A i \in 1..k : i \in 1..n BY <2>1
    <3> DEFINE x == First(sent, k)
               y == First(sent', k)
    <3>6. x \in Seq(Payload) /\ y \in Seq(Payload) /\ Len(x) = Len(y)
          /\ \A i \in 1..Len(x) : x[i] = y[i]
      BY <1>5, <3>3, <3>4, <3>5
    <3> HIDE DEF x, y
    <3>7. x = y BY <3>6
    <3> QED BY <3>7 DEF x, y
  <2> QED BY <1>2, <1>3, <2>1, <2>2, <2>3 DEF Buffered
<1>14. Buffered(s)'
  <2>1. need' = None BY <1>1, <1>2 DEF Buffered
  <2> QED BY <1>1, <1>5, <1>12, <1>13, <2>1 DEF Buffered
<1>15. ASSUME Sure(r)' PROVE \E k \in 0..Len(sent') : InStep(s, k)'
  <2>1. Sure(r)
    <3>1. \A j \in 1..n : j \in 1..Len(sent') /\ j - 1 \in 0..n BY <1>5
    <3> QED BY <1>3, <1>8, <1>9, <1>15, <3>1 DEF Sure
  <2>2. PICK k \in 0..n : InStep(s, k) BY <1>2, <1>3, <2>1
  <2>3. s = Offset(k)' BY <1>8, <2>2 DEF InStep
  <2>4. CASE k = n
    <3>1. buf = <<>> BY <1>3, <2>2, <2>4 DEF InStep
    <3>2. Len(buf) = 0 BY <3>1
    <3>3. Len(Frame(sent[k + 1])') > 0
      <4>1. k + 1 \in 1..Len(sent') BY <1>5, <2>4
      <4> QED BY <1>3, <1>7, <4>1 DEF SentTypes
    <3> QED BY <1>1, <1>5, <2>3, <2>4, <3>1, <3>2, <3>3 DEF InStep
  <2>5. CASE k < n
    <3>1. k + 1 \in 1..n BY <2>5
    <3>2. Frame(sent[k + 1])' = Frame(sent[k + 1]) BY <1>9, <3>1
    <3>3. Len(buf) < Len(Frame(sent[k + 1])) BY <1>3, <2>2, <2>5 DEF InStep
    <3>4. k \in 0..Len(sent') /\ k < Len(sent') BY <1>5, <2>5
    <3> QED BY <1>1, <2>3, <3>2, <3>3, <3>4 DEF InStep
  <2> QED BY <2>4, <2>5
<1>16. Outcome' BY <1>1 DEF Outcome, Trailed, FrameMax
<1>17. r = s + Len(buf') BY <1>1, <1>2
<1> QED BY <1>14, <1>15, <1>16, <1>17 DEF Trailed

LEMMA TrailedClose ==
    ASSUME Types, NEW r \in Nat, Wire(r), Trailed(r), CloseStream
    PROVE  Trailed(r)'
<1> SUFFICES ASSUME codec = "Legacy" PROVE Trailed(r)' BY DEF Trailed, CloseStream
<1>1. /\ codec' = codec /\ delim' = delim /\ buf' = buf /\ decoded' = decoded /\ need' = need
      /\ open /\ status' = status
  BY DEF CloseStream
<1>2. PICK s \in Nat : /\ r = s + Len(buf) /\ Buffered(s)
                       /\ Sure(r) => \E k \in 0..Len(sent) : InStep(s, k)
  BY DEF Trailed
<1>3. PICK m \in 0..Len(sent) :
        /\ sent' = First(sent, m) /\ Len(sent') = m /\ r <= Offset(m)
        /\ \A k \in 1..m : sent'[k] = sent[k] /\ Frame(sent[k])' = Frame(sent[k])
        /\ \A k \in 0..m : Offset(k)' = Offset(k)
  BY WireClose
<1>4. /\ sent \in Seq(Payload) /\ Len(sent) \in Nat /\ m \in Nat /\ m <= Len(sent)
      /\ buf \in Seq(Byte) /\ Len(buf) \in Nat
  BY DEF Types
<1>5. Positions BY PositionsHold
<1>6. \A j \in 1..m : Offset(j - 1)' = Offset(j - 1) /\ Frame(sent[j])' = Frame(sent[j])
  <2>1. \A j \in 1..m : j - 1 \in 0..m BY <1>4
  <2> QED BY <1>3, <2>1
<1>7. \A j \in 1..m : j \in 1..Len(sent) BY <1>4
<1>8. Carries(buf, s)'
  <2>1. Carries(buf, s) BY <1>2 DEF Buffered
  <2>2. buf' = buf /\ Len(sent') = m BY <1>1, <1>3
  <2> QED BY <1>6, <1>7, <2>1, <2>2 DEF Carries
<1>9. ASSUME NEW k \in 0..m, s = Offset(k)'
      PROVE  decoded = NonEmpty(First(sent', k))
  <2>1. k \in 0..Len(sent) /\ s = Offset(k) BY <1>3, <1>4, <1>9
  <2>2. First(sent', k) = First(sent, k)
    <3>1. /\ First(sent, k) \in Seq(Payload) /\ Len(First(sent, k)) = k
          /\ \A i \in 1..k : First(sent, k)[i] = sent[i]
      BY <1>4, <2>1, Cutting
    <3>2. sent' \in Seq(Payload) BY <1>3, <1>4, Cutting
    <3>3. k \in 0..Len(sent') BY <1>3
    <3>4. /\ First(sent', k) \in Seq(Payload) /\ Len(First(sent', k)) = k
          /\ \A i \in 1..k : First(sent', k)[i] = sent'[i]
      BY <3>2, <3>3, Cutting
    <3>5. \A i \in 1..k : i \in 1..m BY <1>4
    <3>6. \A i \in 1..k : sent'[i] = sent[i] BY <1>3, <3>5
    <3> DEFINE x == First(sent, k)
               y == First(sent', k)
    <3>7. x \in Seq(Payload) /\ y \in Seq(Payload) /\ Len(x) = Len(y)
          /\ \A i \in 1..Len(x) : x[i] = y[i]
      BY <3>1, <3>4, <3>6
    <3> HIDE DEF x, y
    <3>8. x = y BY <3>7
    <3> QED BY <3>8 DEF x, y
  <2> QED BY <1>2, <2>1, <2>2 DEF Buffered
<1>10. Buffered(s)'
  <2>1. need' = None BY <1>1, <1>2 DEF Buffered
  <2> QED BY <1>1, <1>3, <1>8, <1>9, <2>1 DEF Buffered
<1>11. ASSUME Sure(r)' PROVE \E k \in 0..Len(sent') : InStep(s, k)'
  <2>1. \A j \in 1..m : Unambiguous(sent[j])' <=> Unambiguous(sent[j])
    <3> SUFFICES ASSUME NEW j \in 1..m PROVE Unambiguous(sent[j])' <=> Unambiguous(sent[j])
      OBVIOUS
    <3>1. sent'[j] = sent[j] /\ codec' = codec /\ delim' = delim BY <1>1, <1>3
    <3> QED BY <3>1 DEF Unambiguous, Frame, LegacyFrame, FrameEnd, FrameLen
  <2>2. ASSUME NEW j \in 1..Len(sent), Offset(j - 1) < r PROVE j \in 1..m
    <3> SUFFICES ASSUME j - 1 >= m PROVE FALSE BY <1>4
    <3>1. j - 1 \in 0..Len(sent) /\ m \in 0..Len(sent) /\ (m < j - 1 \/ m = j - 1) BY <1>4
    <3>2. Offset(j - 1) \in Nat /\ Offset(m) \in Nat BY <1>5, <3>1 DEF Positions
    <3>3. m < j - 1 => Offset(m) < Offset(j - 1) BY <1>5, <3>1 DEF Positions
    <3>4. Offset(m) <= Offset(j - 1) BY <3>1, <3>2, <3>3
    <3>5. r <= Offset(m) BY <1>3
    <3> QED BY <2>2, <3>2, <3>4, <3>5
  <2>3. Sure(r) BY <1>3, <1>6, <1>11, <2>1, <2>2 DEF Sure
  <2>4. PICK k \in 0..Len(sent) : InStep(s, k) BY <1>2, <2>3
  <2>5. s = Offset(k) BY <2>4 DEF InStep
  <2>6. Offset(k) \in Nat /\ Offset(m) \in Nat /\ (m < k => Offset(m) < Offset(k))
    <3>1. m \in 0..Len(sent) BY <1>4
    <3> QED BY <1>5, <3>1 DEF Positions
  <2>7. s + Len(buf) <= Offset(m) BY <1>2, <1>3
  <2>8. k <= m BY <1>4, <2>5, <2>6, <2>7
  <2>9. k \in 0..m /\ s = Offset(k)' BY <1>3, <1>4, <2>5, <2>8
  <2>10. CASE k = m
    <3>1. Len(buf) = 0 BY <1>4, <2>5, <2>6, <2>7, <2>10
    <3>2. buf = <<>> BY <1>4, <3>1
    <3> QED BY <1>1, <1>3, <2>9, <2>10, <3>2 DEF InStep
  <2>11. CASE k < m
    <3>1. k + 1 \in 1..m /\ k < Len(sent) BY <1>4, <2>11
    <3>2. Len(buf) < Len(Frame(sent[k + 1])) BY <2>4, <3>1 DEF InStep
    <3>3. Frame(sent[k + 1])' = Frame(sent[k + 1]) BY <1>3, <3>1
    <3>4. k # m BY <1>4, <2>11
    <3> QED BY <1>1, <1>3, <2>9, <3>2, <3>3, <3>4 DEF InStep
  <2> QED BY <1>4, <2>8, <2>10, <2>11
<1>12. Outcome'
  <2>1. FrameMax' = FrameMax BY <1>1 DEF FrameMax
  <2>2. status \notin {"EOF", "UnexpectedEOF"} BY DEF Trailed, Outcome, CloseStream
  <2>3. Outcome BY DEF Trailed
  <2> QED BY <1>1, <2>1, <2>2, <2>3 DEF Outcome
<1>13. r = s + Len(buf') BY <1>1, <1>2
<1> QED BY <1>10, <1>11, <1>12, <1>13 DEF Trailed

-------------------------------------------------------------------------------
(* The invariant                                                           *)

FramingInv == Types /\ \E r \in Nat : Wire(r) /\ Headed(r) /\ Trailed(r)

LEMMA FramingInit == Init => FramingInv
<1> SUFFICES ASSUME Init PROVE FramingInv OBVIOUS
<1>1. /\ codec \in Codec /\ delim \in IF codec = "Legacy" THEN Delims ELSE {<<>>}
      /\ sent = <<>> /\ open = TRUE /\ cut = FALSE
      /\ stream = <<>> /\ buf = <<>> /\ need = None /\ decoded = <<>> /\ status = "reading"
  BY DEF Init
<1>2. CodecTypes
  <2>1. CASE codec = "Legacy" BY <1>1, <2>1, DelimAssumption DEF CodecTypes
  <2>2. CASE codec # "Legacy"
    <3>1. delim = <<>> BY <1>1, <2>2
    <3>2. delim \in Seq(Byte) BY <3>1
    <3> QED BY <1>1, <2>2, <3>1, <3>2 DEF CodecTypes
  <2> QED BY <2>1, <2>2
<1>3. Types
  <2>1. Len(sent) <= MaxSent /\ sent \in Seq(Payload) BY <1>1, SizesAreNat
  <2>2. stream \in Seq(Byte) /\ buf \in Seq(Byte) /\ decoded \in Seq(Seq(Byte)) BY <1>1
  <2> QED BY <1>1, <1>2, <2>1, <2>2 DEF Types
<1>4. Offset(0) = 0 BY <1>3, PositionsHold DEF Positions
<1>5. Len(sent) = 0 /\ Len(stream) = 0 /\ Len(buf) = 0 /\ Len(decoded) = 0 BY <1>1
<1>6. Wire(0)
  <2>1. Carries(stream, 0) BY <1>5 DEF Carries
  <2> QED BY <1>1, <1>4, <1>5, <2>1 DEF Wire
<1>7. Headed(0)
  <2>1. \A i \in 1..0 : FALSE OBVIOUS
  <2> QED BY <1>1, <1>4, <1>5, <2>1 DEF Headed, None
<1>8. Trailed(0)
  <2>1. Buffered(0)
    <3>1. Carries(buf, 0) BY <1>5 DEF Carries
    <3>2. decoded = NonEmpty(First(sent, 0))
      <4>1. sent \in Seq(Payload) BY <1>3 DEF Types
      <4> QED BY <1>1, <4>1, NonEmptys
    <3>3. \A k \in 0..Len(sent) : k = 0 BY <1>5
    <3> QED BY <1>1, <3>1, <3>2, <3>3 DEF Buffered
  <2>2. InStep(0, 0) /\ 0 \in 0..Len(sent) BY <1>1, <1>4, <1>5 DEF InStep
  <2>3. Outcome
    <3>1. Len(delim) \in Nat BY <1>2 DEF CodecTypes
    <3>2. FrameMax \in Nat BY <3>1, SizesAreNat DEF FrameMax
    <3> QED BY <1>1, <1>5, <3>2 DEF Outcome
  <2>4. 0 = 0 + Len(buf) BY <1>5
  <2> QED BY <2>1, <2>2, <2>3, <2>4 DEF Trailed
<1> QED BY <1>3, <1>6, <1>7, <1>8 DEF FramingInv

LEMMA FramingStep == FramingInv /\ [Next]_vars => FramingInv'
<1> SUFFICES ASSUME FramingInv, [Next]_vars PROVE FramingInv' OBVIOUS
<1>1. PICK r \in Nat : Wire(r) /\ Headed(r) /\ Trailed(r) BY DEF FramingInv
<1>2. Types BY DEF FramingInv
<1>3. ASSUME NEW payload \in Payload, Write(payload) PROVE FramingInv'
  <2>1. Types' /\ Wire(r)' BY <1>1, <1>2, <1>3, WriteTypes, WireWrite
  <2>2. Headed(r)' /\ Trailed(r)' BY <1>1, <1>2, <1>3, HeadedWrite, TrailedWrite
  <2> QED BY <2>1, <2>2 DEF FramingInv
<1>4. CASE CloseStream
  <2>1. Types' /\ Wire(r)' BY <1>1, <1>2, <1>4, WireClose
  <2>2. Headed(r)' /\ Trailed(r)' BY <1>1, <1>2, <1>4, HeadedClose, TrailedClose
  <2> QED BY <2>1, <2>2 DEF FramingInv
<1>5. CASE ReadChunk
  <2>1. PICK x \in Nat : Types' /\ Wire(x)' /\ Trailed(x)' BY <1>1, <1>2, <1>5, TrailedChunk
  <2>2. Headed(x)' BY <1>5 DEF ReadChunk, Headed
  <2> QED BY <2>1, <2>2 DEF FramingInv
<1>6. CASE ReadChunkEnd
  <2>1. PICK x \in Nat : Types' /\ Wire(x)' /\ Trailed(x)' BY <1>1, <1>2, <1>6, TrailedEnd
  <2>2. Headed(x)' BY <1>6 DEF ReadChunkEnd, Headed
  <2> QED BY <2>1, <2>2 DEF FramingInv
<1>7. CASE ReadHeader
  <2>1. PICK x \in Nat : Types' /\ Wire(x)' /\ Headed(x)' BY <1>1, <1>2, <1>7, HeadedReadHeader
  <2>2. Trailed(x)' BY <1>7 DEF ReadHeader, Trailed
  <2> QED BY <2>1, <2>2 DEF FramingInv
<1>8. CASE ReadPayload
  <2>1. PICK x \in Nat : Types' /\ Wire(x)' /\ Headed(x)' BY <1>1, <1>2, <1>8, HeadedReadPayload
  <2>2. Trailed(x)' BY <1>8 DEF ReadPayload, Trailed
  <2> QED BY <2>1, <2>2 DEF FramingInv
<1>9. CASE ReadFullEnd
  <2>1. Types' /\ Wire(r)' /\ Headed(r)' BY <1>1, <1>2, <1>9, HeadedEnd
  <2>2. Trailed(r)' BY <1>9 DEF ReadFullEnd, Trailed
  <2> QED BY <2>1, <2>2 DEF FramingInv
<1>10. CASE UNCHANGED vars
  <2>1. /\ codec' = codec /\ delim' = delim /\ sent' = sent /\ open' = open /\ cut' = cut
        /\ stream' = stream /\ buf' = buf /\ need' = need /\ decoded' = decoded
        /\ status' = status
    BY <1>10 DEF vars
  <2>2. Types' BY <1>2, <2>1 DEF Types, CodecTypes, Payload
  <2>3. /\ \A i : Offset(i)' = Offset(i) /\ Frame(sent[i])' = Frame(sent[i])
        /\ \A i : Header(sent[i])' = Header(sent[i])
        /\ FrameMax' = FrameMax
    BY <2>1 DEF Offset, Frame, LegacyFrame, Header, FrameMax
  <2>4. \A i : Unambiguous(sent[i])' <=> Unambiguous(sent[i])
    BY <2>1 DEF Unambiguous, Frame, LegacyFrame, FrameEnd, FrameLen
  <2>5. Wire(r)' BY <1>1, <2>1, <2>3 DEF Wire, Carries
  <2>6. Headed(r)' BY <1>1, <2>1, <2>3 DEF Headed
  <2>7. Trailed(r)'
    <3>1. \A s : Buffered(s)' <=> Buffered(s) BY <2>1, <2>3 DEF Buffered, Carries
    <3>2. \A s, k : InStep(s, k)' <=> InStep(s, k) BY <2>1, <2>3 DEF InStep
    <3>3. Sure(r)' <=> Sure(r) BY <2>1, <2>3, <2>4 DEF Sure
    <3>4. Outcome' <=> Outcome BY <2>1, <2>3 DEF Outcome
    <3> QED BY <1>1, <2>1, <3>1, <3>2, <3>3, <3>4 DEF Trailed
  <2> QED BY <2>2, <2>5, <2>6, <2>7 DEF FramingInv
<1> QED BY <1>3, <1>4, <1>5, <1>6, <1>7, <1>8, <1>9, <1>10 DEF Next

LEMMA FramingInvHolds == Spec => []FramingInv
BY FramingInit, FramingStep, PTL DEF Spec

-------------------------------------------------------------------------------
(* What follows                                                            *)

LEMMA SentBytes == Types => sent \in Seq(Payload) /\ \A i \in 1..Len(sent) : sent[i] \in Seq(Byte)
BY FramesAreBytes, PayloadFacts DEF SentTypes, Types, CodecTypes

\* The types and the bounds (framing.go): whatever the payloads and wherever the stream ends,
\* Legacy's readOne buffers no more than the longest frame before it gives up, and
\* readPayload waits for, allocates and returns no more than max.
THEOREM FramingTypes == Spec => []TypeOK
<1>1. ASSUME FramingInv PROVE TypeOK
  <2>1. Types BY <1>1 DEF FramingInv
  <2>2. PICK r \in Nat : Headed(r) /\ Trailed(r) BY <1>1 DEF FramingInv
  <2>3. codec \in Codec /\ delim \in Delims \cup {<<>>} /\ delim \in Seq(Byte)
    BY <2>1 DEF Types, CodecTypes
  <2>4. FrameMax \in Nat BY <2>3, SizesAreNat DEF FrameMax
  <2>5. decoded \in Seq(Seq(Byte)) BY <2>1 DEF Types
  <2>6. CASE codec = "Legacy"
    <3>1. need = None /\ (status = "reading" => Len(buf) <= FrameMax)
      BY <2>2, <2>6 DEF Trailed, Buffered, Outcome
    <3> QED BY <2>1, <2>3, <2>6, <3>1 DEF TypeOK, Types
  <2>7. CASE codec # "Legacy"
    <3>1. PICK k \in Nat : k = Len(decoded) BY <2>5
    <3>2. /\ buf = <<>> /\ k <= Len(sent) /\ \A i \in 1..k : Len(decoded[i]) <= Limit
          /\ need # None => k < Len(sent) /\ need = Len(sent[k + 1]) /\ need <= Limit
      BY <2>2, <2>7, <3>1 DEF Headed
    <3>3. need \in {None} \cup 0..Limit
      <4> SUFFICES ASSUME need # None PROVE need \in 0..Limit OBVIOUS
      <4>1. k + 1 \in 1..Len(sent)
        <5>1. Len(sent) \in Nat BY <2>1 DEF Types
        <5> QED BY <3>2, <5>1
      <4>2. sent[k + 1] \in Seq(Byte) BY <2>1, <4>1, SentBytes
      <4>3. Len(sent[k + 1]) \in Nat BY <4>2
      <4> QED BY <3>2, <4>3, SizesAreNat
    <3>4. Len(buf) <= FrameMax BY <2>4, <3>2
    <3>5. \A i \in DOMAIN decoded : Len(decoded[i]) <= Limit BY <2>5, <3>1, <3>2
    <3> QED BY <2>1, <2>3, <2>5, <3>3, <3>4, <3>5 DEF TypeOK, Types
  <2> QED BY <2>6, <2>7
<1> QED BY <1>1, FramingInvHolds, PTL

\* Legacy, and the decoder has met no payload that holds a frame of its own: it has read
\* the first k payloads and is inside the next.
LEMMA LegacyInStep ==
    ASSUME FramingInv, Sound, codec = "Legacy"
    PROVE  /\ Outcome
           /\ \E k \in 0..Len(sent) :
                /\ InStep(Offset(k), k) /\ Wire(Offset(k) + Len(buf))
                /\ decoded = NonEmpty(First(sent, k))
<1>1. PICK r \in Nat : Wire(r) /\ Trailed(r) BY DEF FramingInv
<1>2. Types BY DEF FramingInv
<1>3. sent \in Seq(Payload) BY <1>2 DEF Types
<1>4. Sure(r) BY <1>3 DEF Sound, Sure
<1>5. PICK s \in Nat : r = s + Len(buf) /\ Buffered(s) /\ \E k \in 0..Len(sent) : InStep(s, k)
  BY <1>1, <1>4 DEF Trailed
<1>6. PICK k \in 0..Len(sent) : InStep(s, k) BY <1>5
<1>7. s = Offset(k) BY <1>6 DEF InStep
<1>8. decoded = NonEmpty(First(sent, k)) BY <1>5, <1>7 DEF Buffered
<1>9. Outcome BY <1>1 DEF Trailed
<1> QED BY <1>1, <1>5, <1>6, <1>7, <1>8, <1>9

\* What Read returns is what Append was given (framing.go), in order and unchanged, for
\* every codec, all payload bytes and every way the stream is cut up: for Legacy as long as
\* no payload sent holds a frame of its own.  Only a payload over the limit is refused.
THEOREM ReadsBack == Spec => []RoundTrip
<1>1. ASSUME FramingInv PROVE RoundTrip
  <2> SUFFICES ASSUME Sound
               PROVE  /\ decoded = First(Expected, Len(decoded))
                      /\ status \in {"CorruptFrame", "FrameTooLarge"} =>
                            Len(Expected[Len(decoded) + 1]) > Limit
    BY DEF RoundTrip
  <2>1. Types BY <1>1 DEF FramingInv
  <2>2. sent \in Seq(Payload) /\ Len(sent) \in Nat /\ \A i \in 1..Len(sent) : sent[i] \in Seq(Byte)
    BY <2>1, SentBytes DEF Types
  <2>3. decoded \in Seq(Seq(Byte)) BY <2>1 DEF Types
  <2>4. CASE codec # "Legacy"
    <3>1. PICK r \in Nat : Headed(r) BY <1>1 DEF FramingInv
    <3>2. PICK k \in Nat : k = Len(decoded) BY <2>3
    <3>3. /\ k <= Len(sent) /\ \A i \in 1..k : decoded[i] = sent[i]
          /\ status # "CorruptFrame"
          /\ status = "FrameTooLarge" => Len(sent[k + 1]) > Limit
      BY <2>4, <3>1, <3>2 DEF Headed
    <3>4. Expected = sent BY <2>4 DEF Expected
    <3>5. decoded = First(sent, k)
      <4>1. k \in 0..Len(sent) BY <2>2, <3>3
      <4> DEFINE x == First(sent, k)
      <4>2. sent \in Seq(Seq(Byte)) BY <2>2
      <4>3. x \in Seq(Seq(Byte)) /\ Len(x) = k /\ \A i \in 1..k : x[i] = sent[i]
        BY <4>1, <4>2, Cutting
      <4> HIDE DEF x
      <4>4. Len(decoded) = Len(x) /\ \A i \in 1..Len(x) : decoded[i] = x[i] BY <3>2, <3>3, <4>3
      <4>5. decoded = x BY <2>3, <4>3, <4>4
      <4> QED BY <4>5 DEF x
    <3> QED BY <3>2, <3>3, <3>4, <3>5
  <2>5. CASE codec = "Legacy"
    <3>1. Outcome BY <1>1, <2>5, LegacyInStep
    <3>2. PICK k \in 0..Len(sent) : InStep(Offset(k), k) /\ decoded = NonEmpty(First(sent, k))
      BY <1>1, <2>5, LegacyInStep
    <3> DEFINE N(i) == NonEmpty(First(sent, i))
    <3>3. Expected = N(Len(sent)) BY <2>2, <2>5, NonEmptys DEF Expected
    <3>4. \A i \in 0..Len(sent) : N(i) \in Seq(Payload) BY <2>2, NonEmptys
    <3>5. \A i \in 0..Len(sent) :
             Len(N(i)) <= Len(N(Len(sent))) /\ \A x \in 1..Len(N(i)) : N(Len(sent))[x] = N(i)[x]
      <4> SUFFICES ASSUME NEW i \in 0..Len(sent)
                   PROVE  /\ Len(N(i)) <= Len(N(Len(sent)))
                          /\ \A x \in 1..Len(N(i)) : N(Len(sent))[x] = N(i)[x]
        OBVIOUS
      <4>1. Len(sent) \in i..Len(sent) BY <2>2
      <4> QED BY <2>2, <4>1, NonEmptyGrows
    <3>6. decoded = N(k) BY <3>2
    <3>7. k < Len(sent) => N(k + 1) = IF sent[k + 1] = <<>> THEN N(k) ELSE Append(N(k), sent[k + 1])
      <4> SUFFICES ASSUME k < Len(sent)
                   PROVE  N(k + 1) = IF sent[k + 1] = <<>> THEN N(k) ELSE Append(N(k), sent[k + 1])
        OBVIOUS
      <4>1. k + 1 \in 1..Len(sent) /\ (k + 1) - 1 = k BY <2>2
      <4> QED BY <2>2, <4>1, NonEmptys
    <3> HIDE DEF N
    <3>8. decoded = First(Expected, Len(decoded))
      <4>1. PICK e \in Seq(Payload) : e = Expected BY <2>2, <3>3, <3>4
      <4>2. PICK d \in Seq(Payload) : d = decoded BY <3>4, <3>6
      <4>3. Len(d) \in 0..Len(e) /\ \A x \in 1..Len(d) : e[x] = d[x]
        BY <3>3, <3>5, <3>6, <4>1, <4>2
      <4> DEFINE f == First(e, Len(d))
      <4>4. f \in Seq(Payload) /\ Len(f) = Len(d) /\ \A i \in 1..Len(d) : f[i] = e[i]
        BY <4>3, Cutting
      <4> HIDE DEF f
      <4>5. f = d BY <4>3, <4>4
      <4> QED BY <4>1, <4>2, <4>5 DEF f
    <3>9. ASSUME status \in {"CorruptFrame", "FrameTooLarge"}
          PROVE  Len(Expected[Len(decoded) + 1]) > Limit
      <4>1. Len(buf) > FrameMax BY <3>1, <3>9 DEF Outcome
      <4>2. delim \in Seq(Byte) /\ buf \in Seq(Byte) BY <2>1 DEF Types, CodecTypes
      <4>3. k < Len(sent)
        <5> SUFFICES ASSUME k = Len(sent) PROVE FALSE BY <2>2
        <5>1. Len(buf) = 0 BY <3>2 DEF InStep
        <5> QED BY <4>1, <4>2, <5>1, SizesAreNat DEF FrameMax
      <4>4. Len(buf) < Len(Frame(sent[k + 1])) BY <3>2, <4>3 DEF InStep
      <4>5. k + 1 \in 1..Len(sent) /\ k + 1 \in 0..Len(sent) BY <2>2, <4>3
      <4>6. PICK p \in Payload : p = sent[k + 1] BY <2>2, <4>5
      <4>7. p \in Seq(Byte) /\ Len(p) \in 0..MaxPayload
        BY <2>1, PayloadFacts DEF Types, CodecTypes
      <4>8. Len(Frame(p)) = Len(p) + 2 + Len(delim) BY <2>1, <2>5, FrameParts DEF Types
      <4>9. Len(p) > Limit
        <5> DEFINE d == Len(delim)
                   b == Len(buf)
                   n == Len(p)
        <5>1. d \in Nat /\ b \in Nat /\ n \in Nat /\ n <= MaxPayload BY <4>2, <4>7, SizesAreNat
        <5>2. b < n + 2 + d /\ b > (IF Limit < MaxUint16 THEN Limit ELSE MaxUint16) + 2 + d
          BY <4>1, <4>4, <4>6, <4>8 DEF FrameMax
        <5> HIDE DEF d, b, n
        <5>3. n > Limit BY <5>1, <5>2, SizesAreNat
        <5> QED BY <5>3 DEF n
      <4>10. p # <<>> BY <4>9, SizesAreNat
      <4>11. N(k + 1) = Append(N(k), p) BY <3>7, <4>3, <4>6, <4>10
      <4>12. N(k) \in Seq(Payload) BY <3>4
      <4>13. Len(N(k + 1)) = Len(N(k)) + 1 /\ N(k + 1)[Len(N(k)) + 1] = p BY <4>11, <4>12
      <4>14. Len(N(k)) + 1 \in 1..Len(N(k + 1)) BY <4>12, <4>13
      <4>15. N(Len(sent))[Len(N(k)) + 1] = p BY <3>5, <4>5, <4>13, <4>14
      <4> QED BY <3>3, <3>6, <4>9, <4>15
    <3> QED BY <3>8, <3>9
  <2> QED BY <2>4, <2>5
<1> QED BY <1>1, FramingInvHolds, PTL

\* io.EOF and io.ErrUnexpectedEOF (framing.go:180): the decoder tells a stream that ended
\* between two frames from one that was cut, wherever in a frame.
THEOREM EndsTold == Spec => []CleanEnd
<1>1. ASSUME FramingInv PROVE CleanEnd
  <2> SUFFICES ASSUME status \in {"EOF", "UnexpectedEOF"}, Sound
               PROVE  cut <=> status = "UnexpectedEOF"
    BY DEF CleanEnd
  <2>1. Types BY <1>1 DEF FramingInv
  <2>2. CASE codec # "Legacy"
    <3>1. PICK r \in Nat : Headed(r) BY <1>1 DEF FramingInv
    <3> QED BY <2>2, <3>1 DEF Headed
  <2>3. CASE codec = "Legacy"
    <3>1. Outcome BY <1>1, <2>3, LegacyInStep
    <3>2. PICK k \in 0..Len(sent) : InStep(Offset(k), k) /\ Wire(Offset(k) + Len(buf))
      BY <1>1, <2>3, LegacyInStep
    <3>3. ~open /\ stream = <<>> /\ (status = "EOF" <=> buf = <<>>) BY <3>1 DEF Outcome
    <3>4. Len(sent) \in Nat /\ Len(buf) \in Nat /\ Len(stream) = 0 /\ buf \in Seq(Byte)
      BY <2>1, <3>3 DEF Types
    <3>5. Positions BY <2>1, PositionsHold
    <3>6. Offset(k) \in Nat /\ Offset(Len(sent)) \in Nat BY <3>4, <3>5 DEF Positions
    <3>7. cut <=> Offset(k) + Len(buf) # Offset(Len(sent)) BY <3>2, <3>4, <3>6 DEF Wire
    <3>8. CASE buf = <<>>
      <4>1. Len(buf) = 0 BY <3>8
      <4>2. k = Len(sent)
        <5> SUFFICES ASSUME k < Len(sent) PROVE FALSE BY <3>4
        <5>1. Offset(Len(sent) - 1) < Offset(k) BY <3>2, <3>3, <3>4, <3>6, <4>1 DEF Wire
        <5>2. Len(sent) - 1 \in 0..Len(sent) /\ (k < Len(sent) - 1 \/ k = Len(sent) - 1) BY <3>4
        <5>3. Offset(Len(sent) - 1) \in Nat BY <3>5, <5>2 DEF Positions
        <5>4. k < Len(sent) - 1 => Offset(k) < Offset(Len(sent) - 1) BY <3>5, <5>2 DEF Positions
        <5> QED BY <3>6, <5>1, <5>2, <5>3, <5>4
      <4> QED BY <3>3, <3>6, <3>7, <3>8, <4>1, <4>2
    <3>9. CASE buf # <<>>
      <4>1. k < Len(sent) BY <3>2, <3>4, <3>9 DEF InStep
      <4>2. Len(buf) < Len(Frame(sent[k + 1])) BY <3>2, <4>1 DEF InStep
      <4>3. k + 1 \in 1..Len(sent) /\ (k + 1) - 1 = k /\ k + 1 \in 0..Len(sent) BY <3>4, <4>1
      <4>4. Offset(k + 1) = Offset(k) + Len(Frame(sent[k + 1])) /\ Offset(k + 1) \in Nat
        BY <3>5, <4>3 DEF Positions
      <4>5. Len(Frame(sent[k + 1])) \in Nat
        <5>1. Frame(sent[k + 1]) \in Seq(Byte) BY <2>1, <4>3, FramesAreBytes DEF SentTypes
        <5> QED BY <5>1
      <4>6. k + 1 < Len(sent) => Offset(k + 1) < Offset(Len(sent))
        <5>1. Len(sent) \in 0..Len(sent) BY <3>4
        <5> QED BY <3>5, <4>3, <5>1 DEF Positions
      <4>7. k + 1 < Len(sent) \/ k + 1 = Len(sent) BY <3>4, <4>1
      <4>8. Offset(k) + Len(buf) # Offset(Len(sent))
        BY <3>4, <3>6, <4>2, <4>4, <4>5, <4>6, <4>7
      <4> QED BY <3>3, <3>7, <3>9, <4>8
    <3> QED BY <3>8, <3>9
  <2> QED BY <2>2, <2>3
<1> QED BY <1>1, FramingInvHolds, PTL

\* "There is no way to resynchronise" (framing.go:29) is also a promise: whatever the
\* payloads hold, a decoder that reports a clean end of an uncut stream has returned exactly
\* what was sent.
THEOREM AllOrNothing == Spec => []AllOrError
<1>1. ASSUME FramingInv PROVE AllOrError
  <2> SUFFICES ASSUME status = "EOF", ~cut PROVE decoded = Expected BY DEF AllOrError
  <2>1. Types BY <1>1 DEF FramingInv
  <2>2. PICK r \in Nat : Wire(r) /\ Headed(r) /\ Trailed(r) BY <1>1 DEF FramingInv
  <2>3. sent \in Seq(Payload) /\ Len(sent) \in Nat /\ decoded \in Seq(Seq(Byte))
        /\ \A i \in 1..Len(sent) : sent[i] \in Seq(Byte)
    BY <2>1, SentBytes DEF Types
  <2>4. CASE codec # "Legacy"
    <3>1. Len(decoded) = Len(sent) /\ \A i \in 1..Len(sent) : decoded[i] = sent[i]
      BY <2>2, <2>4 DEF Headed
    <3>2. Expected = sent BY <2>4 DEF Expected
    <3>3. decoded = sent BY <2>3, <3>1
    <3> QED BY <3>2, <3>3
  <2>5. CASE codec = "Legacy"
    <3>1. PICK s \in Nat : r = s + Len(buf) /\ Buffered(s) BY <2>2, <2>5 DEF Trailed
    <3>2. stream = <<>> /\ buf = <<>> BY <2>2, <2>5 DEF Trailed, Outcome
    <3>3. Len(stream) = 0 /\ Len(buf) = 0 BY <3>2
    <3>4. r = Offset(Len(sent)) BY <2>2, <3>3 DEF Wire
    <3>5. s = Offset(Len(sent)) BY <3>1, <3>3, <3>4
    <3>6. decoded = NonEmpty(First(sent, Len(sent)))
      <4>1. Len(sent) \in 0..Len(sent) BY <2>3
      <4> QED BY <3>1, <3>5, <4>1 DEF Buffered
    <3>7. NonEmpty(First(sent, Len(sent))) = NonEmpty(sent) BY <2>3, NonEmptys
    <3> QED BY <2>5, <3>6, <3>7 DEF Expected
  <2> QED BY <2>4, <2>5
<1> QED BY <1>1, FramingInvHolds, PTL

\* "The old decoder stalled forever" (framing.go:86): while the stream is open, a decoder that
\* waits for bytes has returned all that was sent.
THEOREM NeverStalls == Spec => []NoStall
<1>1. ASSUME FramingInv PROVE NoStall
  <2> SUFFICES ASSUME status = "reading", open, ~Readable, Sound PROVE decoded = Expected
    BY DEF NoStall
  <2>1. Types BY <1>1 DEF FramingInv
  <2>2. sent \in Seq(Payload) /\ Len(sent) \in Nat /\ decoded \in Seq(Seq(Byte))
        /\ \A i \in 1..Len(sent) : sent[i] \in Seq(Byte)
    BY <2>1, SentBytes DEF Types
  <2>3. CASE codec # "Legacy"
    <3>1. PICK r \in Nat : Wire(r) /\ Headed(r) BY <1>1 DEF FramingInv
    <3>2. ~cut BY <3>1 DEF Wire
    <3>3. PICK k \in Nat : k = Len(decoded) BY <2>2
    <3>4. k <= Len(sent) /\ \A i \in 1..k : decoded[i] = sent[i] BY <2>3, <3>1, <3>3 DEF Headed
    <3>5. ~(k < Len(sent)) BY <2>1, <2>3, <3>1, <3>2, <3>3, Complete
    <3>6. Len(decoded) = Len(sent) /\ \A i \in 1..Len(sent) : decoded[i] = sent[i]
      BY <2>2, <3>3, <3>4, <3>5
    <3>7. decoded = sent BY <2>2, <3>6
    <3> QED BY <2>3, <3>7 DEF Expected
  <2>4. CASE codec = "Legacy"
    <3>1. PICK k \in 0..Len(sent) : /\ InStep(Offset(k), k) /\ Wire(Offset(k) + Len(buf))
                                    /\ decoded = NonEmpty(First(sent, k))
      BY <1>1, <2>4, LegacyInStep
    <3>2. k = Len(sent)
      <4> SUFFICES ASSUME k < Len(sent) PROVE FALSE BY <2>2
      <4>1. ~cut BY <3>1 DEF Wire
      <4>2. k \in Nat /\ Offset(k) \in Nat /\ Len(buf) \in Nat /\ Len(stream) \in Nat
        BY <2>1, <2>2, PositionsHold DEF Positions, Types
      <4>3. Len(stream) \in 0..Len(stream) /\ \A m \in 1..Len(stream) : m \notin Stops
        BY <2>4, <4>2 DEF Readable
      <4>4. Len(buf) + Len(stream) < Len(Frame(sent[k + 1]))
        BY <2>1, <2>4, <3>1, <4>2, <4>3, NoOvershoot
      <4>5. /\ Len(buf) + Len(stream) >= Len(Frame(sent[k + 1]))
            /\ Len(Frame(sent[k + 1])) \in Nat
        BY <2>1, <3>1, <4>1, <4>2, Ahead
      <4> QED BY <4>2, <4>4, <4>5
    <3>3. NonEmpty(First(sent, Len(sent))) = NonEmpty(sent) BY <2>2, NonEmptys
    <3> QED BY <2>4, <3>1, <3>2, <3>3 DEF Expected
  <2> QED BY <2>3, <2>4
<1> QED BY <1>1, FramingInvHolds, PTL

===============================================================================
