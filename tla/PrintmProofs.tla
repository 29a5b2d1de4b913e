---------------------------- MODULE PrintmProofs ----------------------------
(***************************************************************************)
(* Proofs about Printm, for every screen, buffer and format: Shown,        *)
(* NumbersRead, Faithful.                                                  *)
(***************************************************************************)
EXTENDS Printm, SequenceTheorems, WellFoundedInduction, TLAPS

LEMMA Smallest ==
  ASSUME NEW T, T \subseteq Nat, T # {}
  PROVE  \E n \in T : \A m \in T : n <= m
<1> DEFINE R == OpToRel(<, Nat)
<1>1. PICK n \in T : \A m \in T : ~ (<<m, n>> \in R)
  <2>1. IsWellFoundedOn(R, Nat)
    BY NatLessThanWellFounded
  <2> HIDE DEF R
  <2> QED BY <2>1, WFMin
<1>2. \A m, k \in Nat : m < k => <<m, k>> \in R
  BY DEF OpToRel
<1> HIDE DEF R
<1>3. \A m \in T : ~ (m < n)
  BY <1>1, <1>2
<1> QED BY <1>3

LEMMA Induction ==
  ASSUME NEW S, 0 \in S, \A n \in Nat : n \in S => n + 1 \in S
  PROVE  Nat \subseteq S
<1> SUFFICES ASSUME Nat \ S # {} PROVE FALSE
  OBVIOUS
<1>1. PICK n \in Nat \ S : \A m \in Nat \ S : n <= m
  BY Smallest
<1> QED BY <1>1

Follows(f, n, a, g) == f[0] = a /\ \A k \in 0 .. n - 1 : f[k + 1] = g[<<k, f[k]>>]

Recursive(f, a, g) == f[0] = a /\ \A n \in Nat : f[n + 1] = g[<<n, f[n]>>]

LEMMA Recursion ==
  ASSUME NEW D, NEW a \in D, NEW g \in [Nat \X D -> D]
  PROVE  \E f \in [Nat -> D] : Recursive(f, a, g)
<1> DEFINE H(n) == {h \in [0 .. n -> D] : Follows(h, n, a, g)}
<1>1. \A n \in Nat : H(n) # {}
  <2> DEFINE S == {n \in Nat : H(n) # {}}
  <2>1. [k \in 0 .. 0 |-> a] \in H(0)
    BY DEF Follows
  <2>2. ASSUME NEW n \in Nat, NEW h \in H(n)
        PROVE  H(n + 1) # {}
    <3> DEFINE f == [k \in 0 .. n + 1 |-> IF k = n + 1 THEN g[<<n, h[n]>>] ELSE h[k]]
    <3>1. h \in [0 .. n -> D] /\ Follows(h, n, a, g)
      OBVIOUS
    <3>2. g[<<n, h[n]>>] \in D
      BY <3>1
    <3>3. f \in [0 .. n + 1 -> D]
      BY <3>1, <3>2
    <3>4. f[0] = a
      BY <3>1 DEF Follows
    <3>5. ASSUME NEW k \in 0 .. (n + 1) - 1 PROVE f[k + 1] = g[<<k, f[k]>>]
      <4>1. CASE k = n
        <5>1. f[k + 1] = g[<<n, h[n]>>] /\ f[k] = h[n]
          BY <4>1
        <5> HIDE DEF f
        <5> QED BY <5>1, <4>1
      <4>2. CASE k # n
        <5>1. k \in 0 .. n - 1 /\ k + 1 \in 0 .. n /\ k + 1 # n + 1 /\ k # n + 1
          BY <4>2
        <5>2. f[k + 1] = h[k + 1] /\ f[k] = h[k]
          BY <5>1
        <5>3. h[k + 1] = g[<<k, h[k]>>]
          BY <5>1, <3>1 DEF Follows
        <5> HIDE DEF f
        <5> QED BY <5>2, <5>3
      <4> QED BY <4>1, <4>2
    <3> HIDE DEF f
    <3>6. f \in H(n + 1)
      BY <3>3, <3>4, <3>5 DEF Follows
    <3> QED BY <3>6
  <2> HIDE DEF H
  <2>3. 0 \in S /\ \A n \in Nat : n \in S => n + 1 \in S
    BY <2>1, <2>2
  <2> HIDE DEF S
  <2>4. Nat \subseteq S
    BY <2>3, Induction
  <2> USE DEF S
  <2> QED BY <2>4
<1>2. ASSUME NEW n \in Nat, NEW m \in Nat, NEW h \in H(n), NEW j \in H(m)
      PROVE  \A k \in Nat : k <= n /\ k <= m => h[k] = j[k]
  <2> DEFINE S == {k \in Nat : k <= n /\ k <= m => h[k] = j[k]}
  <2>1. Follows(h, n, a, g) /\ Follows(j, m, a, g)
    OBVIOUS
  <2> HIDE DEF H
  <2>2. 0 \in S
    BY <2>1 DEF Follows
  <2>3. ASSUME NEW k \in Nat, k \in S PROVE k + 1 \in S
    <3> SUFFICES ASSUME k + 1 <= n, k + 1 <= m PROVE h[k + 1] = j[k + 1]
      OBVIOUS
    <3>1. h[k] = j[k] /\ k \in 0 .. n - 1 /\ k \in 0 .. m - 1
      BY <2>3
    <3> QED BY <2>1, <3>1 DEF Follows
  <2>4. Nat \subseteq S
    BY <2>2, <2>3, Induction
  <2> QED BY <2>4
<1> DEFINE h(n) == CHOOSE h \in H(n) : TRUE
<1>3. \A n \in Nat : h(n) \in H(n)
  BY <1>1
<1> HIDE DEF h
<1> DEFINE f == [n \in Nat |-> h(n)[n]]
<1>4. \A n \in Nat : h(n) \in [0 .. n -> D] /\ Follows(h(n), n, a, g)
  BY <1>3
<1>5. f \in [Nat -> D]
  BY <1>4
<1>6. f[0] = a
  BY <1>4 DEF Follows
<1>7. ASSUME NEW n \in Nat PROVE f[n + 1] = g[<<n, f[n]>>]
  <2>1. h(n)[n] = h(n + 1)[n]
    <3> HIDE DEF H, f
    <3>1. n + 1 \in Nat /\ n <= n /\ n <= n + 1
      OBVIOUS
    <3>2. h(n) \in H(n) /\ h(n + 1) \in H(n + 1)
      BY <1>3, <3>1
    <3> QED BY <1>2, <3>1, <3>2
  <2>2. h(n + 1)[n + 1] = g[<<n, h(n + 1)[n]>>]
    BY <1>4 DEF Follows
  <2> QED BY <2>1, <2>2
<1> QED BY <1>5, <1>6, <1>7 DEF Recursive

\* A function with this equation is what `LET h[j \in 0 .. n] == ...' defines.
Iterates(h, n, a, g) == h = [j \in 0 .. n |-> IF j = 0 THEN a ELSE g[<<j, h[j - 1]>>]]

LEMMA Iteration ==
  ASSUME NEW D, NEW a \in D, NEW g \in [Nat \X D -> D], NEW n \in Nat
  PROVE  \E h : Iterates(h, n, a, g)
<1> DEFINE later == [x \in Nat \X D |-> g[<<x[1] + 1, x[2]>>]]
<1>1. PICK f \in [Nat -> D] : Recursive(f, a, later)
  <2>1. later \in [Nat \X D -> D]
    OBVIOUS
  <2> HIDE DEF later
  <2> QED BY <2>1, Recursion
<1>2. f[0] = a /\ \A k \in Nat : f[k + 1] = g[<<k + 1, f[k]>>]
  BY <1>1 DEF Recursive
<1> DEFINE h == [j \in 0 .. n |-> f[j]]
<1>3. ASSUME NEW j \in 0 .. n
      PROVE  h[j] = IF j = 0 THEN a ELSE g[<<j, h[j - 1]>>]
  <2>1. CASE j = 0
    BY <1>2, <2>1
  <2>2. CASE j # 0
    <3>1. j - 1 \in Nat /\ (j - 1) + 1 = j /\ j - 1 \in 0 .. n
      BY <2>2
    <3>2. f[j] = g[<<j, f[j - 1]>>]
      BY <1>2, <3>1
    <3>3. h[j] = f[j] /\ h[j - 1] = f[j - 1]
      BY <3>1
    <3> HIDE DEF h
    <3> QED BY <2>2, <3>2, <3>3
  <2> QED BY <2>1, <2>2
<1>4. Iterates(h, n, a, g)
  BY <1>3 DEF Iterates
<1> QED BY <1>4
-----------------------------------------------------------------------------
(***************************************************************************)
(* Numbers.                                                                *)
(***************************************************************************)
LEMMA DivMod ==
  ASSUME NEW x \in Nat, NEW b \in Nat \ {0}
  PROVE  x \div b \in Nat /\ x % b \in 0 .. b - 1 /\ x = b * (x \div b) + (x % b)
OBVIOUS

LEMMA Quotient ==
  ASSUME NEW b \in Nat \ {0}, NEW q \in Nat, NEW r \in 0 .. b - 1
  PROVE  (b * q + r) \div b = q /\ (b * q + r) % b = r
OBVIOUS

LEMMA Products ==
  ASSUME NEW a \in Nat, NEW b \in Nat, NEW c \in Nat
  PROVE  /\ a * b \in Nat /\ a * b = b * a
         /\ a * (b * c) = (a * b) * c
         /\ a * (b + c) = a * b + a * c
         /\ a * (b + 1) = a * b + a /\ (b + 1) * a = b * a + a
         /\ a # 0 /\ b # 0 => a * b # 0
         /\ a <= b => a * c <= b * c
OBVIOUS

\* What `LET h[k \in 0 .. n] == IF k = 0 THEN a ELSE g[<<k, h[k - 1]>>]' defines.
Runs(h, n, D, a, g) ==
  h \in [0 .. n -> D] /\ h[0] = a /\ \A k \in 1 .. n : h[k] = g[<<k, h[k - 1]>>]

LEMMA Iterated ==
  ASSUME NEW D, NEW a \in D, NEW g \in [Nat \X D -> D], NEW n \in Nat, NEW h,
         Iterates(h, n, a, g)
  PROVE  Runs(h, n, D, a, g)
<1>1. \A k \in 0 .. n : h[k] = IF k = 0 THEN a ELSE g[<<k, h[k - 1]>>]
  BY DEF Iterates
<1>2. h[0] = a
  <2>1. 0 \in 0 .. n
    OBVIOUS
  <2> QED BY <1>1, <2>1
<1>3. ASSUME NEW k \in 1 .. n PROVE h[k] = g[<<k, h[k - 1]>>]
  <2>1. k \in 0 .. n /\ k # 0
    OBVIOUS
  <2> QED BY <1>1, <2>1
<1>4. \A k \in 0 .. n : h[k] \in D
  <2> DEFINE S == {k \in Nat : k <= n => h[k] \in D}
  <2>1. 0 \in S
    BY <1>2
  <2>2. ASSUME NEW k \in Nat, k \in S PROVE k + 1 \in S
    <3> SUFFICES ASSUME k + 1 <= n PROVE h[k + 1] \in D
      OBVIOUS
    <3>1. k + 1 \in 1 .. n /\ (k + 1) - 1 = k /\ h[k] \in D
      BY <2>2
    <3>2. h[k + 1] = g[<<k + 1, h[k]>>]
      BY <1>3, <3>1
    <3> QED BY <3>1, <3>2
  <2>3. Nat \subseteq S
    <3> HIDE DEF S
    <3> QED BY <2>1, <2>2, Induction
  <2> QED BY <2>3
<1>5. h = [k \in 0 .. n |-> h[k]]
  BY DEF Iterates
<1> QED BY <1>2, <1>3, <1>4, <1>5 DEF Runs
-----------------------------------------------------------------------------
(***************************************************************************)
(* The paper.                                                              *)
(***************************************************************************)
LEMMA PenStays ==
  ASSUME NEW p \in Nat, NEW c
  PROVE  PenAfter(p, c) \in Nat
<1>1. Width \in Nat \ {0} /\ Tab \in Nat \ {0}
  BY ConsoleAssumption
<1>2. /\ p \div Tab \in Nat /\ p \div Width \in Nat /\ p % Width \in 0 .. Width - 1
      /\ p % Width # 0 => p # 0
  <2>1. p \div Tab \in Nat /\ p \div Width \in Nat /\ p % Width \in 0 .. Width - 1
    BY <1>1, DivMod
  <2>2. p = 0 => p % Width = 0
    BY <1>1
  <2> QED BY <2>1, <2>2
<1> DEFINE t == p \div Tab
           w == p \div Width
<1>3. t \in Nat /\ w \in Nat
  BY <1>2
<1> HIDE DEF t, w
<1>4. (t + 1) * Tab \in Nat /\ w * Width \in Nat /\ (w + 1) * Width \in Nat
  BY <1>1, <1>3, Products
<1>5. (p \div Tab + 1) * Tab \in Nat /\ (p \div Width) * Width \in Nat
      /\ (p \div Width + 1) * Width \in Nat
  BY <1>4 DEF t, w
<1>6. p % Width # 0 => p - 1 \in Nat
  BY <1>2
<1> QED BY <1>5, <1>6 DEF PenAfter

LEMMA PathFacts ==
  ASSUME NEW C, NEW cs \in Seq(C)
  PROVE  /\ Path(cs) \in [0 .. Len(cs) -> Nat] /\ Path(cs)[0] = 0
         /\ \A k \in 1 .. Len(cs) : Path(cs)[k] = PenAfter(Path(cs)[k - 1], cs[k])
<1> DEFINE n == Len(cs)
           g == [x \in Nat \X Nat |-> PenAfter(x[2], cs[x[1]])]
           Pen(h) == h = [k \in 0 .. n |-> IF k = 0 THEN 0 ELSE PenAfter(h[k - 1], cs[k])]
<1>1. n \in Nat /\ 0 \in Nat
  OBVIOUS
<1>2. g \in [Nat \X Nat -> Nat]
  BY PenStays
<1>3. \A h : Iterates(h, n, 0, g) => Pen(h)
  <2> SUFFICES ASSUME NEW h, Iterates(h, n, 0, g) PROVE Pen(h)
    OBVIOUS
  <2>1. h \in [0 .. n -> Nat] /\ h[0] = 0 /\ \A k \in 1 .. n : h[k] = g[<<k, h[k - 1]>>]
    <3>1. Runs(h, n, Nat, 0, g)
      <4> HIDE DEF g, n, Pen
      <4> QED BY <1>1, <1>2, Iterated
    <3> HIDE DEF g, n, Pen
    <3> QED BY <3>1 DEF Runs
  <2>2. ASSUME NEW k \in 0 .. n
        PROVE  h[k] = IF k = 0 THEN 0 ELSE PenAfter(h[k - 1], cs[k])
    <3>1. CASE k = 0
      BY <2>1, <3>1
    <3>2. CASE k # 0
      <4>1. k \in 1 .. n /\ k - 1 \in 0 .. n /\ k \in Nat
        BY <1>1, <3>2
      <4>2. h[k - 1] \in Nat /\ h[k] = g[<<k, h[k - 1]>>]
        BY <2>1, <4>1
      <4>3. h[k] = PenAfter(h[k - 1], cs[k])
        BY <4>1, <4>2
      <4> QED BY <3>2, <4>3
    <3> QED BY <3>1, <3>2
  <2> QED BY <2>1, <2>2
<1>4. \E h : Iterates(h, n, 0, g)
  <2> HIDE DEF g, n
  <2> QED BY <1>1, <1>2, Iteration
<1>5. Path(cs) = CHOOSE h : Pen(h)
  BY DEF Path
<1> HIDE DEF g
<1>6. Pen(Path(cs))
  <2> HIDE DEF Pen
  <2> QED BY <1>3, <1>4, <1>5
<1>7. ASSUME NEW h, Pen(h)
      PROVE  /\ h \in [0 .. n -> Nat] /\ h[0] = 0
             /\ \A k \in 1 .. n : h[k] = PenAfter(h[k - 1], cs[k])
  <2> HIDE DEF n
  <2>1. h[0] = 0
    <3>1. 0 \in 0 .. n
      BY <1>1
    <3> QED BY <1>7, <3>1
  <2>2. ASSUME NEW k \in 1 .. n PROVE h[k] = PenAfter(h[k - 1], cs[k])
    <3>1. k \in 0 .. n /\ k # 0
      BY <1>1
    <3> QED BY <1>7, <3>1
  <2>3. \A k \in 0 .. n : h[k] \in Nat
    <3> DEFINE S == {k \in Nat : k <= n => h[k] \in Nat}
    <3>1. 0 \in S
      BY <2>1
    <3>2. ASSUME NEW k \in Nat, k \in S PROVE k + 1 \in S
      <4> SUFFICES ASSUME k + 1 <= n PROVE h[k + 1] \in Nat
        OBVIOUS
      <4>1. k + 1 \in 1 .. n /\ (k + 1) - 1 = k /\ h[k] \in Nat
        BY <1>1, <3>2
      <4>2. h[k + 1] = PenAfter(h[k], cs[k + 1])
        BY <2>2, <4>1
      <4> QED BY <4>1, <4>2, PenStays
    <3>3. Nat \subseteq S
      <4> HIDE DEF S
      <4> QED BY <3>1, <3>2, Induction
    <3> QED BY <1>1, <3>3
  <2>4. h = [k \in 0 .. n |-> h[k]]
    BY <1>7
  <2> QED BY <2>1, <2>2, <2>3, <2>4
<1> HIDE DEF Pen
<1> QED BY <1>6, <1>7 DEF n

\* A character more leaves the path behind the others.
LEMMA PathAppend ==
  ASSUME NEW C, NEW cs \in Seq(C), NEW c \in C
  PROVE  /\ \A k \in 0 .. Len(cs) : Path(Append(cs, c))[k] = Path(cs)[k]
         /\ Path(Append(cs, c))[Len(cs) + 1] = PenAfter(Path(cs)[Len(cs)], c)
<1> DEFINE n == Len(cs)
           ds == Append(cs, c)
<1>1. n \in Nat /\ ds \in Seq(C) /\ Len(ds) = n + 1 /\ ds[n + 1] = c
      /\ \A k \in 1 .. n : ds[k] = cs[k]
  OBVIOUS
<1> HIDE DEF ds
<1>2. /\ Path(cs)[0] = 0 /\ Path(ds)[0] = 0
      /\ \A k \in 1 .. n : Path(cs)[k] = PenAfter(Path(cs)[k - 1], cs[k])
      /\ \A k \in 1 .. n + 1 : Path(ds)[k] = PenAfter(Path(ds)[k - 1], ds[k])
  BY <1>1, PathFacts
<1> DEFINE S == {k \in Nat : k <= n => Path(ds)[k] = Path(cs)[k]}
<1>3. 0 \in S
  BY <1>2
<1>4. ASSUME NEW k \in Nat, k \in S PROVE k + 1 \in S
  <2> SUFFICES ASSUME k + 1 <= n PROVE Path(ds)[k + 1] = Path(cs)[k + 1]
    OBVIOUS
  <2>1. k + 1 \in 1 .. n /\ k + 1 \in 1 .. n + 1 /\ (k + 1) - 1 = k /\ Path(ds)[k] = Path(cs)[k]
    BY <1>1, <1>4
  <2>2. Path(cs)[k + 1] = PenAfter(Path(cs)[k], cs[k + 1])
        /\ Path(ds)[k + 1] = PenAfter(Path(ds)[k], ds[k + 1])
    BY <1>2, <2>1
  <2> QED BY <1>1, <2>1, <2>2
<1>5. Nat \subseteq S
  <2> HIDE DEF S
  <2> QED BY <1>3, <1>4, Induction
<1>6. \A k \in 0 .. n : Path(ds)[k] = Path(cs)[k]
  BY <1>1, <1>5
<1>7. Path(ds)[n + 1] = PenAfter(Path(cs)[n], c)
  <2>1. n + 1 \in 1 .. n + 1 /\ (n + 1) - 1 = n /\ n \in 0 .. n
    BY <1>1
  <2>2. Path(ds)[n + 1] = PenAfter(Path(ds)[n], ds[n + 1])
    BY <1>2, <2>1
  <2> QED BY <1>1, <1>6, <2>1, <2>2
<1> QED BY <1>6, <1>7 DEF ds

\* ... and is what is read on the square where the pen was, if it leaves ink.
LEMMA InkAppend ==
  ASSUME NEW C, NEW cs \in Seq(C), NEW c \in C, NEW p \in Nat
  PROVE  /\ p = Path(cs)[Len(cs)] /\ c \notin Controls => Ink(Append(cs, c), p) = c
         /\ p # Path(cs)[Len(cs)] \/ c \in Controls =>
              /\ Inked(Append(cs, c), p) = Inked(cs, p)
              /\ Ink(Append(cs, c), p) = Ink(cs, p)
<1> DEFINE n == Len(cs)
           ds == Append(cs, c)
           A == Inked(cs, p)
           B == Inked(ds, p)
<1>1. n \in Nat /\ DOMAIN cs = 1 .. n /\ DOMAIN ds = 1 .. n + 1 /\ ds[n + 1] = c
      /\ \A k \in 1 .. n : ds[k] = cs[k]
  OBVIOUS
<1>2. \A k \in 0 .. n : Path(ds)[k] = Path(cs)[k]
  BY PathAppend
<1> HIDE DEF ds
<1>3. \A k \in 1 .. n : k \in B <=> k \in A
  <2> SUFFICES ASSUME NEW k \in 1 .. n PROVE k \in B <=> k \in A
    OBVIOUS
  <2>1. k \in DOMAIN cs /\ k \in DOMAIN ds /\ k - 1 \in 0 .. n /\ ds[k] = cs[k]
    BY <1>1
  <2> QED BY <1>2, <2>1 DEF Inked
<1>4. n + 1 \in B <=> Path(cs)[n] = p /\ c \notin Controls
  <2>1. n + 1 \in DOMAIN ds /\ (n + 1) - 1 = n /\ n \in 0 .. n
    BY <1>1
  <2> QED BY <1>1, <1>2, <2>1 DEF Inked
<1>5. A \subseteq 1 .. n /\ B \subseteq 1 .. n + 1
  BY <1>1 DEF Inked
<1>6. ASSUME p = Path(cs)[n], c \notin Controls PROVE Ink(ds, p) = c
  <2>1. n + 1 \in B /\ \A j \in B : j <= n + 1
    BY <1>1, <1>4, <1>5, <1>6
  <2>2. (CHOOSE k \in B : \A j \in B : j <= k) = n + 1
    <3>1. ASSUME NEW k \in B, \A j \in B : j <= k PROVE k = n + 1
      BY <1>1, <1>5, <2>1, <3>1
    <3> HIDE DEF B
    <3> QED BY <2>1, <3>1
  <2>3. Ink(ds, p) = IF B = {} THEN Blank ELSE ds[CHOOSE k \in B : \A j \in B : j <= k]
    BY DEF Ink
  <2> HIDE DEF B
  <2> QED BY <1>1, <2>1, <2>2, <2>3
<1>7. ASSUME p # Path(cs)[n] \/ c \in Controls
      PROVE  B = A /\ Ink(ds, p) = Ink(cs, p)
  <2>1. B = A
    <3>1. n + 1 \notin B
      BY <1>4, <1>7
    <3>2. \A k \in 1 .. n + 1 : k = n + 1 \/ k \in 1 .. n
      BY <1>1
    <3> HIDE DEF A, B
    <3> QED BY <1>1, <1>3, <1>5, <3>1, <3>2
  <2>2. Ink(ds, p) = IF B = {} THEN Blank ELSE ds[CHOOSE k \in B : \A j \in B : j <= k]
    BY DEF Ink
  <2>3. Ink(cs, p) = IF A = {} THEN Blank ELSE cs[CHOOSE k \in A : \A j \in A : j <= k]
    BY DEF Ink
  <2>4. CASE A = {}
    <3> HIDE DEF A, B
    <3> QED BY <2>1, <2>2, <2>3, <2>4
  <2>5. CASE A # {}
    <3> HIDE DEF B
    <3>1. \E k \in A : \A j \in A : j <= k
      <4> DEFINE U == {m \in Nat : \E k \in A : k + m = n}
      <4>1. U \subseteq Nat /\ U # {}
        <5>1. PICK k \in A : TRUE
          BY <2>5
        <5>2. n - k \in Nat /\ k + (n - k) = n
          BY <1>1, <1>5
        <5> HIDE DEF A
        <5> QED BY <5>2
      <4>2. PICK m \in U : \A l \in U : m <= l
        <5> HIDE DEF U
        <5> QED BY <4>1, Smallest
      <4> HIDE DEF A
      <4>3. PICK k \in A : k + m = n
        OBVIOUS
      <4>4. ASSUME NEW j \in A PROVE j <= k
        <5>1. j \in 1 .. n /\ k \in 1 .. n
          BY <1>5
        <5>2. n - j \in Nat /\ j + (n - j) = n
          <6> HIDE DEF n, U
          <6> QED BY <1>1, <5>1
        <5>3. n - j \in U
          BY <5>2
        <5> QED BY <1>1, <4>2, <4>3, <5>1, <5>3
      <4> QED BY <4>4
    <3> DEFINE l == CHOOSE k \in A : \A j \in A : j <= k
    <3>2. l \in A
      <4> HIDE DEF A
      <4> QED BY <3>1
    <3>3. l \in 1 .. n
      BY <1>5, <3>2
    <3>4. Ink(ds, p) = ds[l] /\ Ink(cs, p) = cs[l]
      <4> HIDE DEF A
      <4> QED BY <2>1, <2>2, <2>3, <2>5
    <3> HIDE DEF l
    <3> QED BY <1>1, <2>1, <3>3, <3>4
  <2> QED BY <2>1, <2>4, <2>5
<1> QED BY <1>6, <1>7 DEF ds
-----------------------------------------------------------------------------
(***************************************************************************)
(* The screen.                                                             *)
(***************************************************************************)
Top(row) == IF row < Height THEN 0 ELSE row - Height + 1

\* The screens whose characters are in C, while the cursor is on them; and those between
\* the steps of console_putc, when it may be behind the last column or row.
Screens(C) == [text : [Cell -> C], cur_x : 0 .. Width - 1, cur_y : 0 .. Height - 1, cursor : Nat]
Between(C) == [text : [Cell -> C], cur_x : 0 .. Width, cur_y : 0 .. Height, cursor : Nat]

\* The screen shows the paper from row `top' on, when the pen's row is `row'.
Lit(s, cs, row, top) ==
  /\ \A i \in Cell : s.text[i] = Ink(cs, top * Width + i)
  /\ \A a \in Nat : a >= (row + 1) * Width => Inked(cs, a) = {}

Fits(C, s, cs, p) ==
  /\ s \in Screens(C)
  /\ s.cur_x = p % Width
  /\ s.cur_y = p \div Width - Top(p \div Width)
  /\ s.cursor = p - Top(p \div Width) * Width
  /\ Lit(s, cs, p \div Width, Top(p \div Width))

LEMMA Sizes ==
  /\ Width \in Nat \ {0} /\ Height \in Nat \ {0} /\ Tab \in Nat \ {0} /\ Cells \in Nat
  /\ Cells = Height * Width /\ Cell = 0 .. Cells - 1
  /\ \E m \in Nat : Width = m * Tab
<1>1. Width \in Nat \ {0} /\ Height \in Nat \ {0} /\ Tab \in Nat \ {0} /\ Width % Tab = 0
  BY ConsoleAssumption
<1>2. Width * Height \in Nat /\ Width * Height = Height * Width
  BY <1>1, Products
<1>3. \E m \in Nat : Width = m * Tab
  <2> DEFINE m == Width \div Tab
  <2>1. m \in Nat /\ Width = Tab * m + (Width % Tab)
    BY <1>1, DivMod
  <2> HIDE DEF m
  <2>2. Tab * m = m * Tab /\ Tab * m \in Nat
    BY <1>1, <2>1, Products
  <2>3. Width = m * Tab
    BY <1>1, <2>1, <2>2
  <2> QED BY <2>1, <2>3
<1> QED BY <1>1, <1>2, <1>3 DEF Cells, Cell

LEMMA TopFacts ==
  ASSUME NEW row \in Nat
  PROVE  Top(row) \in Nat /\ row - Top(row) \in 0 .. Height - 1
BY Sizes DEF Top

\* Where a tabulator stops.
LEMMA TabStop ==
  ASSUME NEW row \in Nat, NEW x \in 0 .. Width - 1, NEW p \in Nat, p = row * Width + x
  PROVE  /\ ((x + Tab) \div Tab) * Tab \in 0 .. Width
         /\ (p \div Tab + 1) * Tab = row * Width + ((x + Tab) \div Tab) * Tab
<1> DEFINE t == x \div Tab
           u == x % Tab
<1>1. PICK m \in Nat : Width = m * Tab
  BY Sizes
<1>2. Tab \in Nat \ {0} /\ x \in Nat
  BY Sizes
<1>3. t \in Nat /\ u \in 0 .. Tab - 1 /\ x = Tab * t + u
  BY <1>2, DivMod
<1> HIDE DEF t, u
<1>4. (x + Tab) \div Tab = t + 1
  <2>1. Tab * (t + 1) = Tab * t + Tab /\ Tab * t \in Nat
    BY <1>2, <1>3, Products
  <2>2. x + Tab = Tab * (t + 1) + u /\ t + 1 \in Nat
    BY <1>2, <1>3, <2>1
  <2>3. (Tab * (t + 1) + u) \div Tab = t + 1
    BY <1>2, <1>3, <2>2, Quotient
  <2> QED BY <2>2, <2>3
<1>5. t + 1 <= m
  <2> SUFFICES ASSUME m <= t PROVE FALSE
    BY <1>1, <1>3
  <2>1. m * Tab <= t * Tab /\ t * Tab = Tab * t /\ Tab * t \in Nat /\ m * Tab \in Nat
    BY <1>1, <1>2, <1>3, Products
  <2> QED BY <1>1, <1>2, <1>3, <2>1
<1>6. (t + 1) * Tab \in 0 .. Width
  <2>1. (t + 1) * Tab <= m * Tab /\ (t + 1) * Tab \in Nat
    BY <1>1, <1>2, <1>3, <1>5, Products
  <2> QED BY <1>1, <2>1, Sizes
<1>7. (p \div Tab + 1) * Tab = row * Width + (t + 1) * Tab
  <2> DEFINE w == row * m
  <2>1. row * Width = w * Tab /\ w \in Nat
    BY <1>1, <1>2, Products
  <2> HIDE DEF w
  <2>2. /\ w * Tab = Tab * w /\ Tab * (w + t) = Tab * w + Tab * t
        /\ Tab * w \in Nat /\ Tab * t \in Nat /\ w + t \in Nat
    BY <1>2, <1>3, <2>1, Products
  <2>3. p = Tab * (w + t) + u
    BY <1>2, <1>3, <2>1, <2>2
  <2>4. p \div Tab = w + t
    <3> DEFINE z == w + t
    <3>1. z \in Nat /\ p = Tab * z + u
      BY <2>2, <2>3
    <3> HIDE DEF z
    <3>2. (Tab * z + u) \div Tab = z
      BY <1>2, <1>3, <3>1, Quotient
    <3> QED BY <3>1, <3>2 DEF z
  <2>5. /\ ((w + t) + 1) * Tab = (w + t) * Tab + Tab /\ (t + 1) * Tab = t * Tab + Tab
        /\ (w + t) * Tab = Tab * (w + t) /\ t * Tab = Tab * t
    BY <1>2, <1>3, <2>2, Products
  <2> QED BY <1>2, <2>1, <2>2, <2>4, <2>5
<1> QED BY <1>4, <1>6, <1>7

\* The pen of a screen that fits.
LEMMA PenAt ==
  ASSUME NEW p \in Nat
  PROVE  /\ p \div Width \in Nat /\ p % Width \in 0 .. Width - 1
         /\ p = (p \div Width) * Width + (p % Width)
         /\ (p \div Width) * Width \in Nat
         /\ (p \div Width + 1) * Width = (p \div Width) * Width + Width
<1> DEFINE r == p \div Width
           x == p % Width
<1>1. r \in Nat /\ x \in 0 .. Width - 1 /\ p = Width * r + x /\ Width \in Nat
  BY Sizes, DivMod
<1> HIDE DEF r, x
<1>2. Width * r = r * Width /\ r * Width \in Nat /\ (r + 1) * Width = r * Width + Width
  BY <1>1, Products
<1>3. r \in Nat /\ x \in 0 .. Width - 1 /\ p = r * Width + x
  BY <1>1, <1>2
<1> QED BY <1>2, <1>3 DEF r, x

\* A character moves the cursor as it moves the pen ...
LEMMA StruckMoves ==
  ASSUME NEW C, Blank \in C, NEW c \in C, NEW cs, NEW p \in Nat, NEW s, Fits(C, s, cs, p),
         NEW row, row = p \div Width
  PROVE  /\ Struck(s, c) \in Between(C)
         /\ \E r \in {row, row + 1} :
              /\ PenAfter(p, c) = r * Width + Struck(s, c).cur_x
              /\ Struck(s, c).cur_y = r - Top(row)
              /\ r = row + 1 => Struck(s, c).cur_x = 0
<1> DEFINE x == p % Width
           top == Top(row)
           n == Struck(s, c)
<1>1. /\ Width \in Nat \ {0} /\ Height \in Nat \ {0} /\ row \in Nat /\ x \in 0 .. Width - 1
      /\ p = row * Width + x /\ row * Width \in Nat /\ (row + 1) * Width = row * Width + Width
      /\ top \in Nat /\ row - top \in 0 .. Height - 1
  BY Sizes, PenAt, TopFacts
<1>2. s \in Screens(C) /\ s.cur_x = x /\ s.cur_y = row - top
  BY DEF Fits
<1> HIDE DEF x, top
<1>3. s.text \in [Cell -> C] /\ s.cursor \in Nat
  BY <1>2 DEF Screens
<1>4. s \in Between(C)
  BY <1>1, <1>2 DEF Screens, Between
<1>5. CASE c = "BS" /\ x # 0
  <2>1. n = [s EXCEPT !.cur_x = x - 1]
    BY <1>2, <1>5 DEF Struck
  <2>2. n \in Between(C) /\ n.cur_x = x - 1 /\ n.cur_y = row - top
    <3> HIDE DEF n
    <3>1. x - 1 \in 0 .. Width
      BY <1>1, <1>5
    <3> QED BY <1>2, <1>4, <2>1, <3>1 DEF Between
  <2>3. PenAfter(p, c) = p - 1
    BY <1>5 DEF PenAfter, x
  <2>4. p - 1 = row * Width + (x - 1)
    BY <1>1
  <2> HIDE DEF n
  <2> QED BY <1>1, <2>2, <2>3, <2>4 DEF n, top
<1>6. CASE (c = "BS" /\ x = 0) \/ c = "NUL"
  <2>1. n = s
    BY <1>2, <1>6 DEF Struck
  <2>2. PenAfter(p, c) = p
    BY <1>6 DEF PenAfter, x
  <2> HIDE DEF n
  <2> QED BY <1>1, <1>2, <1>4, <2>1, <2>2 DEF n, top
<1>7. CASE c = "TAB"
  <2> DEFINE t == ((x + Tab) \div Tab) * Tab
  <2>1. n = [s EXCEPT !.cur_x = t]
    BY <1>2, <1>7 DEF Struck
  <2>2. PenAfter(p, c) = (p \div Tab + 1) * Tab
    BY <1>7 DEF PenAfter
  <2>3. t \in 0 .. Width /\ PenAfter(p, c) = row * Width + t
    BY <1>1, <2>2, TabStop
  <2> HIDE DEF t, n
  <2>4. n \in Between(C) /\ n.cur_x = t /\ n.cur_y = row - top
    BY <1>1, <1>2, <1>4, <2>1, <2>3 DEF Between
  <2> QED BY <1>1, <2>3, <2>4 DEF n, top
<1>8. CASE c = "CR"
  <2>1. n = [s EXCEPT !.cur_x = 0]
    BY <1>8 DEF Struck
  <2>2. PenAfter(p, c) = row * Width
    BY <1>8 DEF PenAfter
  <2> HIDE DEF n
  <2>3. n \in Between(C) /\ n.cur_x = 0 /\ n.cur_y = row - top
    BY <1>1, <1>2, <1>4, <2>1 DEF Between
  <2> QED BY <1>1, <2>2, <2>3 DEF n, top
<1>9. CASE c = "NL"
  <2>1. n = [s EXCEPT !.cur_x = 0, !.cur_y = row - top + 1]
    BY <1>2, <1>9 DEF Struck
  <2>2. PenAfter(p, c) = (row + 1) * Width
    BY <1>9 DEF PenAfter
  <2> HIDE DEF n
  <2>3. n \in Between(C) /\ n.cur_x = 0 /\ n.cur_y = (row + 1) - top
    <3>1. 0 \in 0 .. Width /\ row - top + 1 \in 0 .. Height /\ row - top + 1 = (row + 1) - top
      BY <1>1
    <3> QED BY <1>4, <2>1, <3>1 DEF Between
  <2>4. (row + 1) * Width = (row + 1) * Width + 0
    BY <1>1
  <2> QED BY <1>1, <2>2, <2>3, <2>4 DEF n, top
<1>10. CASE c \notin Controls
  <2>1. n = [s EXCEPT !.text[(row - top) * Width + x] = c, !.cur_x = x + 1]
    BY <1>2, <1>10 DEF Struck, Controls
  <2>2. PenAfter(p, c) = p + 1
    BY <1>10 DEF PenAfter, Controls
  <2> HIDE DEF n
  <2>3. n.text = [s.text EXCEPT ![(row - top) * Width + x] = c]
    BY <1>4, <2>1 DEF Between
  <2>4. n.text \in [Cell -> C]
    BY <1>3, <2>3
  <2>5. n.cur_x = x + 1 /\ n.cur_y = row - top /\ n.cursor \in Nat
        /\ n = [text |-> n.text, cur_x |-> n.cur_x, cur_y |-> n.cur_y, cursor |-> n.cursor]
    BY <1>2, <1>3, <1>4, <2>1 DEF Between
  <2>6. n \in Between(C)
    BY <1>1, <2>4, <2>5 DEF Between
  <2>7. p + 1 = row * Width + (x + 1)
    BY <1>1
  <2> QED BY <1>1, <2>2, <2>5, <2>6, <2>7 DEF n, top
<1> QED BY <1>5, <1>6, <1>7, <1>8, <1>9, <1>10 DEF Controls

\* ... and leaves its ink where the pen was.
LEMMA StruckLights ==
  ASSUME NEW C, Blank \in C, NEW c \in C, NEW cs \in Seq(C), NEW s, NEW p \in Nat,
         p = Path(cs)[Len(cs)], Fits(C, s, cs, p), NEW row, row = p \div Width
  PROVE  Lit(Struck(s, c), Append(cs, c), row, Top(row))
<1> DEFINE x == p % Width
           top == Top(row)
           n == Struck(s, c)
           ds == Append(cs, c)
<1>1. /\ Width \in Nat \ {0} /\ Height \in Nat \ {0} /\ row \in Nat /\ x \in 0 .. Width - 1
      /\ p = row * Width + x /\ row * Width \in Nat /\ (row + 1) * Width = row * Width + Width
      /\ top \in Nat /\ row - top \in 0 .. Height - 1 /\ Cells \in Nat
      /\ Cells = Height * Width /\ Cell = 0 .. Cells - 1
  BY Sizes, PenAt, TopFacts
<1>2. s \in Screens(C) /\ s.cur_x = x /\ s.cur_y = row - top
  BY DEF Fits
<1>3. /\ \A i \in Cell : s.text[i] = Ink(cs, top * Width + i)
      /\ \A a \in Nat : a >= (row + 1) * Width => Inked(cs, a) = {}
  BY DEF Fits, Lit
<1>4. \A a \in Nat : /\ a = p /\ c \notin Controls => Ink(ds, a) = c
                     /\ (a # p \/ c \in Controls) =>
                          Inked(ds, a) = Inked(cs, a) /\ Ink(ds, a) = Ink(cs, a)
  BY InkAppend
<1> HIDE DEF x, top, ds
<1>5. top * Width \in Nat
  BY <1>1, Products
<1>6. \A i \in Cell : i \in Nat /\ top * Width + i \in Nat
  <2> DEFINE w == top * Width
  <2>1. w \in Nat /\ Cell \subseteq Nat
    BY <1>1, <1>5
  <2> HIDE DEF w
  <2>2. \A i \in Cell : i \in Nat /\ w + i \in Nat
    BY <2>1
  <2> QED BY <2>2 DEF w
<1>7. ASSUME NEW a \in Nat, a >= (row + 1) * Width PROVE Inked(ds, a) = {}
  <2>1. a # p
    <3> DEFINE w == row * Width
               v == (row + 1) * Width
    <3>1. w \in Nat /\ v = w + Width /\ p = w + x /\ a >= v
      BY <1>1, <1>7
    <3> HIDE DEF w, v
    <3> QED BY <1>1, <3>1
  <2> QED BY <1>3, <1>4, <1>7, <2>1
<1>8. ASSUME NEW i \in Cell PROVE n.text[i] = Ink(ds, top * Width + i)
  <2>1. CASE c \in Controls
    <3>1. n.text = s.text
      BY <1>2, <2>1 DEF Struck, Controls, Screens
    <3> HIDE DEF n
    <3> QED BY <1>3, <1>4, <1>6, <2>1, <3>1
  <2>2. CASE c \notin Controls
    <3> DEFINE e == (row - top) * Width + x
    <3>1. n = [s EXCEPT !.text[e] = c, !.cur_x = x + 1]
      BY <1>2, <2>2 DEF Struck, Controls
    <3>2. e = p - top * Width
      <4> DEFINE d == row - top
      <4>1. d \in Nat /\ row = d + top
        BY <1>1
      <4> HIDE DEF d
      <4>2. Width * (d + top) = Width * d + Width * top /\ Width * d = d * Width
            /\ Width * top = top * Width /\ Width * (d + top) = (d + top) * Width
            /\ d * Width \in Nat
        BY <1>1, <4>1, Products
      <4>3. d * Width + x = p - top * Width
        <5> DEFINE w == top * Width
                   v == d * Width
                   u == row * Width
        <5>1. w \in Nat /\ v \in Nat /\ u = v + w /\ p = u + x
          <6>1. u = v + w
            BY <4>1, <4>2
          <6> QED BY <1>1, <1>5, <4>2, <6>1
        <5> HIDE DEF w, v, u
        <5>2. v + x = p - w
          BY <1>1, <5>1
        <5> QED BY <5>2 DEF v, w
      <4> QED BY <4>3 DEF d
    <3> HIDE DEF n, e
    <3>3. n.text = [s.text EXCEPT ![e] = c] /\ s.text \in [Cell -> C]
      BY <1>2, <3>1 DEF Screens
    <3>4. n.text[i] = IF i = e THEN c ELSE s.text[i]
      BY <3>3
    <3>5. CASE i = e
      <4>1. top * Width + i = p
        BY <1>1, <1>5, <3>2, <3>5
      <4> QED BY <1>4, <2>2, <3>4, <3>5, <4>1
    <3>6. CASE i # e
      <4>1. top * Width + i # p
        BY <1>1, <1>5, <3>2, <3>6
      <4> QED BY <1>3, <1>4, <1>6, <3>4, <3>6, <4>1
    <3> QED BY <3>5, <3>6
  <2> QED BY <2>1, <2>2
<1> QED BY <1>7, <1>8 DEF Lit, n, top, ds

\* A line that is full is left.
Outgrown(C, s, n, r, t, q) ==
  \E z \in {r, r + 1} :
    /\ q = z * Width + n.cur_x
    /\ n.cur_y = z - t
    /\ z # r => s.cur_x = Width
    /\ n \in Between(C) /\ n.cur_x \in 0 .. Width - 1
    /\ n.text = s.text

LEMMA WrappedFits ==
  ASSUME NEW C, NEW s \in Between(C), NEW r \in Nat, NEW t \in Nat, NEW q,
         q = r * Width + s.cur_x, s.cur_y = r - t, r - t \in 0 .. Height,
         r - t = Height => s.cur_x = 0
  PROVE  Outgrown(C, s, Wrapped(s), r, t, q)
<1>1. Width \in Nat \ {0} /\ Height \in Nat \ {0} /\ s.cur_x \in 0 .. Width
  BY Sizes DEF Between
<1>2. CASE s.cur_x = Width
  <2> DEFINE n == Wrapped(s)
  <2>1. n = [s EXCEPT !.cur_x = 0, !.cur_y = (r + 1) - t]
    <3>1. s.cur_y + 1 = (r + 1) - t
      BY <1>1
    <3>2. n = [s EXCEPT !.cur_x = 0, !.cur_y = s.cur_y + 1]
      BY <1>1, <1>2 DEF Wrapped
    <3> HIDE DEF n
    <3> QED BY <3>1, <3>2
  <2>2. 0 \in 0 .. Width - 1 /\ 0 \in 0 .. Width /\ (r + 1) - t \in 0 .. Height
    BY <1>1, <1>2
  <2> HIDE DEF n
  <2>3. n \in Between(C) /\ n.cur_x = 0 /\ n.cur_y = (r + 1) - t /\ n.text = s.text
    BY <2>1, <2>2 DEF Between
  <2>4. q = (r + 1) * Width + 0
    <3>1. (r + 1) * Width = r * Width + Width /\ r * Width \in Nat
      BY <1>1, Products
    <3> QED BY <1>1, <1>2, <3>1
  <2> QED BY <1>2, <2>2, <2>3, <2>4 DEF n, Outgrown
<1>3. CASE s.cur_x # Width
  <2>1. s.cur_x < Width /\ ~ (s.cur_x >= Width) /\ s.cur_x \in 0 .. Width - 1
    BY <1>1, <1>3
  <2>2. Wrapped(s) = s
    BY <2>1 DEF Wrapped
  <2> QED BY <2>1, <2>2 DEF Outgrown
<1> QED BY <1>2, <1>3

\* The rows move up when the pen leaves the last one.
LEMMA ScrolledFits ==
  ASSUME NEW C, Blank \in C, NEW s \in Between(C), NEW cs, NEW row \in Nat,
         NEW r \in {row, row + 1},
         s.cur_x \in 0 .. Width - 1, s.cur_y = r - Top(row), Lit(s, cs, row, Top(row))
  PROVE  /\ Scrolled(s) \in Screens(C)
         /\ Scrolled(s).cur_x = s.cur_x /\ Scrolled(s).cur_y = r - Top(r)
         /\ Lit(Scrolled(s), cs, r, Top(r))
<1> DEFINE top == Top(row)
           n == Scrolled(s)
<1>1. /\ Width \in Nat \ {0} /\ Height \in Nat \ {0} /\ Cells \in Nat
      /\ Cells = Height * Width /\ Cell = 0 .. Cells - 1
      /\ top \in Nat /\ r \in Nat /\ r - top \in 0 .. Height
  <2>1. top \in Nat /\ row - top \in 0 .. Height - 1
    BY TopFacts
  <2> HIDE DEF top
  <2>2. r \in Nat /\ r - top \in 0 .. Height
    BY Sizes, <2>1
  <2> QED BY Sizes, <2>1, <2>2
<1>2. /\ \A i \in Cell : s.text[i] = Ink(cs, top * Width + i)
      /\ \A a \in Nat : a >= (row + 1) * Width => Inked(cs, a) = {}
  BY DEF Lit
<1>3. s.text \in [Cell -> C] /\ s.cursor \in Nat
  BY DEF Between
<1>4. \A a \in Nat : a >= (r + 1) * Width => Inked(cs, a) = {}
  <2>1. (row + 1) * Width <= (r + 1) * Width /\ (row + 1) * Width \in Nat
        /\ (r + 1) * Width \in Nat
    <3>1. row + 1 \in Nat /\ r + 1 \in Nat /\ row + 1 <= r + 1
      BY <1>1
    <3> HIDE DEF top
    <3> QED BY <1>1, <3>1, Products
  <2> DEFINE v == (row + 1) * Width
             w == (r + 1) * Width
  <2>2. v <= w /\ v \in Nat /\ w \in Nat /\ \A a \in Nat : a >= v => Inked(cs, a) = {}
    BY <1>2, <2>1
  <2> HIDE DEF v, w
  <2>3. \A a \in Nat : a >= w => Inked(cs, a) = {}
    BY <2>2
  <2> QED BY <2>3 DEF w
<1>5. CASE r - top < Height
  <2>1. n = s
    BY <1>5 DEF Scrolled
  <2>2. Top(r) = top
    BY <1>1, <1>5 DEF Top
  <2>3. r - top \in 0 .. Height - 1
    BY <1>1, <1>5
  <2>4. s \in Screens(C)
    BY <1>3, <2>3 DEF Between, Screens
  <2> HIDE DEF n, top
  <2>5. Lit(n, cs, r, Top(r))
    BY <1>2, <1>4, <2>1, <2>2 DEF Lit
  <2> QED BY <2>1, <2>2, <2>4, <2>5 DEF n, top
<1>6. CASE r - top = Height
  <2>1. r = row + 1 /\ Top(r) = top + 1 /\ r = top + Height
    BY <1>1, <1>6 DEF Top
  <2>2. Surplus(s) = 1
    <3> HIDE DEF top
    <3>1. s.cur_y = Height
      BY <1>6 DEF top
    <3> QED BY <1>1, <3>1 DEF Surplus
  <2> DEFINE kept == (Height - 1) * Width
             text == [i \in Cell |-> IF i < kept THEN s.text[i + 1 * Width]
                                     ELSE IF i < kept + Width THEN Blank ELSE s.text[i]]
  <2>3. n = [s EXCEPT !.text = text, !.cur_y = Height - 1]
    <3>1. s.cur_y = Height /\ ~ (s.cur_y < Height)
      BY <1>1, <1>6
    <3> QED BY <2>2, <3>1 DEF Scrolled
  <2>4. kept \in Nat /\ kept + Width = Cells
    <3> DEFINE h == Height - 1
    <3>1. h \in Nat /\ Height = h + 1
      BY <1>1
    <3> HIDE DEF h
    <3>2. h * Width \in Nat /\ (h + 1) * Width = h * Width + Width
      BY <1>1, <3>1, Products
    <3>3. h * Width + Width = Cells
      BY <1>1, <3>1, <3>2
    <3> QED BY <3>2, <3>3 DEF h
  <2> HIDE DEF kept
  <2>5. ASSUME NEW i \in Cell
        PROVE  /\ i < kept => i + Width \in Cell /\ text[i] = s.text[i + Width]
               /\ ~ (i < kept) => text[i] = Blank
    <3>1. i \in Nat /\ i < kept + Width /\ 1 * Width = Width
      BY <1>1, <2>4
    <3> HIDE DEF top, n
    <3>2. i < kept => i + Width \in Cell
      BY <1>1, <2>4, <3>1
    <3> QED BY <3>1, <3>2
  <2>6. text \in [Cell -> C]
    <3>1. \A i \in Cell : text[i] \in C
      <4> HIDE DEF text
      <4> QED BY <1>3, <2>5
    <3>2. text = [i \in Cell |-> text[i]]
      OBVIOUS
    <3> HIDE DEF text
    <3> QED BY <3>1, <3>2
  <2> HIDE DEF text, n
  <2>7. /\ n.text = text /\ n.cur_x = s.cur_x /\ n.cur_y = Height - 1 /\ n.cursor = s.cursor
        /\ n = [text |-> n.text, cur_x |-> n.cur_x, cur_y |-> n.cur_y, cursor |-> n.cursor]
    BY <2>3 DEF Between
  <2>8. n \in Screens(C)
    <3>1. Height - 1 \in 0 .. Height - 1
      BY <1>1
    <3> QED BY <1>3, <2>6, <2>7, <3>1 DEF Screens
  <2>9. n.cur_y = r - Top(r)
    BY <1>1, <2>1, <2>7
  <2>10. top * Width \in Nat /\ (top + 1) * Width = top * Width + Width
         /\ (top + Height) * Width = top * Width + kept + Width
         /\ (r + 1) * Width = r * Width + Width /\ r * Width \in Nat
    <3> HIDE DEF top
    <3>1. /\ top * Width \in Nat /\ (top + 1) * Width = top * Width + Width
          /\ (r + 1) * Width = r * Width + Width /\ r * Width \in Nat
      BY <1>1, Products
    <3>2. /\ (top + Height) * Width = Width * (top + Height)
          /\ Width * (top + Height) = Width * top + Width * Height
          /\ Width * top = top * Width /\ Width * Height = Height * Width
      <4>1. top + Height \in Nat
        BY <1>1
      <4> QED BY <1>1, <4>1, Products
    <3>3. (top + Height) * Width = top * Width + kept + Width
      <4> DEFINE u == top * Width
      <4>1. u \in Nat /\ (top + Height) * Width = u + Cells
        BY <1>1, <3>1, <3>2
      <4> HIDE DEF u
      <4>2. u + Cells = u + kept + Width
        BY <1>1, <2>4, <4>1
      <4> QED BY <4>1, <4>2 DEF u
    <3> QED BY <3>1, <3>3
  <2>11. ASSUME NEW i \in Cell PROVE n.text[i] = Ink(cs, (top + 1) * Width + i)
    <3> DEFINE w == top * Width
               v == r * Width
    <3>1. w \in Nat /\ (top + 1) * Width = w + Width /\ v = w + kept + Width /\ v \in Nat
          /\ i \in Nat /\ Width \in Nat
      <4>1. i \in Nat
        BY <1>1
      <4>2. v = (top + Height) * Width
        BY <2>1
      <4> QED BY <1>1, <2>10, <4>1, <4>2
    <3>2. \A j \in Cell : s.text[j] = Ink(cs, w + j)
      BY <1>2
    <3>3. \A a \in Nat : a >= v => Inked(cs, a) = {}
      BY <1>2, <2>1
    <3> HIDE DEF w, v, top
    <3>4. CASE i < kept
      <4>1. n.text[i] = Ink(cs, w + (i + Width))
        BY <2>5, <2>7, <3>2, <3>4
      <4>2. w + (i + Width) = (w + Width) + i
        BY <3>1
      <4> QED BY <3>1, <4>1, <4>2
    <3>5. CASE ~ (i < kept)
      <4>1. n.text[i] = Blank
        BY <2>5, <2>7, <3>5
      <4>2. w + Width + i \in Nat /\ w + Width + i >= v
        BY <2>4, <3>1, <3>5
      <4>3. Ink(cs, w + Width + i) = Blank
        BY <3>3, <4>2 DEF Ink
      <4> QED BY <3>1, <4>1, <4>3
    <3> QED BY <3>4, <3>5
  <2>12. Lit(n, cs, r, Top(r))
    BY <1>4, <2>1, <2>11 DEF Lit
  <2> QED BY <2>7, <2>8, <2>9, <2>12 DEF n
<1>7. r - top < Height \/ r - top = Height
  BY <1>1
<1> QED BY <1>5, <1>6, <1>7

LEMMA PutcFits ==
  ASSUME NEW C, Blank \in C, NEW c \in C, NEW cs \in Seq(C), NEW s,
         Fits(C, s, cs, Path(cs)[Len(cs)])
  PROVE  Fits(C, Putc(s, c), Append(cs, c), Path(Append(cs, c))[Len(Append(cs, c))])
<1> DEFINE p == Path(cs)[Len(cs)]
           ds == Append(cs, c)
           q == Path(ds)[Len(ds)]
           row == p \div Width
           a == Struck(s, c)
           b == Wrapped(a)
           d == Scrolled(b)
<1>1. p \in Nat
  <2>1. Len(cs) \in 0 .. Len(cs)
    OBVIOUS
  <2> QED BY <2>1, PathFacts
<1>2. q = PenAfter(p, c) /\ ds \in Seq(C)
  <2>1. Len(ds) = Len(cs) + 1 /\ ds \in Seq(C)
    OBVIOUS
  <2> QED BY <2>1, PathAppend
<1>3. q \in Nat
  BY <1>1, <1>2, PenStays
<1> HIDE DEF p, ds, q
<1>4. row \in Nat /\ Width \in Nat \ {0} /\ Height \in Nat \ {0}
      /\ Top(row) \in Nat /\ row - Top(row) \in 0 .. Height - 1
  BY <1>1, Sizes, PenAt, TopFacts
<1>5. Fits(C, s, cs, p)
  BY DEF p
<1> HIDE DEF row
<1>6. Lit(a, ds, row, Top(row))
  <2>1. p = Path(cs)[Len(cs)] /\ row = p \div Width
    BY DEF p, row
  <2>2. Lit(Struck(s, c), Append(cs, c), row, Top(row))
    BY <1>1, <1>5, <2>1, StruckLights
  <2> QED BY <2>2 DEF ds
<1>7. /\ a \in Between(C)
      /\ \E r \in {row, row + 1} : /\ q = r * Width + a.cur_x /\ a.cur_y = r - Top(row)
                                   /\ r = row + 1 => a.cur_x = 0
  <2>1. row = p \div Width
    BY DEF row
  <2> HIDE DEF a
  <2> QED BY <1>1, <1>2, <1>5, <2>1, StruckMoves DEF a
<1> HIDE DEF a
<1>8. PICK r \in {row, row + 1} : /\ q = r * Width + a.cur_x /\ a.cur_y = r - Top(row)
                                  /\ r = row + 1 => a.cur_x = 0
  BY <1>7
<1>9. r \in Nat /\ r - Top(row) \in 0 .. Height /\ (r - Top(row) = Height => a.cur_x = 0)
  BY <1>4, <1>8
<1>10. \E z \in {r, r + 1} :
         /\ q = z * Width + b.cur_x /\ b.cur_y = z - Top(row)
         /\ z # r => a.cur_x = Width
         /\ b \in Between(C) /\ b.cur_x \in 0 .. Width - 1 /\ b.text = a.text
  <2> DEFINE t == Top(row)
  <2>1. /\ t \in Nat /\ r - t \in 0 .. Height /\ a.cur_y = r - t /\ q = r * Width + a.cur_x
        /\ r - t = Height => a.cur_x = 0
    BY <1>4, <1>8, <1>9
  <2> HIDE DEF t
  <2>2. Outgrown(C, a, Wrapped(a), r, t, q)
    BY <1>7, <1>9, <2>1, WrappedFits
  <2> QED BY <2>2 DEF Outgrown, t
<1> HIDE DEF b
<1>11. PICK z \in {r, r + 1} :
         /\ q = z * Width + b.cur_x /\ b.cur_y = z - Top(row)
         /\ z # r => a.cur_x = Width
         /\ b \in Between(C) /\ b.cur_x \in 0 .. Width - 1 /\ b.text = a.text
  BY <1>10
<1>12. z \in {row, row + 1}
  BY <1>4, <1>8, <1>11
<1>13. Lit(b, ds, row, Top(row))
  BY <1>6, <1>11 DEF Lit
<1>14. /\ d \in Screens(C) /\ d.cur_x = b.cur_x /\ d.cur_y = z - Top(z)
       /\ Lit(d, ds, z, Top(z))
  <2>1. d = Scrolled(b)
    OBVIOUS
  <2> HIDE DEF d, ds
  <2>2. row \in Nat /\ b \in Between(C) /\ b.cur_x \in 0 .. Width - 1 /\ b.cur_y = z - Top(row)
    BY <1>4, <1>11
  <2>3. /\ Scrolled(b) \in Screens(C) /\ Scrolled(b).cur_x = b.cur_x
        /\ Scrolled(b).cur_y = z - Top(z) /\ Lit(Scrolled(b), ds, z, Top(z))
    BY <1>12, <1>13, <2>2, ScrolledFits
  <2> QED BY <2>1, <2>3
<1> HIDE DEF d
<1> DEFINE x == b.cur_x
<1>15. z \in Nat /\ x \in 0 .. Width - 1 /\ q = z * Width + x
  BY <1>4, <1>11, <1>12
<1> HIDE DEF x
<1>16. q \div Width = z /\ q % Width = x
  <2>1. z * Width = Width * z
    BY <1>4, <1>15, Products
  <2>2. q = Width * z + x
    BY <1>15, <2>1
  <2> QED BY <1>4, <1>15, <2>2, Quotient, ZenonT(30)
<1>17. Top(z) \in Nat /\ z - Top(z) \in 0 .. Height - 1
  BY <1>15, TopFacts
<1>18. (z - Top(z)) * Width + x = q - Top(z) * Width /\ q - Top(z) * Width \in Nat
  <2> DEFINE t == Top(z)
             e == z - t
  <2>1. t \in Nat /\ e \in Nat /\ z = e + t
    BY <1>15, <1>17
  <2> HIDE DEF t, e
  <2>2. /\ (e + t) * Width = Width * (e + t) /\ Width * (e + t) = Width * e + Width * t
        /\ Width * e = e * Width /\ Width * t = t * Width
        /\ e * Width \in Nat /\ t * Width \in Nat
    BY <1>4, <2>1, Products
  <2> DEFINE u == e * Width
             w == t * Width
  <2>3. u \in Nat /\ w \in Nat /\ z * Width = u + w
    BY <2>1, <2>2
  <2> HIDE DEF u, w
  <2>4. u + x = q - w /\ q - w \in Nat
    BY <1>4, <1>15, <2>3
  <2> QED BY <2>4 DEF u, w, t, e
<1> DEFINE n == Putc(s, c)
<1>19. n = [d EXCEPT !.cursor = d.cur_y * Width + d.cur_x]
  BY DEF Putc, Moved, d, b, a
<1>20. n = [d EXCEPT !.cursor = q - Top(z) * Width]
  <2>1. d.cur_y * Width + d.cur_x = q - Top(z) * Width
    BY <1>14, <1>18 DEF x
  <2> HIDE DEF n
  <2> QED BY <1>19, <2>1
<1> HIDE DEF n
<1> DEFINE k == q - Top(z) * Width
<1>21. k \in Nat /\ n = [d EXCEPT !.cursor = k]
  BY <1>18, <1>20
<1> HIDE DEF k
<1>22. /\ n \in Screens(C) /\ n.cur_x = x /\ n.cur_y = z - Top(z) /\ n.cursor = k
       /\ n.text = d.text
  BY <1>14, <1>21 DEF Screens, x
<1>23. Lit(n, ds, z, Top(z))
  BY <1>14, <1>22 DEF Lit
<1>24. Fits(C, n, ds, q)
  BY <1>16, <1>22, <1>23 DEF Fits, k
<1> QED BY <1>24 DEF n, ds, q

\* The screen fits what was printed.
Follow(C, s, cs) == Fits(C, s, cs, Path(cs)[Len(cs)])

LEMMA ClearedFits ==
  ASSUME NEW C, Blank \in C
  PROVE  Follow(C, Cleared, <<>>)
<1>1. <<>> \in Seq(C) /\ Len(<<>>) = 0
  OBVIOUS
<1>2. Path(<<>>)[0] = 0
  BY <1>1, PathFacts
<1>3. Width \in Nat \ {0} /\ Height \in Nat \ {0}
  BY Sizes
<1>4. 0 \div Width = 0 /\ 0 % Width = 0
  <2>1. Width * 0 + 0 = 0 /\ 0 \in 0 .. Width - 1
    BY <1>3
  <2>2. (Width * 0 + 0) \div Width = 0 /\ (Width * 0 + 0) % Width = 0
    BY <1>3, <2>1, Quotient
  <2> QED BY <2>1, <2>2
<1>5. Top(0) = 0 /\ 0 * Width = 0
  BY <1>3 DEF Top
<1>6. /\ Cleared.text = [i \in Cell |-> Blank] /\ Cleared.cur_x = 0 /\ Cleared.cur_y = 0
      /\ Cleared.cursor = 0
      /\ Cleared = [text |-> Cleared.text, cur_x |-> Cleared.cur_x, cur_y |-> Cleared.cur_y,
                    cursor |-> Cleared.cursor]
  BY DEF Cleared
<1>7. Cleared \in Screens(C)
  <2>1. 0 \in 0 .. Width - 1 /\ 0 \in 0 .. Height - 1 /\ 0 \in Nat
    BY <1>3
  <2>2. [i \in Cell |-> Blank] \in [Cell -> C]
    OBVIOUS
  <2> QED BY <1>6, <2>1, <2>2 DEF Screens
<1>8. \A a : Inked(<<>>, a) = {} /\ Ink(<<>>, a) = Blank
  BY DEF Inked, Ink
<1>9. Lit(Cleared, <<>>, 0, 0)
  BY <1>6, <1>8 DEF Lit
<1> QED BY <1>1, <1>2, <1>4, <1>5, <1>6, <1>7, <1>9 DEF Follow, Fits

\* One more of the characters of a sequence.
LEMMA SubSeqAppend ==
  ASSUME NEW C, NEW ds \in Seq(C), NEW k \in 0 .. Len(ds) - 1
  PROVE  SubSeq(ds, 1, k + 1) = Append(SubSeq(ds, 1, k), ds[k + 1])
<1>1. 1 \in 1 .. Len(ds) /\ k + 1 \in 1 .. Len(ds) /\ (k + 1) - 1 = k
  OBVIOUS
<1>2. SubSeq(ds, 1, k + 1) = SubSeq(ds, 1, (k + 1) - 1) \o <<ds[k + 1]>>
  BY <1>1, SubSeqRecursiveSecond
<1>3. SubSeq(ds, 1, k) \in Seq(C) /\ ds[k + 1] \in C
  <2>1. \A i \in 1 .. k : ds[i] \in C
    OBVIOUS
  <2> QED BY <1>1, <2>1, SubSeqProperties
<1> QED BY <1>1, <1>2, <1>3, AppendIsConcat

LEMMA PutFits ==
  ASSUME NEW C, Blank \in C, NEW cs \in Seq(C), NEW ds \in Seq(C), NEW s, Follow(C, s, cs)
  PROVE  Follow(C, Put(s, ds), cs \o ds)
<1> DEFINE n == Len(ds)
           Upto(k) == cs \o SubSeq(ds, 1, k)
           After(h) == h = [k \in 0 .. n |-> IF k = 0 THEN s ELSE Putc(h[k - 1], ds[k])]
           D == Screens(C)
           g == [x \in Nat \X D |-> IF Putc(x[2], ds[x[1]]) \in D
                                      THEN Putc(x[2], ds[x[1]]) ELSE x[2]]
<1>1. n \in Nat /\ \A k \in 1 .. n : ds[k] \in C
  OBVIOUS
<1>2. \A k \in 0 .. n : Upto(k) \in Seq(C)
  <2> SUFFICES ASSUME NEW k \in 0 .. n PROVE Upto(k) \in Seq(C)
    OBVIOUS
  <2>1. SubSeq(ds, 1, k) \in Seq(C)
    <3>1. \A i \in 1 .. k : ds[i] \in C
      BY <1>1
    <3> QED BY <3>1, SubSeqProperties
  <2> QED BY <2>1, ConcatProperties
<1>3. Upto(0) = cs
  <2>1. SubSeq(ds, 1, 0) = <<>>
    BY SubSeqEmpty
  <2> QED BY <2>1, ConcatEmptySeq
<1>4. Upto(n) = cs \o ds
  <2>1. SubSeq(ds, 1, n) = ds
    BY SubSeqFull
  <2> QED BY <2>1
<1>5. ASSUME NEW k \in 0 .. n - 1 PROVE Upto(k + 1) = Append(Upto(k), ds[k + 1])
  <2>1. SubSeq(ds, 1, k + 1) = Append(SubSeq(ds, 1, k), ds[k + 1])
    BY SubSeqAppend
  <2> QED OBVIOUS
<1> HIDE DEF n, Upto
<1>6. ASSUME NEW k \in 0 .. n - 1, NEW t, Follow(C, t, Upto(k))
      PROVE  Putc(t, ds[k + 1]) \in D /\ Follow(C, Putc(t, ds[k + 1]), Upto(k + 1))
  <2>1. Upto(k) \in Seq(C) /\ ds[k + 1] \in C
    BY <1>1, <1>2
  <2> DEFINE e == Upto(k)
             c == ds[k + 1]
  <2>2. e \in Seq(C) /\ c \in C /\ Fits(C, t, e, Path(e)[Len(e)])
    BY <1>6, <2>1 DEF Follow
  <2> HIDE DEF e, c
  <2>3. Follow(C, Putc(t, c), Append(e, c))
    BY <2>2, PutcFits DEF Follow
  <2>4. Putc(t, c) \in D
    BY <2>3 DEF Follow, Fits
  <2> QED BY <1>5, <2>3, <2>4 DEF e, c
<1>7. ASSUME NEW h, h[0] = s,
             \A k \in 0 .. n - 1 : Follow(C, h[k], Upto(k)) => h[k + 1] = Putc(h[k], ds[k + 1])
      PROVE  \A k \in 0 .. n : Follow(C, h[k], Upto(k))
  <2> DEFINE S == {k \in Nat : k <= n => Follow(C, h[k], Upto(k))}
  <2>1. 0 \in S
    BY <1>3, <1>7
  <2>2. ASSUME NEW k \in Nat, k \in S PROVE k + 1 \in S
    <3> SUFFICES ASSUME k + 1 <= n PROVE Follow(C, h[k + 1], Upto(k + 1))
      OBVIOUS
    <3>1. k \in 0 .. n - 1 /\ Follow(C, h[k], Upto(k))
      BY <1>1, <2>2
    <3> QED BY <1>6, <1>7, <3>1
  <2>3. Nat \subseteq S
    <3> HIDE DEF S
    <3> QED BY <2>1, <2>2, Induction
  <2> QED BY <1>1, <2>3
<1>8. \E h : After(h)
  <2>1. s \in D /\ g \in [Nat \X D -> D]
    BY DEF Follow, Fits
  <2>2. PICK h : Iterates(h, n, s, g)
    <3> HIDE DEF g, D
    <3> QED BY <1>1, <2>1, Iteration
  <2>3. Runs(h, n, D, s, g)
    <3> HIDE DEF g, D
    <3> QED BY <1>1, <2>1, <2>2, Iterated
  <2>4. h \in [0 .. n -> D] /\ h[0] = s /\ \A k \in 1 .. n : h[k] = g[<<k, h[k - 1]>>]
    BY <2>3 DEF Runs
  <2>5. ASSUME NEW k \in 0 .. n - 1, Follow(C, h[k], Upto(k))
        PROVE  h[k + 1] = Putc(h[k], ds[k + 1])
    <3>1. k + 1 \in 1 .. n /\ (k + 1) - 1 = k /\ k + 1 \in Nat /\ k \in 0 .. n
      BY <1>1
    <3>2. h[k + 1] = g[<<k + 1, h[k]>>] /\ h[k] \in D
      BY <2>4, <3>1
    <3>3. Putc(h[k], ds[k + 1]) \in D
      BY <1>6, <2>5
    <3> HIDE DEF D
    <3> QED BY <3>1, <3>2, <3>3
  <2> HIDE DEF g
  <2>6. \A k \in 0 .. n : Follow(C, h[k], Upto(k))
    BY <1>7, <2>4, <2>5
  <2>7. ASSUME NEW k \in 0 .. n PROVE h[k] = IF k = 0 THEN s ELSE Putc(h[k - 1], ds[k])
    <3>1. CASE k = 0
      BY <2>4, <3>1
    <3>2. CASE k # 0
      <4>1. k - 1 \in 0 .. n - 1 /\ k - 1 \in 0 .. n /\ (k - 1) + 1 = k
        BY <1>1, <3>2
      <4>2. h[k] = Putc(h[k - 1], ds[k])
        BY <2>5, <2>6, <4>1
      <4> QED BY <3>2, <4>2
    <3> QED BY <3>1, <3>2
  <2>8. h = [k \in 0 .. n |-> h[k]]
    BY <2>4
  <2>9. After(h)
    BY <2>7, <2>8
  <2> HIDE DEF After
  <2> QED BY <2>9
<1> DEFINE f == CHOOSE h : After(h)
<1>9. Put(s, ds) = f[n]
  BY DEF Put, n
<1>10. After(f)
  <2> HIDE DEF After
  <2> QED BY <1>8
<1> HIDE DEF f
<1>11. f[0] = s /\ \A k \in 0 .. n - 1 : f[k + 1] = Putc(f[k], ds[k + 1])
  <2>1. \A k \in 0 .. n : f[k] = IF k = 0 THEN s ELSE Putc(f[k - 1], ds[k])
    BY <1>10
  <2>2. 0 \in 0 .. n
    BY <1>1
  <2>3. f[0] = s
    BY <2>1, <2>2
  <2>4. ASSUME NEW k \in 0 .. n - 1 PROVE f[k + 1] = Putc(f[k], ds[k + 1])
    <3>1. k + 1 \in 0 .. n /\ k + 1 # 0 /\ (k + 1) - 1 = k
      BY <1>1
    <3> QED BY <2>1, <3>1
  <2> QED BY <2>3, <2>4
<1>12. Follow(C, f[n], Upto(n))
  BY <1>1, <1>7, <1>11
<1> QED BY <1>4, <1>9, <1>12

\* A screen that fits shows what was printed.
LEMMA FollowShows ==
  ASSUME NEW C, NEW cs, NEW s, Follow(C, s, cs)
  PROVE  Shows(s, cs)
BY DEF Follow, Fits, Lit, Shows, Top
-----------------------------------------------------------------------------
(***************************************************************************)
(* The digits of a number.                                                 *)
(***************************************************************************)
LEMMA PowerFacts ==
  ASSUME NEW b \in Nat \ {0}
  PROVE  /\ Powers(b)[0] = 1
         /\ \A k \in Nat : Powers(b)[k] \in Nat \ {0}
         /\ \A k \in Nat : Powers(b)[k + 1] = Powers(b)[k] * b
<1> DEFINE D == Nat \ {0}
           g == [x \in Nat \X D |-> x[2] * b]
           Power(f) == f = [k \in Nat |-> IF k = 0 THEN 1 ELSE f[k - 1] * b]
           p == Powers(b)
<1>1. g \in [Nat \X D -> D]
  BY Products
<1>2. PICK f \in [Nat -> D] : Recursive(f, 1, g)
  <2>1. 1 \in D
    OBVIOUS
  <2> HIDE DEF D, g
  <2> QED BY <1>1, <2>1, Recursion
<1>3. f[0] = 1 /\ \A n \in Nat : f[n + 1] = f[n] * b
  BY <1>2 DEF Recursive
<1>4. Power(f)
  <2>1. ASSUME NEW k \in Nat PROVE f[k] = IF k = 0 THEN 1 ELSE f[k - 1] * b
    <3>1. CASE k = 0
      BY <1>3, <3>1
    <3>2. CASE k # 0
      <4>1. k - 1 \in Nat /\ (k - 1) + 1 = k
        BY <3>2
      <4> QED BY <1>3, <3>2, <4>1
    <3> QED BY <3>1, <3>2
  <2> QED BY <1>2, <2>1
<1>5. p = CHOOSE h : Power(h)
  BY DEF Powers
<1>6. Power(p)
  <2> HIDE DEF Power, p
  <2> QED BY <1>4, <1>5
<1> HIDE DEF p
<1>7. ASSUME NEW k \in Nat PROVE p[k] = IF k = 0 THEN 1 ELSE p[k - 1] * b
  BY <1>6
<1>8. p[0] = 1
  BY <1>7
<1>9. \A k \in Nat : p[k + 1] = p[k] * b
  <2> SUFFICES ASSUME NEW k \in Nat PROVE p[k + 1] = p[k] * b
    OBVIOUS
  <2>1. k + 1 \in Nat /\ k + 1 # 0 /\ (k + 1) - 1 = k
    OBVIOUS
  <2> QED BY <1>7, <2>1
<1>10. \A k \in Nat : p[k] \in D
  <2> DEFINE S == {k \in Nat : p[k] \in D}
  <2>1. 0 \in S
    BY <1>8
  <2>2. \A k \in Nat : k \in S => k + 1 \in S
    BY <1>9, Products
  <2>3. Nat \subseteq S
    <3> HIDE DEF S
    <3> QED BY <2>1, <2>2, Induction
  <2> QED BY <2>3
<1> QED BY <1>8, <1>9, <1>10 DEF p

\* Numbers of Bits bits have a place for each digit, and no more than they need.
LEMMA PlacesFacts ==
  ASSUME NEW base \in Nat, base > 1, NEW n \in 0 .. Modulus - 1
  PROVE  /\ Places(n, base) \in 1 .. Bits
         /\ n < Powers(base)[Places(n, base)]
         /\ Places(n, base) > 1 => Powers(base)[Places(n, base) - 1] <= n
<1> DEFINE p == Powers(base)
           two == Powers(2)
           Fit(k) == n < p[k] /\ (k > 1 => p[k - 1] <= n)
<1>1. Bits \in Nat /\ Bits > 3
  BY VsprintfAssumption
<1>2. p[0] = 1 /\ \A k \in Nat : p[k] \in Nat \ {0} /\ p[k + 1] = p[k] * base
  BY PowerFacts
<1>3. two[0] = 1 /\ \A k \in Nat : two[k] \in Nat \ {0} /\ two[k + 1] = two[k] * 2
  BY PowerFacts
<1>4. Modulus = two[Bits]
  BY DEF Modulus
<1>5. Places(n, base) = CHOOSE k \in 1 .. Bits : Fit(k)
  BY DEF Places
<1> HIDE DEF p, two
<1>6. \A k \in Nat : two[k] <= p[k]
  <2> DEFINE S == {k \in Nat : two[k] <= p[k]}
  <2>1. 0 \in S
    BY <1>2, <1>3
  <2>2. ASSUME NEW k \in Nat, k \in S PROVE k + 1 \in S
    <3> DEFINE u == two[k]
               v == p[k]
    <3>1. u \in Nat /\ v \in Nat /\ u <= v /\ two[k + 1] = u * 2 /\ p[k + 1] = v * base
      BY <1>2, <1>3, <2>2
    <3> HIDE DEF u, v
    <3>2. u * 2 <= v * 2 /\ v * 2 = 2 * v /\ 2 * v <= base * v /\ base * v = v * base
      BY <3>1, Products
    <3>3. u * 2 \in Nat /\ v * 2 \in Nat /\ v * base \in Nat
      BY <3>1, Products
    <3>4. u * 2 <= v * base
      <4> DEFINE e == u * 2
                 f == v * 2
                 h == v * base
      <4>1. e \in Nat /\ f \in Nat /\ h \in Nat /\ e <= f /\ f <= h
        BY <3>2, <3>3
      <4> HIDE DEF e, f, h
      <4>2. e <= h
        BY <4>1
      <4> QED BY <4>2 DEF e, h
    <3> QED BY <3>1, <3>4
  <2>3. Nat \subseteq S
    <3> HIDE DEF S
    <3> QED BY <2>1, <2>2, Induction
  <2> QED BY <2>3
<1>7. \E k \in 1 .. Bits : Fit(k)
  <2> DEFINE T == {k \in Nat : k # 0 /\ n < p[k]}
  <2>1. Bits \in T
    BY <1>1, <1>2, <1>3, <1>4, <1>6
  <2>2. PICK k \in T : \A m \in T : k <= m
    <3>1. T \subseteq Nat /\ T # {}
      BY <2>1
    <3> HIDE DEF T
    <3> QED BY <3>1, Smallest
  <2>3. k \in 1 .. Bits /\ n < p[k]
    BY <1>1, <2>1, <2>2
  <2>4. ASSUME k > 1 PROVE p[k - 1] <= n
    <3>1. k - 1 \in Nat /\ k - 1 # 0 /\ ~ (k <= k - 1)
      BY <2>3, <2>4
    <3>2. k - 1 \notin T
      BY <2>2, <3>1
    <3> QED BY <1>2, <3>1, <3>2
  <2> QED BY <2>3, <2>4
<1>8. Places(n, base) \in 1 .. Bits /\ Fit(Places(n, base))
  <2> DEFINE k == Places(n, base)
  <2> HIDE DEF Fit, k
  <2>1. k \in 1 .. Bits /\ Fit(k)
    BY <1>5, <1>7 DEF k
  <2> QED BY <2>1 DEF k
<1> QED BY <1>8 DEF p

Figures == {Digit[k] : k \in 1 .. 16}

LEMMA DigitFacts ==
  /\ \A k \in 1 .. 16 : Digit[k] # "%" /\ Digit[k] # NUL /\ Digit[k] # " "
  /\ \A j, k \in 1 .. 16 : Digit[j] = Digit[k] => j = k
  /\ Digit[1] = "0"
<1>1. /\ Digit[1] = "0" /\ Digit[2] = "1" /\ Digit[3] = "2" /\ Digit[4] = "3"
      /\ Digit[5] = "4" /\ Digit[6] = "5" /\ Digit[7] = "6" /\ Digit[8] = "7"
      /\ Digit[9] = "8" /\ Digit[10] = "9" /\ Digit[11] = "a" /\ Digit[12] = "b"
      /\ Digit[13] = "c" /\ Digit[14] = "d" /\ Digit[15] = "e" /\ Digit[16] = "f"
  BY DEF Digit
<1>2. \A k \in 1 .. 16 : k \in {1, 2, 3, 4, 5, 6, 7, 8, 9, 10, 11, 12, 13, 14, 15, 16}
  OBVIOUS
<1>3. \A k \in 1 .. 16 : Digit[k] # "%" /\ Digit[k] # NUL /\ Digit[k] # " "
  BY <1>1, <1>2 DEF NUL
<1>4. \A j, k \in 1 .. 16 : Digit[j] = Digit[k] => j = k
  BY <1>1, <1>2
<1> QED BY <1>1, <1>3, <1>4

\* Every digit is one.
LEMMA DigitsFacts ==
  ASSUME NEW base \in 2 .. 16, NEW n \in 0 .. Modulus - 1
  PROVE  /\ Digits(n, base) \in Seq(Figures)
         /\ Len(Digits(n, base)) = Places(n, base)
         /\ \A i \in 1 .. Places(n, base) :
              /\ (n \div Powers(base)[Places(n, base) - i]) % base \in 0 .. base - 1
              /\ Digits(n, base)[i] = Digit[((n \div Powers(base)[Places(n, base) - i]) % base) + 1]
<1> DEFINE k == Places(n, base)
           p == Powers(base)
           d(i) == (n \div p[k - i]) % base
<1>1. k \in 1 .. Bits /\ Bits \in Nat
  BY PlacesFacts, VsprintfAssumption
<1>2. Digits(n, base) = [i \in 1 .. k |-> Digit[d(i) + 1]]
  BY DEF Digits
<1> HIDE DEF k
<1>3. n \in Nat /\ \A i \in Nat : p[i] \in Nat \ {0}
  <2>1. Modulus \in Nat
    BY PowerFacts, <1>1 DEF Modulus
  <2> QED BY <2>1, PowerFacts
<1>4. ASSUME NEW i \in 1 .. k PROVE d(i) \in 0 .. base - 1
  <2> DEFINE q == n \div p[k - i]
  <2>1. p[k - i] \in Nat \ {0}
    BY <1>1, <1>3
  <2>2. q \in Nat
    BY <1>3, <2>1, DivMod
  <2> HIDE DEF q
  <2>3. q % base \in 0 .. base - 1
    BY <2>2, DivMod
  <2> QED BY <2>3 DEF q
<1> HIDE DEF d
<1>5. ASSUME NEW i \in 1 .. k PROVE Digit[d(i) + 1] \in Figures
  <2>1. d(i) + 1 \in 1 .. 16
    BY <1>4
  <2> QED BY <2>1 DEF Figures
<1>6. Digits(n, base) \in Seq(Figures) /\ Len(Digits(n, base)) = k
  BY <1>1, <1>2, <1>5
<1>7. \A i \in 1 .. k : Digits(n, base)[i] = Digit[d(i) + 1]
  BY <1>2
<1> QED BY <1>4, <1>6, <1>7 DEF d, k
-----------------------------------------------------------------------------
(***************************************************************************)
(* console_write.                                                          *)
(***************************************************************************)
Begin     == [out |-> <<>>, percent |-> FALSE, done |-> FALSE]
Chars(R)  == STRING \union Figures \union {"x"} \union R
Walks(R)  == [out : Seq(Chars(R)), percent : BOOLEAN, done : BOOLEAN]

LEMMA ArgumentType ==
  ASSUME NEW R, NEW c \in R, NEW g \in Garbage
  PROVE  Argument(c, g) \in Seq(Chars(R))
<1>1. g.int \in 0 .. Modulus - 1 /\ g.str \in Seq(STRING)
  BY PrintmAssumption
<1>2. g.str \in Seq(Chars(R))
  <2>1. STRING \subseteq Chars(R)
    BY DEF Chars
  <2> QED BY <1>1, <2>1, SeqMonotonic
<1>3. Figures \subseteq Chars(R)
  BY DEF Chars
<1>4. WriteInt(g.int) \in Seq(Chars(R))
  <2>1. Digits(g.int, 10) \in Seq(Figures)
    BY <1>1, DigitsFacts
  <2>2. Digits(g.int, 10) \in Seq(Chars(R))
    BY <1>3, <2>1, SeqMonotonic
  <2> QED BY <2>2 DEF WriteInt
<1>5. WriteHex(g.int) \in Seq(Chars(R))
  <2>1. Digits(g.int, 16) \in Seq(Figures)
    BY <1>1, DigitsFacts
  <2>2. Digits(g.int, 16) \in Seq(Chars(R))
    BY <1>3, <2>1, SeqMonotonic
  <2>3. "0" \in Figures
    <3>1. Digit[1] = "0"
      BY DigitFacts
    <3>2. 1 \in 1 .. 16
      OBVIOUS
    <3> QED BY <3>1, <3>2 DEF Figures
  <2>4. <<"0", "x">> \in Seq(Chars(R))
    <3>1. "0" \in Chars(R) /\ "x" \in Chars(R)
      BY <2>3 DEF Chars
    <3> QED BY <3>1
  <2> QED BY <2>2, <2>4, ConcatProperties DEF WriteHex
<1>6. <<c>> \in Seq(Chars(R))
  BY DEF Chars
<1> QED BY <1>2, <1>4, <1>5, <1>6 DEF Argument

LEMMA StepType ==
  ASSUME NEW R, NEW c \in R, NEW g \in Garbage, NEW w \in Walks(R)
  PROVE  Step(w, c, g) \in Walks(R)
<1>1. w.out \in Seq(Chars(R)) /\ w.percent \in BOOLEAN /\ w.done \in BOOLEAN
  BY DEF Walks
<1>2. CASE w.done
  BY <1>2 DEF Step
<1>3. CASE ~w.done /\ w.percent
  <2> DEFINE a == Argument(c, g)
  <2>1. w.out \o a \in Seq(Chars(R))
    BY <1>1, ArgumentType, ConcatProperties
  <2>2. Step(w, c, g) = [w EXCEPT !.out = w.out \o a, !.percent = FALSE]
    BY <1>3 DEF Step
  <2> HIDE DEF a
  <2> QED BY <2>1, <2>2 DEF Walks
<1>4. CASE ~w.done /\ ~w.percent /\ c = NUL
  <2>1. Step(w, c, g) = [w EXCEPT !.done = TRUE]
    BY <1>4 DEF Step, NUL
  <2> QED BY <2>1 DEF Walks
<1>5. CASE ~w.done /\ ~w.percent /\ c # NUL /\ c = "%"
  <2>1. Step(w, c, g) = [w EXCEPT !.percent = TRUE]
    BY <1>5 DEF Step
  <2> QED BY <2>1 DEF Walks
<1>6. CASE ~w.done /\ ~w.percent /\ c # NUL /\ c # "%"
  <2>1. Step(w, c, g) = [w EXCEPT !.out = Append(w.out, c)]
    BY <1>6 DEF Step
  <2>2. Append(w.out, c) \in Seq(Chars(R))
    BY <1>1, AppendProperties DEF Chars
  <2> QED BY <2>1, <2>2 DEF Walks
<1> QED BY <1>1, <1>2, <1>3, <1>4, <1>5, <1>6

LEMMA WalkFacts ==
  ASSUME NEW R, NEW b \in Seq(R), NEW g \in Garbage
  PROVE  /\ Walk(b, g)[0] = Begin
         /\ \A k \in 1 .. Len(b) : Walk(b, g)[k] = Step(Walk(b, g)[k - 1], b[k], g)
         /\ \A k \in 0 .. Len(b) : Walk(b, g)[k] \in Walks(R)
<1> DEFINE n == Len(b)
           D == Walks(R)
           e == [x \in Nat \X D |-> IF x[1] \in 1 .. n THEN Step(x[2], b[x[1]], g) ELSE x[2]]
           IsWalk(h) == h = [k \in 0 .. n |-> IF k = 0 THEN Begin ELSE Step(h[k - 1], b[k], g)]
           walk == Walk(b, g)
<1>1. n \in Nat /\ \A k \in 1 .. n : b[k] \in R
  OBVIOUS
<1>2. Begin \in D
  <2>1. <<>> \in Seq(Chars(R))
    OBVIOUS
  <2> QED BY <2>1 DEF Begin, Walks
<1>3. e \in [Nat \X D -> D]
  BY <1>1, StepType
<1>4. PICK f : Iterates(f, n, Begin, e)
  <2> HIDE DEF n, D, e
  <2> QED BY <1>1, <1>2, <1>3, Iteration
<1>5. f \in [0 .. n -> D] /\ f[0] = Begin /\ \A k \in 1 .. n : f[k] = e[<<k, f[k - 1]>>]
  <2>1. Runs(f, n, D, Begin, e)
    <3> HIDE DEF n, D, e
    <3> QED BY <1>1, <1>2, <1>3, <1>4, Iterated
  <2> HIDE DEF n, D, e
  <2> QED BY <2>1 DEF Runs
<1>6. IsWalk(f)
  <2>1. ASSUME NEW k \in 0 .. n PROVE f[k] = IF k = 0 THEN Begin ELSE Step(f[k - 1], b[k], g)
    <3>1. CASE k = 0
      BY <1>5, <3>1
    <3>2. CASE k # 0
      <4>1. k \in 1 .. n /\ k - 1 \in 0 .. n /\ k \in Nat
        BY <1>1, <3>2
      <4>2. f[k - 1] \in D /\ f[k] = e[<<k, f[k - 1]>>]
        BY <1>5, <4>1
      <4>3. f[k] = Step(f[k - 1], b[k], g)
        <5> HIDE DEF D
        <5> QED BY <4>1, <4>2
      <4> QED BY <3>2, <4>3
    <3> QED BY <3>1, <3>2
  <2> QED BY <1>5, <2>1
<1>7. walk = CHOOSE h : IsWalk(h)
  BY DEF Walk, Begin
<1>8. IsWalk(walk)
  <2> HIDE DEF IsWalk, walk
  <2> QED BY <1>6, <1>7
<1> HIDE DEF walk, n
<1>9. walk[0] = Begin
  <2>1. 0 \in 0 .. n
    BY <1>1
  <2> QED BY <1>8, <2>1
<1>10. ASSUME NEW k \in 1 .. n PROVE walk[k] = Step(walk[k - 1], b[k], g)
  <2>1. k \in 0 .. n /\ k # 0
    BY <1>1
  <2> QED BY <1>8, <2>1
<1>11. \A k \in 0 .. n : walk[k] \in D
  <2> DEFINE S == {k \in Nat : k <= n => walk[k] \in D}
  <2>1. 0 \in S
    BY <1>2, <1>9
  <2>2. ASSUME NEW k \in Nat, k \in S PROVE k + 1 \in S
    <3> SUFFICES ASSUME k + 1 <= n PROVE walk[k + 1] \in D
      OBVIOUS
    <3>1. k + 1 \in 1 .. n /\ (k + 1) - 1 = k /\ walk[k] \in D /\ b[k + 1] \in R
      BY <1>1, <2>2
    <3> QED BY <1>10, <3>1, StepType
  <2>3. Nat \subseteq S
    <3> HIDE DEF S
    <3> QED BY <2>1, <2>2, Induction
  <2> QED BY <1>1, <2>3
<1> QED BY <1>9, <1>10, <1>11 DEF walk, n

LEMMA WrittenType ==
  ASSUME NEW R, NEW b \in Seq(R), NEW g \in Garbage
  PROVE  Written(b, g).out \in Seq(Chars(R))
<1>1. Len(b) \in 0 .. Len(b)
  OBVIOUS
<1> QED BY <1>1, WalkFacts DEF Written, Walks
LEMMA StoredType ==
  ASSUME NEW t
  PROVE  Stored(t) \in Seq({Stored(t)[i] : i \in 1 .. BufSize}) /\ Len(Stored(t)) = BufSize
<1> DEFINE b == Stored(t)
           R == {b[i] : i \in 1 .. BufSize}
<1>1. b = [i \in 1 .. BufSize |-> b[i]]
  BY DEF Stored
<1>2. BufSize \in Nat
  BY PrintmAssumption
<1>3. \A i \in 1 .. BufSize : b[i] \in R
  OBVIOUS
<1> HIDE DEF b, R
<1>4. b \in Seq(R) /\ Len(b) = BufSize
  BY <1>1, <1>2, <1>3
<1> QED BY <1>4 DEF b, R
-----------------------------------------------------------------------------
(***************************************************************************)
(* The invariant of Shown.                                                 *)
(***************************************************************************)
InkedInv ==
  \E C : /\ Blank \in C /\ printed \in Seq(C)
         /\ Follow(C, screen, printed)

LEMMA FollowMore ==
  ASSUME NEW C, NEW E, C \subseteq E, NEW s, NEW cs, Follow(C, s, cs)
  PROVE  Follow(E, s, cs)
<1>1. [Cell -> C] \subseteq [Cell -> E]
  OBVIOUS
<1>2. Screens(C) \subseteq Screens(E)
  BY <1>1 DEF Screens
<1> QED BY <1>2 DEF Follow, Fits

\* More is printed, of characters that may be new.
LEMMA PrintMore ==
  ASSUME InkedInv, NEW R, NEW ds \in Seq(R),
         screen' = Put(screen, ds), printed' = printed \o ds
  PROVE  InkedInv'
<1>1. PICK C : /\ Blank \in C /\ printed \in Seq(C)
               /\ Follow(C, screen, printed)
  BY DEF InkedInv
<1> DEFINE E == C \union R
<1>2. C \subseteq E /\ R \subseteq E /\ Blank \in E
  BY <1>1
<1> HIDE DEF E
<1>3. printed \in Seq(E) /\ ds \in Seq(E) /\ Follow(E, screen, printed)
  BY <1>1, <1>2, SeqMonotonic, FollowMore
<1>4. printed \o ds \in Seq(E) /\ Follow(E, Put(screen, ds), printed \o ds)
  BY <1>2, <1>3, PutFits, ConcatProperties
<1> QED BY <1>2, <1>4 DEF InkedInv

LEMMA InitInked == Init => InkedInv
<1> SUFFICES ASSUME Init PROVE InkedInv
  OBVIOUS
<1>1. Blank \in {Blank} /\ <<>> \in Seq({Blank})
  OBVIOUS
<1>2. Follow({Blank}, Cleared, <<>>)
  BY <1>1, ClearedFits
<1> QED BY <1>1, <1>2 DEF Init, InkedInv

\* A part of what was written, or all of it, is printed behind the line's head.
LEMMA OutInked ==
  ASSUME InkedInv, NEW R, NEW o \in Seq(Chars(R)),
         screen' = Put(screen, LineHead \o o), printed' = printed \o (LineHead \o o)
  PROVE  InkedInv'
<1> DEFINE out == LineHead \o o
<1>1. LineHead \in Seq(Chars(R))
  <2>1. STRING \subseteq Chars(R) /\ Header \in Seq(STRING)
    BY PrintmAssumption DEF Chars
  <2>2. Header \in Seq(Chars(R))
    BY <2>1, SeqMonotonic
  <2> QED BY <2>2 DEF LineHead
<1>2. out \in Seq(Chars(R))
  BY <1>1, ConcatProperties
<1>3. screen' = Put(screen, out) /\ printed' = printed \o out
  OBVIOUS
<1> HIDE DEF out
<1> QED BY <1>2, <1>3, PrintMore

LEMMA SayInked ==
  ASSUME InkedInv, NEW fmt, Say(fmt)
  PROVE  InkedInv'
<1>1. PICK lens \in Lengths(fmt), g \in Garbage :
        LET t == Formatted(fmt, lens)
        IN  IF Len(t) >= BufSize THEN Overrun /\ UNCHANGED buf
            ELSE /\ buf' = Stored(t)
                 /\ \/ Write(fmt, Written(Stored(t), g))
                    \/ PointerFault(Stored(t), g)
  BY DEF Say
<1> DEFINE t == Formatted(fmt, lens)
           b == Stored(t)
           R == {b[i] : i \in 1 .. BufSize}
           w == Written(b, g)
<1>2. b \in Seq(R)
  BY StoredType
<1>3. CASE Overrun
  BY <1>3 DEF Overrun, InkedInv
<1>4. CASE Write(fmt, w) /\ w.done
  <2>1. screen' = Put(screen, LineHead \o w.out) /\ printed' = printed \o (LineHead \o w.out)
    BY <1>4 DEF Write
  <2> HIDE DEF b, R
  <2>2. w.out \in Seq(Chars(R))
    BY <1>2, WrittenType
  <2> HIDE DEF w
  <2> QED BY <2>1, <2>2, OutInked
<1>5. CASE PointerFault(b, g)
  <2> HIDE DEF b, R
  <2>1. PICK k \in 0 .. Len(b) - 1 :
          /\ screen' = Put(screen, LineHead \o Walk(b, g)[k].out)
          /\ printed' = printed \o (LineHead \o Walk(b, g)[k].out)
    BY <1>5 DEF PointerFault
  <2> DEFINE o == Walk(b, g)[k].out
  <2>2. k \in 0 .. Len(b)
    BY <1>2
  <2>3. o \in Seq(Chars(R))
    BY <1>2, <2>2, WalkFacts DEF Walks
  <2>4. screen' = Put(screen, LineHead \o o) /\ printed' = printed \o (LineHead \o o)
    BY <2>1
  <2> HIDE DEF o
  <2> QED BY <2>3, <2>4, OutInked
<1>6. Overrun \/ (Write(fmt, w) /\ w.done) \/ PointerFault(b, g)
  BY <1>1 DEF Write
<1> QED BY <1>3, <1>4, <1>5, <1>6

LEMMA EchoInked ==
  ASSUME InkedInv, Echo
  PROVE  InkedInv'
<1>1. PICK c \in Echoed : screen' = Putc(screen, c) /\ printed' = Append(printed, c)
  BY DEF Echo
<1>2. PICK C : /\ Blank \in C /\ printed \in Seq(C)
               /\ Follow(C, screen, printed)
  BY DEF InkedInv
<1> DEFINE E == C \union {c}
<1>3. C \subseteq E /\ c \in E /\ Blank \in E
  BY <1>2
<1> HIDE DEF E
<1>4. printed \in Seq(E) /\ Follow(E, screen, printed)
  BY <1>2, <1>3, SeqMonotonic, FollowMore
<1>5. Follow(E, Putc(screen, c), Append(printed, c))
  BY <1>3, <1>4, PutcFits DEF Follow
<1>6. Append(printed, c) \in Seq(E)
  BY <1>3, <1>4, AppendProperties
<1> QED BY <1>1, <1>3, <1>5, <1>6 DEF InkedInv

LEMMA NextInked == InkedInv /\ [Next]_vars => InkedInv'
<1> SUFFICES ASSUME InkedInv, [Next]_vars PROVE InkedInv'
  OBVIOUS
<1>1. CASE Line
  BY <1>1, SayInked DEF Line
<1>2. CASE Numeric
  BY <1>2, SayInked DEF Numeric
<1>3. CASE StrlenFault
  BY <1>3 DEF StrlenFault, InkedInv
<1>4. CASE Echo
  BY <1>4, EchoInked
<1>5. CASE SwitchHeader
  BY <1>5 DEF SwitchHeader, InkedInv
<1>6. CASE UNCHANGED vars
  BY <1>6 DEF vars, InkedInv
<1> QED BY <1>1, <1>2, <1>3, <1>4, <1>5, <1>6 DEF Next

\* The screen shows the last rows of all that was printed, as on paper without an end
\* (console.c:11-68).
THEOREM ShownHolds == Spec => []Shown
<1>1. InkedInv => Shown
  BY FollowShows DEF InkedInv, Shown
<1> QED BY <1>1, InitInked, NextInked, PTL DEF Spec
-----------------------------------------------------------------------------
(***************************************************************************)
(* The walk over plain text.                                               *)
(***************************************************************************)
Plain(out) == [out |-> out, percent |-> FALSE, done |-> FALSE]

\* Until a percent sign or the end comes, the text is printed as it is.
LEMMA WalkPlain ==
  ASSUME NEW R, NEW b \in Seq(R), NEW g \in Garbage, NEW m \in 0 .. Len(b),
         \A i \in 1 .. m : b[i] # "%" /\ b[i] # NUL
  PROVE  Walk(b, g)[m] = Plain(SubSeq(b, 1, m))
<1> DEFINE w == Walk(b, g)
           S == {k \in Nat : k <= m => w[k] = Plain(SubSeq(b, 1, k))}
<1>1. /\ w[0] = Begin
      /\ \A k \in 1 .. Len(b) : w[k] = Step(w[k - 1], b[k], g)
  BY WalkFacts
<1> HIDE DEF w
<1>2. 0 \in S
  <2>1. SubSeq(b, 1, 0) = <<>>
    BY SubSeqEmpty
  <2> QED BY <1>1, <2>1 DEF Begin, Plain
<1>3. ASSUME NEW k \in Nat, k \in S PROVE k + 1 \in S
  <2> SUFFICES ASSUME k + 1 <= m PROVE w[k + 1] = Plain(SubSeq(b, 1, k + 1))
    OBVIOUS
  <2>1. /\ k + 1 \in 1 .. Len(b) /\ (k + 1) - 1 = k /\ k + 1 \in 1 .. m /\ k \in 0 .. Len(b) - 1
        /\ w[k] = Plain(SubSeq(b, 1, k))
    BY <1>3
  <2>2. w[k + 1] = Step(Plain(SubSeq(b, 1, k)), b[k + 1], g)
    BY <1>1, <2>1
  <2>3. b[k + 1] # "%" /\ b[k + 1] # NUL
    BY <2>1
  <2> DEFINE s == SubSeq(b, 1, k)
             c == b[k + 1]
  <2> HIDE DEF s, c
  <2>4. Step(Plain(s), c, g) = Plain(Append(s, c))
    <3>1. c # "%" /\ c # NUL
      BY <2>3 DEF c
    <3> QED BY <3>1 DEF Step, Plain
  <2>5. Append(s, c) = SubSeq(b, 1, k + 1)
    BY <2>1, SubSeqAppend DEF s, c
  <2> QED BY <2>2, <2>4, <2>5 DEF s, c
<1>4. m \in S
  <2> HIDE DEF S
  <2> QED BY <1>2, <1>3, Induction
<1> QED BY <1>4 DEF w

\* What follows the end is not looked at.
LEMMA WalkDone ==
  ASSUME NEW R, NEW b \in Seq(R), NEW g \in Garbage, NEW m \in 0 .. Len(b),
         Walk(b, g)[m].done
  PROVE  Written(b, g) = Walk(b, g)[m]
<1> DEFINE w == Walk(b, g)
           S == {k \in Nat : m + k <= Len(b) => w[m + k] = w[m]}
<1>1. \A k \in 1 .. Len(b) : w[k] = Step(w[k - 1], b[k], g)
  BY WalkFacts
<1>2. w[m].done
  OBVIOUS
<1> HIDE DEF w
<1>3. 0 \in S
  OBVIOUS
<1>4. ASSUME NEW k \in Nat, k \in S PROVE k + 1 \in S
  <2> SUFFICES ASSUME m + (k + 1) <= Len(b) PROVE w[m + (k + 1)] = w[m]
    OBVIOUS
  <2>1. m + (k + 1) \in 1 .. Len(b) /\ (m + (k + 1)) - 1 = m + k /\ w[m + k] = w[m]
    BY <1>4
  <2>2. w[m + (k + 1)] = Step(w[m], b[m + (k + 1)], g)
    BY <1>1, <2>1
  <2> QED BY <1>2, <2>2 DEF Step
<1>5. Len(b) - m \in S
  <2>1. Len(b) - m \in Nat
    OBVIOUS
  <2> HIDE DEF S
  <2> QED BY <1>3, <1>4, <2>1, Induction
<1>6. m + (Len(b) - m) = Len(b)
  OBVIOUS
<1> QED BY <1>5, <1>6 DEF w, Written

\* What was printed stays in front.
LEMMA WalkGrows ==
  ASSUME NEW R, NEW b \in Seq(R), NEW g \in Garbage, NEW m \in 0 .. Len(b)
  PROVE  \E u \in Seq(Chars(R)) : Written(b, g).out = Walk(b, g)[m].out \o u
<1> DEFINE w == Walk(b, g)
           E == Chars(R)
           D == Seq(E)
           Grown(k) == \E u \in D : w[m + k].out = w[m].out \o u
           S == {k \in Nat : m + k <= Len(b) => Grown(k)}
<1>1. /\ \A k \in 1 .. Len(b) : w[k] = Step(w[k - 1], b[k], g)
      /\ \A k \in 0 .. Len(b) : w[k] \in Walks(R)
  BY WalkFacts
<1> HIDE DEF w
<1>2. 0 \in S
  <2>1. w[m].out \in D
    BY <1>1 DEF Walks
  <2>2. <<>> \in D /\ w[m].out \o <<>> = w[m].out
    BY <2>1, ConcatEmptySeq
  <2>3. m + 0 = m
    OBVIOUS
  <2> HIDE DEF D
  <2> QED BY <2>2, <2>3
<1>3. ASSUME NEW k \in Nat, k \in S PROVE k + 1 \in S
  <2> SUFFICES ASSUME m + (k + 1) <= Len(b) PROVE Grown(k + 1)
    OBVIOUS
  <2>1. /\ m + (k + 1) \in 1 .. Len(b) /\ (m + (k + 1)) - 1 = m + k /\ m + k \in 0 .. Len(b)
    OBVIOUS
  <2>2. PICK u \in D : w[m + k].out = w[m].out \o u
    <3>1. m + k <= Len(b)
      BY <2>1
    <3> HIDE DEF Grown
    <3>2. Grown(k)
      BY <1>3, <3>1
    <3> QED BY <3>2 DEF Grown
  <2> DEFINE c == b[m + (k + 1)]
             x == w[m + k]
             y == w[m + (k + 1)]
  <2>3. c \in R /\ x \in Walks(R) /\ y = Step(x, c, g) /\ w[m] \in Walks(R)
    <3>1. m \in 0 .. Len(b) /\ c \in R
      BY <2>1
    <3> QED BY <1>1, <2>1, <3>1
  <2>4. x.out = w[m].out \o u /\ x.out \in D /\ w[m].out \in D
    BY <2>2, <2>3 DEF Walks
  <2>5. \E v \in D : y.out = x.out \o v
    <3> HIDE DEF x, y, c, D
    <3>1. y = x \/ y = [x EXCEPT !.done = TRUE] \/ y = [x EXCEPT !.percent = TRUE] =>
            y.out = x.out
      BY <2>3 DEF Walks
    <3>2. x.out = x.out \o <<>> /\ <<>> \in D
      BY <2>4, ConcatEmptySeq DEF D
    <3>3. CASE ~x.done /\ x.percent
      <4>1. y.out = x.out \o Argument(c, g)
        BY <2>3, <3>3 DEF Step, Walks
      <4> QED BY <2>3, <4>1, ArgumentType DEF D
    <3>4. CASE ~x.done /\ ~x.percent /\ c # NUL /\ c # "%"
      <4>1. y.out = Append(x.out, c)
        BY <2>3, <3>4 DEF Step, Walks
      <4>2. c \in E
        BY <2>3 DEF Chars
      <4>3. Append(x.out, c) = x.out \o <<c>> /\ <<c>> \in D
        <5> DEFINE o == x.out
        <5>1. o \in Seq(E)
          BY <2>4 DEF D
        <5> HIDE DEF E, o
        <5>2. Append(o, c) = o \o <<c>> /\ <<c>> \in Seq(E)
          BY <4>2, <5>1, AppendIsConcat
        <5> QED BY <5>2 DEF o, D
      <4> QED BY <4>1, <4>3
    <3>5. CASE x.done \/ (~x.done /\ ~x.percent /\ c = NUL) \/ (~x.done /\ ~x.percent /\ c = "%")
      <4>1. y = x \/ y = [x EXCEPT !.done = TRUE] \/ y = [x EXCEPT !.percent = TRUE]
        BY <2>3, <3>5 DEF Step, NUL
      <4> QED BY <3>1, <3>2, <4>1
    <3> QED BY <2>3, <3>3, <3>4, <3>5 DEF Walks
  <2>6. PICK v \in D : y.out = x.out \o v
    BY <2>5
  <2> HIDE DEF x, y, c
  <2>7. y.out = w[m].out \o (u \o v) /\ u \o v \in D
    <3>1. (w[m].out \o u) \o v = w[m].out \o (u \o v)
      <4> DEFINE a == w[m].out
      <4>1. a \in Seq(E) /\ u \in Seq(E) /\ v \in Seq(E)
        BY <2>2, <2>4, <2>6
      <4> HIDE DEF E, a
      <4>2. (a \o u) \o v = a \o (u \o v)
        BY <4>1, ConcatAssociative
      <4> QED BY <4>2 DEF a
    <3> QED BY <2>2, <2>4, <2>6, <3>1, ConcatProperties
  <2> HIDE DEF D
  <2> QED BY <2>7 DEF y
<1>4. Len(b) - m \in S
  <2>1. Len(b) - m \in Nat
    OBVIOUS
  <2> HIDE DEF S
  <2> QED BY <1>2, <1>3, <2>1, Induction
<1>5. m + (Len(b) - m) = Len(b)
  OBVIOUS
<1> HIDE DEF D
<1> QED BY <1>4, <1>5 DEF w, Written, D, E
-----------------------------------------------------------------------------
(***************************************************************************)
(* What a reader makes of digits.                                          *)
(***************************************************************************)
LEMMA DivDiv ==
  ASSUME NEW n \in Nat, NEW a \in Nat \ {0}, NEW b \in Nat \ {0}
  PROVE  n \div (a * b) = (n \div a) \div b
<1> DEFINE x == n \div a
           r == n % a
           y == x \div b
           s == x % b
<1>1. x \in Nat /\ r \in 0 .. a - 1 /\ n = a * x + r
  BY DivMod
<1> HIDE DEF x, r
<1>2. y \in Nat /\ s \in 0 .. b - 1 /\ x = b * y + s
  BY <1>1, DivMod
<1> HIDE DEF y, s
<1>3. /\ a * (b * y + s) = a * (b * y) + a * s /\ a * (b * y) = (a * b) * y
      /\ b * y \in Nat /\ a * s \in Nat /\ a * b \in Nat /\ a * b # 0 /\ (a * b) * y \in Nat
  <2>1. b * y \in Nat /\ a * b \in Nat
    BY <1>2, Products
  <2> QED BY <1>2, <2>1, Products
<1>4. a * s + r \in 0 .. a * b - 1
  <2>1. (s + 1) * a <= b * a /\ (s + 1) * a = s * a + a /\ s * a = a * s /\ b * a = a * b
    BY <1>2, Products
  <2> DEFINE u == a * s
             v == a * b
  <2>2. u \in Nat /\ v \in Nat /\ u + a <= v
    BY <1>3, <2>1
  <2> HIDE DEF u, v
  <2>3. u + r \in 0 .. v - 1
    BY <1>1, <2>2
  <2> QED BY <2>3 DEF u, v
<1> DEFINE c == a * b
           t == a * s + r
<1>5. c \in Nat \ {0} /\ t \in 0 .. c - 1 /\ n = c * y + t
  <2>1. n = (a * b) * y + (a * s + r)
    <3> DEFINE u == a * s
               v == (a * b) * y
    <3>1. u \in Nat /\ v \in Nat /\ n = (v + u) + r
      BY <1>1, <1>2, <1>3
    <3> HIDE DEF u, v
    <3>2. n = v + (u + r)
      BY <1>1, <3>1
    <3> QED BY <3>2 DEF u, v
  <2> QED BY <1>3, <1>4, <2>1
<1> HIDE DEF c, t
<1>6. n \div c = y
  BY <1>2, <1>5, Quotient
<1> QED BY <1>6 DEF c, x, y

LEMMA WorthFacts ==
  ASSUME NEW base \in 2 .. 16, NEW k \in 1 .. base
  PROVE  Worth(Digit[k], base) = k - 1
<1>1. \A j \in 1 .. base : Digit[j] = Digit[k] => j = k
  <2>1. \A j \in 1 .. base : j \in 1 .. 16
    OBVIOUS
  <2> QED BY <2>1, DigitFacts
<1>2. (CHOOSE j \in 1 .. base : Digit[j] = Digit[k]) = k
  BY <1>1
<1> QED BY <1>2 DEF Worth

Evaluates(v, n, e, base) ==
  v[0] = 0 /\ \A k \in 1 .. n : v[k] = v[k - 1] * base + e[k]

LEMMA ValuesFacts ==
  ASSUME NEW base \in 2 .. 16, NEW n \in Nat, NEW e \in [1 .. n -> 0 .. base - 1],
         NEW ds, ds = [i \in 1 .. n |-> Digit[e[i] + 1]]
  PROVE  Evaluates(Values(ds, base), n, e, base)
<1> DEFINE g == [x \in Nat \X Nat |-> IF x[1] \in 1 .. n THEN x[2] * base + e[x[1]] ELSE 0]
           IsValue(h) == h = [i \in 0 .. n |->
                                IF i = 0 THEN 0 ELSE h[i - 1] * base + Worth(ds[i], base)]
           v == Values(ds, base)
<1>1. ASSUME NEW i \in 1 .. n PROVE Worth(ds[i], base) = e[i]
  <2>1. e[i] \in 0 .. base - 1 /\ e[i] + 1 \in 1 .. base /\ (e[i] + 1) - 1 = e[i]
    OBVIOUS
  <2> QED BY <2>1, WorthFacts
<1>2. Len(ds) = n
  OBVIOUS
<1>3. g \in [Nat \X Nat -> Nat]
  <2>1. ASSUME NEW x \in Nat \X Nat PROVE g[x] \in Nat
    <3>1. CASE x[1] \in 1 .. n
      <4>1. x[2] * base \in Nat /\ e[x[1]] \in Nat
        BY <3>1, Products
      <4>2. g[x] = x[2] * base + e[x[1]]
        BY <3>1
      <4> HIDE DEF g
      <4> QED BY <4>1, <4>2
    <3>2. CASE x[1] \notin 1 .. n
      BY <3>2
    <3> QED BY <3>1, <3>2
  <2> QED BY <2>1
<1>4. PICK f : Iterates(f, n, 0, g)
  <2>1. 0 \in Nat
    OBVIOUS
  <2> HIDE DEF g
  <2> QED BY <1>3, <2>1, Iteration
<1>5. f \in [0 .. n -> Nat] /\ f[0] = 0 /\ \A k \in 1 .. n : f[k] = g[<<k, f[k - 1]>>]
  <2>1. Runs(f, n, Nat, 0, g)
    <3>1. 0 \in Nat
      OBVIOUS
    <3> HIDE DEF g
    <3> QED BY <1>3, <1>4, <3>1, Iterated
  <2> HIDE DEF g
  <2> QED BY <2>1 DEF Runs
<1>6. IsValue(f)
  <2>1. ASSUME NEW i \in 0 .. n
        PROVE  f[i] = IF i = 0 THEN 0 ELSE f[i - 1] * base + Worth(ds[i], base)
    <3>1. CASE i = 0
      BY <1>5, <3>1
    <3>2. CASE i # 0
      <4>1. i \in 1 .. n /\ i - 1 \in 0 .. n /\ i \in Nat
        BY <3>2
      <4>2. f[i - 1] \in Nat /\ f[i] = g[<<i, f[i - 1]>>]
        BY <1>5, <4>1
      <4>3. f[i] = f[i - 1] * base + e[i]
        BY <4>1, <4>2
      <4> QED BY <1>1, <3>2, <4>1, <4>3
    <3> QED BY <3>1, <3>2
  <2> QED BY <1>5, <2>1
<1>7. v = CHOOSE h : IsValue(h)
  BY <1>2 DEF Values
<1>8. IsValue(v)
  <2> HIDE DEF IsValue, v
  <2> QED BY <1>6, <1>7
<1> HIDE DEF v
<1>9. v[0] = 0
  <2>1. 0 \in 0 .. n
    OBVIOUS
  <2> QED BY <1>8, <2>1
<1>10. ASSUME NEW k \in 1 .. n PROVE v[k] = v[k - 1] * base + e[k]
  <2>1. k \in 0 .. n /\ k # 0
    OBVIOUS
  <2>2. v[k] = v[k - 1] * base + Worth(ds[k], base)
    BY <1>8, <2>1
  <2> QED BY <1>1, <2>2
<1> QED BY <1>9, <1>10 DEF v, Evaluates

\* Zeros, then the digits of n.
LEMMA DigitsRead ==
  ASSUME NEW base \in 2 .. 16, NEW n \in 0 .. Modulus - 1, NEW z \in Nat,
         NEW ds \in Seq(Figures), Len(ds) = z + Places(n, base),
         \A i \in 1 .. z : ds[i] = "0",
         \A j \in 1 .. Places(n, base) : ds[z + j] = Digits(n, base)[j]
  PROVE  /\ Numeral(ds, base) /\ ValueOf(ds, base) = n
         /\ z = 0 => ds[1] # "0" \/ Len(ds) = 1
<1> DEFINE k == Places(n, base)
           p == Powers(base)
           e == [i \in 1 .. z + k |-> IF i <= z THEN 0 ELSE (n \div p[k - (i - z)]) % base]
           v == Values(ds, base)
<1>1. /\ k \in 1 .. Bits /\ Bits \in Nat /\ n < p[k] /\ (k > 1 => p[k - 1] <= n)
  BY PlacesFacts, VsprintfAssumption
<1>2. /\ p[0] = 1 /\ \A i \in Nat : p[i] \in Nat \ {0} /\ p[i + 1] = p[i] * base
  <2>1. base \in Nat \ {0}
    OBVIOUS
  <2> QED BY <2>1, PowerFacts
<1>3. n \in Nat
  BY VsprintfAssumption, PowerFacts DEF Modulus
<1>4. \A i \in 1 .. k : /\ (n \div p[k - i]) % base \in 0 .. base - 1
                        /\ Digits(n, base)[i] = Digit[((n \div p[k - i]) % base) + 1]
  BY DigitsFacts
<1> HIDE DEF k, p
<1>5. ASSUME NEW i \in 1 .. z + k
      PROVE  e[i] \in 0 .. base - 1 /\ ds[i] = Digit[e[i] + 1]
  <2>1. CASE i <= z
    <3>1. e[i] = 0 /\ i \in 1 .. z
      BY <1>1, <2>1
    <3> HIDE DEF e
    <3>2. e[i] + 1 = 1 /\ ds[i] = "0" /\ 0 \in 0 .. base - 1
      BY <3>1
    <3>3. Digit[1] = "0"
      BY DigitFacts
    <3> QED BY <3>1, <3>2, <3>3
  <2>2. CASE ~ (i <= z)
    <3> DEFINE j == i - z
    <3>1. j \in 1 .. k /\ z + j = i /\ e[i] = (n \div p[k - j]) % base
      BY <1>1, <2>2
    <3> HIDE DEF e, j
    <3>2. ds[i] = Digits(n, base)[j]
      BY <3>1 DEF k
    <3> QED BY <1>4, <3>1, <3>2
  <2> QED BY <2>1, <2>2
<1>6. Len(ds) = z + k /\ z + k \in Nat /\ z + k > 0
  BY <1>1 DEF k
<1>7. e \in [1 .. z + k -> 0 .. base - 1] /\ ds = [i \in 1 .. z + k |-> Digit[e[i] + 1]]
  <2>1. \A i \in 1 .. z + k : e[i] \in 0 .. base - 1
    BY <1>5
  <2>2. e \in [1 .. z + k -> 0 .. base - 1]
    BY <2>1
  <2>3. ds = [i \in 1 .. z + k |-> ds[i]]
    BY <1>6
  <2> HIDE DEF e
  <2> QED BY <1>5, <2>2, <2>3
<1>8. v[0] = 0 /\ \A i \in 1 .. z + k : v[i] = v[i - 1] * base + e[i]
  <2> DEFINE l == z + k
  <2>1. /\ l \in Nat /\ e \in [1 .. l -> 0 .. base - 1]
        /\ ds = [i \in 1 .. l |-> Digit[e[i] + 1]]
    <3> HIDE DEF e
    <3> QED BY <1>6, <1>7
  <2> HIDE DEF e, l, v
  <2>2. Evaluates(v, l, e, base)
    BY <2>1, ValuesFacts DEF v
  <2> QED BY <2>2 DEF l, Evaluates
<1>9. Numeral(ds, base)
  <2>1. ds # <<>>
    BY <1>6
  <2>2. ASSUME NEW i \in DOMAIN ds PROVE \E j \in 1 .. base : ds[i] = Digit[j]
    <3>1. i \in 1 .. z + k
      BY <1>6
    <3>2. e[i] \in 0 .. base - 1 /\ ds[i] = Digit[e[i] + 1]
      BY <1>5, <3>1
    <3> HIDE DEF e
    <3>3. e[i] + 1 \in 1 .. base
      BY <3>2
    <3> QED BY <3>2, <3>3
  <2> QED BY <2>1, <2>2 DEF Numeral
<1> HIDE DEF v
<1>10. v[z] = 0
  <2> DEFINE S == {i \in Nat : i <= z => v[i] = 0}
  <2>1. 0 \in S
    BY <1>8
  <2>2. ASSUME NEW i \in Nat, i \in S PROVE i + 1 \in S
    <3> SUFFICES ASSUME i + 1 <= z PROVE v[i + 1] = 0
      OBVIOUS
    <3>1. i + 1 \in 1 .. z + k /\ (i + 1) - 1 = i /\ v[i] = 0 /\ e[i + 1] = 0
      BY <1>1, <2>2
    <3> HIDE DEF e
    <3>2. v[i + 1] = 0 * base + 0
      BY <1>8, <3>1
    <3> QED BY <3>2
  <2>3. Nat \subseteq S
    <3> HIDE DEF S
    <3> QED BY <2>1, <2>2, Induction
  <2> QED BY <2>3
<1>11. v[z + k] = n
  <2> DEFINE S == {j \in Nat : j <= k => v[z + j] = n \div p[k - j]}
  <2>1. 0 \in S
    <3>1. n \div p[k] = 0
      <4> DEFINE c == p[k]
      <4>1. c \in Nat \ {0}
        <5>1. k \in Nat
          BY <1>1
        <5> QED BY <1>2, <5>1
      <4> HIDE DEF c
      <4>2. (c * 0 + n) \div c = 0
        <5>1. n \in 0 .. c - 1
          BY <1>1, <1>3, <4>1 DEF c
        <5> QED BY <4>1, <5>1, Quotient
      <4>3. c * 0 + n = n
        BY <1>3, <4>1
      <4> QED BY <4>2, <4>3 DEF c
    <3>2. z + 0 = z /\ k - 0 = k
      BY <1>1
    <3> QED BY <1>10, <3>1, <3>2
  <2>2. ASSUME NEW j \in Nat, j \in S PROVE j + 1 \in S
    <3> SUFFICES ASSUME j + 1 <= k PROVE v[z + (j + 1)] = n \div p[k - (j + 1)]
      OBVIOUS
    <3> DEFINE m == k - (j + 1)
    <3>1. /\ m \in Nat /\ k - j = m + 1 /\ v[z + j] = n \div p[m + 1]
          /\ z + (j + 1) \in 1 .. z + k /\ (z + (j + 1)) - 1 = z + j
          /\ (z + (j + 1)) - z = j + 1 /\ ~ (z + (j + 1) <= z)
      BY <1>1, <2>2
    <3>2. e[z + (j + 1)] = (n \div p[m]) % base
      BY <3>1
    <3> HIDE DEF m, e
    <3> DEFINE x == n \div p[m]
    <3>3. x \in Nat /\ n \div p[m + 1] = x \div base
      <4> DEFINE a == p[m]
      <4>1. a \in Nat \ {0} /\ p[m + 1] = a * base /\ base \in Nat \ {0}
        <5>1. m \in Nat
          BY <3>1
        <5>2. base \in Nat \ {0}
          OBVIOUS
        <5> QED BY <1>2, <5>1, <5>2
      <4> HIDE DEF a
      <4>2. n \div a \in Nat /\ n \div (a * base) = (n \div a) \div base
        BY <1>3, <4>1, DivDiv, DivMod
      <4> QED BY <4>1, <4>2 DEF a
    <3>4. v[z + (j + 1)] = (x \div base) * base + (x % base)
      BY <1>8, <3>1, <3>2, <3>3
    <3> HIDE DEF x
    <3>5. /\ x \div base \in Nat /\ x = base * (x \div base) + (x % base)
          /\ base * (x \div base) = (x \div base) * base
      <4>1. base \in Nat \ {0} /\ x \in Nat
        BY <3>3
      <4>2. x \div base \in Nat /\ x = base * (x \div base) + (x % base)
        BY <4>1, DivMod
      <4> DEFINE y == x \div base
      <4> HIDE DEF y
      <4>3. y \in Nat
        BY <4>2 DEF y
      <4>4. base * y = y * base
        BY <4>1, <4>3, Products
      <4> QED BY <4>2, <4>4 DEF y
    <3>6. v[z + (j + 1)] = x
      BY <3>4, <3>5
    <3> QED BY <3>6 DEF x, m
  <2>3. Nat \subseteq S
    <3> HIDE DEF S
    <3> QED BY <2>1, <2>2, Induction
  <2>4. v[z + k] = n \div p[0] /\ n \div 1 = n
    BY <1>1, <1>3, <2>3
  <2> QED BY <1>2, <2>4
<1>12. ASSUME z = 0, k # 1 PROVE ds[1] # "0"
  <2>1. k - 1 \in Nat /\ k > 1 /\ (k - 1) + 1 = k
    BY <1>1, <1>12
  <2> DEFINE c == p[k - 1]
             x == n \div c
  <2>2. c \in Nat \ {0} /\ c <= n /\ n < c * base
    BY <1>1, <1>2, <2>1
  <2>3. e[1] = x % base /\ ds[1] = Digit[e[1] + 1]
    <3>1. 1 \in 1 .. z + k /\ ~ (1 <= z) /\ k - (1 - z) = k - 1
      BY <1>1, <1>12
    <3> QED BY <1>5, <3>1
  <2> HIDE DEF c, e
  <2>4. x \in Nat /\ n % c \in 0 .. c - 1 /\ n = c * x + (n % c)
    BY <1>3, <2>2, DivMod
  <2> HIDE DEF x
  <2>5. x # 0
    <3> SUFFICES ASSUME x = 0 PROVE FALSE
      OBVIOUS
    <3>1. c * x = 0
      BY <2>2
    <3> QED BY <1>3, <2>2, <2>4, <3>1
  <2>6. x < base
    <3> SUFFICES ASSUME base <= x PROVE FALSE
      BY <2>4
    <3>1. base * c <= x * c /\ base * c = c * base /\ x * c = c * x
          /\ c * base \in Nat /\ c * x \in Nat
      BY <2>2, <2>4, Products
    <3> DEFINE u == c * base
               w == c * x
    <3>2. u \in Nat /\ w \in Nat /\ u <= w /\ n < u /\ n = w + (n % c)
      BY <2>2, <2>4, <3>1
    <3> HIDE DEF u, w
    <3> QED BY <1>3, <2>4, <3>2
  <2>7. x % base = x
    <3>1. (base * 0 + x) % base = x
      BY <2>4, <2>6, Quotient
    <3> QED BY <2>4, <3>1
  <2> DEFINE f == e[1] + 1
  <2>8. f \in 1 .. 16 /\ f # 1 /\ ds[1] = Digit[f] /\ 1 \in 1 .. 16
    BY <2>3, <2>4, <2>5, <2>6, <2>7
  <2> HIDE DEF f
  <2>9. Digit[f] # Digit[1]
    BY <2>8, DigitFacts
  <2> QED BY <2>8, <2>9, DigitFacts
<1>13. ValueOf(ds, base) = n
  BY <1>6, <1>11 DEF ValueOf, v
<1>14. z = 0 => ds[1] # "0" \/ Len(ds) = 1
  BY <1>6, <1>12
<1> QED BY <1>9, <1>13, <1>14
-----------------------------------------------------------------------------
(***************************************************************************)
(* Sequences.                                                              *)
(***************************************************************************)
LEMMA Halves ==
  ASSUME NEW E, NEW a \in Seq(E), NEW m \in Seq(E)
  PROVE  /\ a \o m \in Seq(E) /\ Len(a \o m) = Len(a) + Len(m)
         /\ SubSeq(a \o m, 1, Len(a)) = a
         /\ SubSeq(a \o m, Len(a) + 1, Len(a \o m)) = m
<1> DEFINE t == a \o m
           j == Len(a)
           k == Len(m)
           u == SubSeq(t, 1, j)
           l == j + 1
           h == j + k
           v == SubSeq(t, l, h)
<1>1. /\ t \in Seq(E) /\ Len(t) = j + k /\ j \in Nat /\ k \in Nat
      /\ \A i \in 1 .. j + k : t[i] = IF i <= j THEN a[i] ELSE m[i - j]
  BY ConcatProperties
<1> HIDE DEF t
<1>2. \A i \in 1 .. j + k : t[i] \in E
  BY <1>1
<1>3. u = a
  <2>1. /\ u \in Seq(E) /\ Len(u) = IF 1 <= j THEN j - 1 + 1 ELSE 0
        /\ \A i \in 1 .. j - 1 + 1 : u[i] = t[1 + i - 1]
    <3>1. 1 \in Int /\ j \in Int /\ \A i \in 1 .. j : t[i] \in E
      BY <1>1, <1>2
    <3> HIDE DEF j
    <3> QED BY <3>1, SubSeqProperties
  <2>2. Len(u) = j /\ \A i \in 1 .. j : u[i] = a[i]
    <3> HIDE DEF u, j
    <3> QED BY <1>1, <2>1
  <2> QED BY <2>1, <2>2, SeqEqual
<1>4. v = m
  <2>1. /\ v \in Seq(E) /\ Len(v) = IF l <= h THEN h - l + 1 ELSE 0
        /\ \A i \in 1 .. h - l + 1 : v[i] = t[l + i - 1]
    <3>1. l \in Int /\ h \in Int /\ \A i \in l .. h : t[i] \in E
      BY <1>1, <1>2
    <3> HIDE DEF l, h
    <3> QED BY <3>1, SubSeqProperties
  <2>2. Len(v) = k /\ \A i \in 1 .. k : v[i] = m[i]
    <3> HIDE DEF v, j, k
    <3>1. Len(v) = k
      BY <1>1, <2>1
    <3>2. ASSUME NEW i \in 1 .. k PROVE v[i] = m[i]
      <4>1. i \in 1 .. h - l + 1 /\ l + i - 1 = j + i /\ j + i \in 1 .. j + k
            /\ ~ (j + i <= j) /\ (j + i) - j = i
        BY <1>1
      <4>2. v[i] = t[j + i] /\ t[j + i] = m[i]
        BY <1>1, <2>1, <4>1
      <4> QED BY <4>2
    <3> QED BY <3>1, <3>2
  <2> QED BY <2>1, <2>2, SeqEqual
<1> QED BY <1>1, <1>3, <1>4 DEF t

LEMMA Between3 ==
  ASSUME NEW E, NEW a \in Seq(E), NEW m \in Seq(E), NEW h \in Seq(E)
  PROVE  /\ Len((a \o m) \o h) = Len(a) + Len(m) + Len(h)
         /\ SubSeq((a \o m) \o h, Len(a) + 1, Len((a \o m) \o h) - Len(h)) = m
<1> DEFINE t == (a \o m) \o h
           j == Len(a)
           k == Len(m)
           l == j + 1
           r == j + k
           v == SubSeq(t, l, r)
<1>1. /\ a \o m \in Seq(E) /\ Len(a \o m) = j + k
      /\ \A i \in 1 .. j + k : (a \o m)[i] = IF i <= j THEN a[i] ELSE m[i - j]
  BY ConcatProperties
<1>2. /\ t \in Seq(E) /\ Len(t) = (j + k) + Len(h)
      /\ \A i \in 1 .. (j + k) + Len(h) :
           t[i] = IF i <= j + k THEN (a \o m)[i] ELSE h[i - (j + k)]
  BY <1>1, ConcatProperties
<1>3. j \in Nat /\ k \in Nat /\ Len(h) \in Nat
  OBVIOUS
<1> HIDE DEF t, j, k
<1>4. \A i \in 1 .. r : t[i] = (IF i <= j THEN a[i] ELSE m[i - j]) /\ t[i] \in E
  <2> SUFFICES ASSUME NEW i \in 1 .. r
               PROVE  t[i] = (IF i <= j THEN a[i] ELSE m[i - j]) /\ t[i] \in E
    OBVIOUS
  <2>1. i \in 1 .. (j + k) + Len(h) /\ i \in 1 .. j + k /\ i <= j + k
    BY <1>3
  <2>2. t[i] \in E
    BY <1>2, <2>1
  <2> QED BY <1>1, <1>2, <2>1, <2>2
<1>5. /\ v \in Seq(E) /\ Len(v) = IF l <= r THEN r - l + 1 ELSE 0
      /\ \A i \in 1 .. r - l + 1 : v[i] = t[l + i - 1]
  <2>1. l \in Int /\ r \in Int /\ \A i \in l .. r : t[i] \in E
    BY <1>3, <1>4
  <2> HIDE DEF l, r
  <2> QED BY <2>1, SubSeqProperties
<1>6. Len(v) = k /\ \A i \in 1 .. k : v[i] = m[i]
  <2> HIDE DEF v
  <2>1. Len(v) = k
    BY <1>3, <1>5
  <2>2. ASSUME NEW i \in 1 .. k PROVE v[i] = m[i]
    <3>1. i \in 1 .. r - l + 1 /\ l + i - 1 = j + i /\ j + i \in 1 .. r
          /\ ~ (j + i <= j) /\ (j + i) - j = i
      BY <1>3
    <3>2. v[i] = t[j + i] /\ t[j + i] = m[i]
      BY <1>4, <1>5, <3>1
    <3> QED BY <3>2
  <2> QED BY <2>1, <2>2
<1>7. v = m
  BY <1>5, <1>6, SeqEqual DEF k
<1>8. Len(t) = j + k + Len(h) /\ Len(t) - Len(h) = r
  BY <1>2, <1>3
<1> QED BY <1>7, <1>8 DEF t, j, k
-----------------------------------------------------------------------------
(***************************************************************************)
(* number().                                                               *)
(***************************************************************************)
Glyphs == Figures \union {" ", "-", "+", "x"}

Figured(d) == IsNumber(d) \/ d.conv = "p"

Word(d) == /\ Figured(d)
           /\ d.arg \in 0 .. Modulus - 1 /\ d.width \in Int /\ d.precision \in Int

LEMMA Zero == "0" \in Figures
<1>1. Digit[1] = "0"
  BY DigitFacts
<1>2. 1 \in 1 .. 16
  OBVIOUS
<1> QED BY <1>1, <1>2 DEF Figures

LEMMA GlyphsPlain == \A c \in Glyphs : c # "%" /\ c # NUL
<1>1. \A c \in Figures : c # "%" /\ c # NUL
  BY DigitFacts DEF Figures
<1> QED BY <1>1 DEF Glyphs, NUL

LEMMA TimesFacts ==
  ASSUME NEW n \in Int, NEW E, NEW c \in E
  PROVE  /\ Times(n, c) \in Seq(E) /\ Len(Times(n, c)) = Greatest(n, 0)
         /\ Greatest(n, 0) \in Nat
         /\ \A i \in 1 .. Greatest(n, 0) : Times(n, c)[i] = c
<1> DEFINE k == Greatest(n, 0)
<1>1. k \in Nat
  BY DEF Greatest
<1>2. Times(n, c) = [i \in 1 .. k |-> c]
  BY DEF Times
<1> HIDE DEF k
<1>3. [i \in 1 .. k |-> c] \in Seq(E) /\ Len([i \in 1 .. k |-> c]) = k
  BY <1>1
<1> QED BY <1>1, <1>2, <1>3 DEF k

LEMMA FrontFacts ==
  ASSUME NEW d, Figured(d)
  PROVE  SignOf(d) \in Seq(Glyphs) /\ Prefix(d) \in Seq(Glyphs)
<1>1. "0" \in Glyphs /\ "x" \in Glyphs /\ "-" \in Glyphs /\ "+" \in Glyphs /\ " " \in Glyphs
  BY Zero DEF Glyphs
<1>2. <<>> \in Seq(Glyphs) /\ <<"0">> \in Seq(Glyphs) /\ <<"0", "x">> \in Seq(Glyphs)
      /\ <<"-">> \in Seq(Glyphs) /\ <<"+">> \in Seq(Glyphs) /\ <<" ">> \in Seq(Glyphs)
  <2>1. \A c \in Glyphs : <<c>> \in Seq(Glyphs)
    OBVIOUS
  <2>2. \A c, e \in Glyphs : <<c, e>> \in Seq(Glyphs)
    OBVIOUS
  <2>3. <<>> \in Seq(Glyphs)
    OBVIOUS
  <2> QED BY <1>1, <2>1, <2>2, <2>3
<1>3. SignOf(d) \in Seq(Glyphs)
  BY <1>2 DEF SignOf, Sign
<1>4. Prefix(d) = <<>> \/ Prefix(d) = <<"0">> \/ Prefix(d) = <<"0", "x">>
  <2>1. Base(d.conv) = 8 \/ Base(d.conv) = 16 \/ Base(d.conv) = 10
    BY DEF Figured, IsNumber, Base
  <2> QED BY <2>1 DEF Prefix
<1> QED BY <1>2, <1>3, <1>4

LEMMA MagnitudeFacts ==
  ASSUME NEW d, Word(d)
  PROVE  Magnitude(d) \in 0 .. Modulus - 1 /\ Base(d.conv) \in 2 .. 16
<1>1. Modulus \in Nat /\ Modulus \div 2 >= 1
  <2>1. Bits \in Nat /\ Bits - 1 \in Nat /\ (Bits - 1) + 1 = Bits
    BY VsprintfAssumption
  <2> DEFINE u == Powers(2)[Bits - 1]
  <2>2. u \in Nat \ {0} /\ Modulus = u * 2
    BY <2>1, PowerFacts DEF Modulus
  <2> HIDE DEF u
  <2> QED BY <2>2
<1>2. d.arg \in 0 .. Modulus - 1 /\ Figured(d)
  BY DEF Word
<1>3. Magnitude(d) \in 0 .. Modulus - 1
  <2> DEFINE m == Modulus
             h == m \div 2
  <2>1. m \in Nat /\ h \in Nat /\ h >= 1 /\ d.arg \in 0 .. m - 1
    BY <1>1, <1>2
  <2>2. (Magnitude(d) = m - d.arg /\ d.arg >= h) \/ Magnitude(d) = d.arg
    BY DEF Magnitude, Negative
  <2> HIDE DEF m, h
  <2>3. Magnitude(d) \in 0 .. m - 1
    BY <2>1, <2>2
  <2> QED BY <2>3 DEF m
<1>4. Base(d.conv) \in 2 .. 16
  <2>1. Base(d.conv) = 8 \/ Base(d.conv) = 16 \/ Base(d.conv) = 10
    BY <1>2 DEF Figured, IsNumber, Base
  <2> QED BY <2>1
<1> QED BY <1>3, <1>4

\* The zeros and digits of a number, z of which the precision or the width asks for.
Zeros(d, z) ==
  /\ z \in Nat /\ Ciphers(d) \in Seq(Figures)
  /\ Len(Ciphers(d)) = z + Places(Magnitude(d), Base(d.conv))
  /\ Numeral(Ciphers(d), Base(d.conv))
  /\ ValueOf(Ciphers(d), Base(d.conv)) = Magnitude(d)
  /\ z = 0 => Ciphers(d)[1] # "0" \/ Len(Ciphers(d)) = 1

Least2(d) == Greatest(Places(Magnitude(d), Base(d.conv)), d.precision)

LEMMA CiphersFacts ==
  ASSUME NEW d, Word(d)
  PROVE  Zeros(d, Greatest(IF "0" \in d.flags /\ "-" \notin d.flags
                             THEN Room(d, Least2(d)) ELSE 0, 0)
                  + (Least2(d) - Places(Magnitude(d), Base(d.conv))))
<1> DEFINE base == Base(d.conv)
           m == Magnitude(d)
           k == Places(m, base)
           n == Least2(d)
           ds == Digits(m, base)
           r == IF "0" \in d.flags /\ "-" \notin d.flags THEN Room(d, n) ELSE 0
           x == Times(r, "0")
           y == Times(n - k, "0")
           cs == (x \o y) \o ds
<1>1. base \in 2 .. 16 /\ m \in 0 .. Modulus - 1
  BY MagnitudeFacts
<1> HIDE DEF base, m
<1>2. ds \in Seq(Figures) /\ Len(ds) = k /\ k \in Nat
  <2>1. base > 1 /\ base \in Nat
    BY <1>1
  <2>2. k \in Nat
    BY <1>1, <2>1, PlacesFacts, VsprintfAssumption
  <2> QED BY <1>1, <2>2, DigitsFacts
<1> HIDE DEF ds, k
<1>3. n = Greatest(k, d.precision) /\ n \in Int /\ k <= n
  <2>1. n = Greatest(k, d.precision) /\ d.precision \in Int
    BY DEF Least2, Word, k, m, base
  <2> HIDE DEF n
  <2> QED BY <1>2, <2>1 DEF Greatest
<1>4. Ciphers(d) = cs
  BY <1>2, <1>3 DEF Ciphers, ds, m, base
<1>5. Room(d, n) \in Int
  <2>1. SignOf(d) \in Seq(Glyphs) /\ Prefix(d) \in Seq(Glyphs) /\ d.width \in Int
    BY FrontFacts DEF Word
  <2>2. Len(SignOf(d)) \in Nat /\ Len(Prefix(d)) \in Nat
    BY <2>1
  <2> HIDE DEF n
  <2> QED BY <1>3, <2>1, <2>2 DEF Room
<1> HIDE DEF n
<1>6. r \in Int /\ n - k \in Int
  BY <1>2, <1>3, <1>5
<1> HIDE DEF r
<1> DEFINE a == Greatest(r, 0)
           b == n - k
<1>7. /\ x \in Seq(Figures) /\ Len(x) = a /\ a \in Nat
      /\ \A i \in 1 .. a : x[i] = "0"
  BY <1>6, Zero, TimesFacts
<1>8. /\ y \in Seq(Figures) /\ Len(y) = b /\ b \in Nat
      /\ \A i \in 1 .. b : y[i] = "0"
  <2>1. Greatest(b, 0) = b
    BY <1>2, <1>3 DEF Greatest
  <2> HIDE DEF b
  <2>2. b \in Int /\ y = Times(b, "0")
    BY <1>6 DEF b
  <2> HIDE DEF y
  <2> QED BY <2>1, <2>2, Zero, TimesFacts
<1> HIDE DEF x, y, a, b
<1>9. /\ x \o y \in Seq(Figures) /\ Len(x \o y) = a + b
      /\ \A i \in 1 .. a + b : (x \o y)[i] = "0"
  <2>1. /\ x \o y \in Seq(Figures) /\ Len(x \o y) = a + b
        /\ \A i \in 1 .. a + b : (x \o y)[i] = IF i <= a THEN x[i] ELSE y[i - a]
    BY <1>7, <1>8, ConcatProperties
  <2>2. ASSUME NEW i \in 1 .. a + b PROVE (x \o y)[i] = "0"
    <3>1. CASE i <= a
      <4>1. i \in 1 .. a
        BY <1>7, <3>1
      <4> QED BY <1>7, <2>1, <3>1, <4>1
    <3>2. CASE ~ (i <= a)
      <4>1. i - a \in 1 .. b
        BY <1>7, <1>8, <3>2
      <4> QED BY <1>8, <2>1, <3>2, <4>1
    <3> QED BY <3>1, <3>2
  <2> QED BY <2>1, <2>2
<1> DEFINE z == a + b
           xy == x \o y
<1>10. z \in Nat /\ xy \in Seq(Figures) /\ Len(xy) = z /\ \A i \in 1 .. z : xy[i] = "0"
  BY <1>7, <1>8, <1>9
<1> HIDE DEF z, xy
<1>11. /\ cs \in Seq(Figures) /\ Len(cs) = z + k
       /\ \A i \in 1 .. z + k : cs[i] = IF i <= z THEN xy[i] ELSE ds[i - z]
  <2>1. cs = xy \o ds
    BY DEF xy
  <2> HIDE DEF cs
  <2> QED BY <1>2, <1>10, <2>1, ConcatProperties
<1> HIDE DEF cs
<1>12. \A i \in 1 .. z : cs[i] = "0"
  <2> SUFFICES ASSUME NEW i \in 1 .. z PROVE cs[i] = "0"
    OBVIOUS
  <2>1. i \in 1 .. z + k /\ i <= z
    BY <1>2, <1>10
  <2> QED BY <1>10, <1>11, <2>1
<1>13. \A j \in 1 .. k : cs[z + j] = ds[j]
  <2> SUFFICES ASSUME NEW j \in 1 .. k PROVE cs[z + j] = ds[j]
    OBVIOUS
  <2>1. z + j \in 1 .. z + k /\ ~ (z + j <= z) /\ (z + j) - z = j
    BY <1>2, <1>10
  <2> QED BY <1>11, <2>1
<1>14. /\ Numeral(cs, base) /\ ValueOf(cs, base) = m
       /\ z = 0 => cs[1] # "0" \/ Len(cs) = 1
  BY <1>1, <1>10, <1>11, <1>12, <1>13, DigitsRead DEF k, ds
<1>15. Zeros(d, z)
  BY <1>4, <1>10, <1>11, <1>14 DEF Zeros, base, m, k
<1> QED BY <1>15 DEF z, a, b, r, n, k, m, base

\* How many blanks and zeros there are, and what is too wide.
Left(F)  == "-" \in F
Zeroed(F) == "0" \in F /\ "-" \notin F

Wide(F, w, f, k, precision, p, q, z) ==
  /\ z + k >= precision
  /\ Left(F) => p = 0
  /\ ~Left(F) => q = 0
  /\ Zeroed(F) => p = 0
  /\ \/ p + (f + (z + k)) + q = w
     \/ /\ p + (f + (z + k)) + q > w /\ p = 0 /\ q = 0
        /\ z + k = precision \/ z = 0

LEMMA Widths ==
  ASSUME NEW F, NEW w \in Int, NEW f \in Nat, NEW k \in Nat, NEW precision \in Int,
         NEW n \in Int, n = Greatest(k, precision), NEW room \in Int, room = (w - f) - n,
         NEW p \in Nat, p = Greatest(IF Left(F) \/ Zeroed(F) THEN 0 ELSE room, 0),
         NEW q \in Nat, q = Greatest(IF Left(F) THEN room ELSE 0, 0),
         NEW z \in Nat, z = Greatest(IF Zeroed(F) THEN room ELSE 0, 0) + (n - k)
  PROVE  Wide(F, w, f, k, precision, p, q, z)
<1>1. n >= k /\ n >= precision /\ (n = k \/ n = precision)
  BY DEF Greatest
<1>2. ~(Zeroed(F) /\ Left(F))
  BY DEF Zeroed, Left
<1>3. CASE room < 0
  <2>1. p = 0 /\ q = 0 /\ z = n - k
    BY <1>3 DEF Greatest
  <2>2. p + (f + (z + k)) + q > w /\ (z + k = precision \/ z = 0) /\ z + k >= precision
    BY <1>1, <1>3, <2>1
  <2> QED BY <2>1, <2>2 DEF Wide
<1>4. CASE room >= 0 /\ Left(F)
  <2>1. p = 0 /\ q = room /\ z = n - k
    BY <1>2, <1>4 DEF Greatest
  <2>2. z + k = n /\ z + k >= precision
    BY <1>1, <2>1
  <2>3. p + (f + n) + q = w
    BY <2>1
  <2> QED BY <1>4, <2>1, <2>2, <2>3 DEF Wide
<1>5. CASE room >= 0 /\ Zeroed(F)
  <2>1. p = 0 /\ q = 0 /\ z = room + (n - k)
    BY <1>2, <1>5 DEF Greatest
  <2>2. z + k = room + n /\ z + k >= precision
    BY <1>1, <1>5, <2>1
  <2>3. p + (f + (room + n)) + q = w
    BY <2>1
  <2> QED BY <1>2, <1>5, <2>1, <2>2, <2>3 DEF Wide
<1>6. CASE room >= 0 /\ ~Left(F) /\ ~Zeroed(F)
  <2>1. p = room /\ q = 0 /\ z = n - k
    BY <1>6 DEF Greatest
  <2>2. z + k = n /\ z + k >= precision
    BY <1>1, <2>1
  <2>3. p + (f + n) + q = w
    BY <2>1
  <2> QED BY <1>6, <2>1, <2>2, <2>3 DEF Wide
<1> QED BY <1>3, <1>4, <1>5, <1>6

\* number() writes a numeral that can be read, for every number and directive.
LEMMA NumberReads ==
  ASSUME NEW d, Word(d)
  PROVE  Number(d) \in Seq(Glyphs) /\ Reads(d, Number(d))
<1> DEFINE base == Base(d.conv)
           m == Magnitude(d)
           k == Places(m, base)
           n == Least2(d)
           room == Room(d, n)
           left == Left(d.flags)
           zeros == Zeroed(d.flags)
           pi == IF left \/ zeros THEN 0 ELSE room
           qi == IF left THEN room ELSE 0
           p == Greatest(pi, 0)
           q == Greatest(qi, 0)
           z == Greatest(IF zeros THEN room ELSE 0, 0) + (n - k)
           front == SignOf(d) \o Prefix(d)
           f == Len(front)
           cs == Ciphers(d)
           core == front \o cs
           a == Times(pi, " ")
           h == Times(qi, " ")
           t == (a \o core) \o h
<1>1. k \in Nat /\ Len(Digits(m, base)) = k
  <2>1. base \in 2 .. 16 /\ m \in 0 .. Modulus - 1
    BY MagnitudeFacts
  <2> HIDE DEF base, m
  <2>2. base > 1 /\ base \in Nat
    BY <2>1
  <2>3. k \in Nat
    BY <2>1, <2>2, PlacesFacts, VsprintfAssumption
  <2> QED BY <2>1, <2>3, DigitsFacts
<1>2. n = Greatest(k, d.precision) /\ n \in Int /\ d.precision \in Int /\ d.width \in Int
  <2>1. n = Greatest(k, d.precision) /\ d.precision \in Int /\ d.width \in Int
    BY DEF Least2, Word
  <2> HIDE DEF n, k
  <2> QED BY <1>1, <2>1 DEF Greatest
<1>3. SignOf(d) \in Seq(Glyphs) /\ Prefix(d) \in Seq(Glyphs)
  BY FrontFacts DEF Word
<1>4. /\ front \in Seq(Glyphs) /\ f \in Nat /\ f = Len(SignOf(d)) + Len(Prefix(d))
      /\ Len(SignOf(d)) \in Nat /\ Len(Prefix(d)) \in Nat
  BY <1>3, ConcatProperties
<1>5. room \in Int /\ room = (d.width - f) - n
  <2> HIDE DEF n, f
  <2>1. room = d.width - Len(SignOf(d)) - Len(Prefix(d)) - n
    BY DEF Room
  <2> QED BY <1>2, <1>4, <2>1
<1>6. Zeros(d, z)
  BY CiphersFacts DEF Zeroed
<1>7. Number(d) = t
  <2>1. Greatest(Len(Digits(m, base)), d.precision) = n
    BY <1>1, <1>2
  <2> QED BY <2>1 DEF Number, Left, Zeroed
<1> HIDE DEF n, room, front, f, k, cs
<1>8. pi \in Int /\ qi \in Int
  BY <1>5
<1>9. p \in Nat /\ q \in Nat
  <2> HIDE DEF pi, qi
  <2> QED BY <1>8 DEF Greatest
<1>10. /\ z \in Nat /\ cs \in Seq(Figures) /\ Len(cs) = z + k
       /\ Numeral(cs, base) /\ ValueOf(cs, base) = m
       /\ z = 0 => cs[1] # "0" \/ Len(cs) = 1
  BY <1>6 DEF Zeros, cs, k
<1>11. cs \in Seq(Glyphs)
  <2>1. Figures \subseteq Glyphs
    BY DEF Glyphs
  <2> QED BY <1>10, <2>1, SeqMonotonic
<1>12. /\ a \in Seq(Glyphs) /\ Len(a) = p /\ a = Times(p, " ")
       /\ h \in Seq(Glyphs) /\ Len(h) = q /\ h = Times(q, " ")
  <2> HIDE DEF pi, qi
  <2>1. " " \in Glyphs
    BY DEF Glyphs
  <2>2. a \in Seq(Glyphs) /\ Len(a) = p /\ h \in Seq(Glyphs) /\ Len(h) = q
    BY <1>8, <2>1, TimesFacts
  <2>3. Greatest(p, 0) = p /\ Greatest(q, 0) = q
    <3> HIDE DEF p, q
    <3> QED BY <1>9 DEF Greatest
  <2>4. Times(p, " ") = [i \in 1 .. Greatest(p, 0) |-> " "]
        /\ Times(q, " ") = [i \in 1 .. Greatest(q, 0) |-> " "]
    BY DEF Times
  <2>5. a = [i \in 1 .. p |-> " "] /\ h = [i \in 1 .. q |-> " "]
    BY DEF Times
  <2> QED BY <2>2, <2>3, <2>4, <2>5
<1> HIDE DEF a, h
<1>13. /\ core \in Seq(Glyphs) /\ Len(core) = f + (z + k)
       /\ SubSeq(core, 1, f) = front /\ SubSeq(core, f + 1, Len(core)) = cs
  <2>1. /\ core \in Seq(Glyphs) /\ Len(core) = Len(front) + Len(cs)
        /\ SubSeq(core, 1, Len(front)) = front
        /\ SubSeq(core, Len(front) + 1, Len(core)) = cs
    BY <1>4, <1>11, Halves
  <2> HIDE DEF core, z
  <2> QED BY <1>10, <2>1 DEF f
<1> HIDE DEF core
<1>14. /\ t \in Seq(Glyphs) /\ Len(t) = p + (f + (z + k)) + q
       /\ SubSeq(t, p + 1, Len(t) - q) = core
  <2>1. a \o core \in Seq(Glyphs)
    BY <1>12, <1>13, ConcatProperties
  <2>2. t \in Seq(Glyphs)
    BY <1>12, <2>1, ConcatProperties
  <2>3. /\ Len(t) = Len(a) + Len(core) + Len(h)
        /\ SubSeq(t, Len(a) + 1, Len(t) - Len(h)) = core
    <3>1. a \in Seq(Glyphs) /\ core \in Seq(Glyphs) /\ h \in Seq(Glyphs)
      BY <1>12, <1>13
    <3> HIDE DEF t
    <3>2. /\ Len((a \o core) \o h) = Len(a) + Len(core) + Len(h)
          /\ SubSeq((a \o core) \o h, Len(a) + 1, Len((a \o core) \o h) - Len(h)) = core
      BY <3>1, Between3
    <3> QED BY <3>2 DEF t
  <2> HIDE DEF p, q, t, z
  <2> QED BY <1>12, <1>13, <2>2, <2>3
<1>15. IsPrefix(front, core)
  <2>1. SubSeq(front, 1, Len(front)) = front /\ Len(front) = f
    BY <1>4, SubSeqFull DEF f
  <2>2. f <= Len(core)
    <3> HIDE DEF z
    <3> QED BY <1>1, <1>4, <1>10, <1>13 DEF k
  <2> QED BY <1>13, <2>1, <2>2 DEF IsPrefix
<1> HIDE DEF t
<1>16. Wide(d.flags, d.width, f, k, d.precision, p, q, z)
  <2>1. k \in Nat
    BY <1>1 DEF k
  <2>2. /\ p = Greatest(IF Left(d.flags) \/ Zeroed(d.flags) THEN 0 ELSE room, 0)
        /\ q = Greatest(IF Left(d.flags) THEN room ELSE 0, 0)
        /\ z = Greatest(IF Zeroed(d.flags) THEN room ELSE 0, 0) + (n - k)
    OBVIOUS
  <2>3. n = Greatest(k, d.precision)
    BY <1>2 DEF k
  <2> HIDE DEF p, q, z
  <2> QED BY <1>2, <1>4, <1>5, <1>9, <1>10, <2>1, <2>2, <2>3, Widths
<1> HIDE DEF p, q, z
<1>17. p \in 0 .. Len(t) /\ q \in 0 .. Len(t)
  <2>1. k \in Nat
    BY <1>1 DEF k
  <2> QED BY <1>4, <1>9, <1>10, <1>14, <2>1
<1>18. {"-", "0"} \intersect d.flags = {"0"} => p = 0
  <2>1. {"-", "0"} \intersect d.flags = {"0"} => Zeroed(d.flags)
    BY DEF Zeroed
  <2> QED BY <1>16, <2>1 DEF Wide
<1>19. t = Times(p, " ") \o core \o Times(q, " ")
  BY <1>12 DEF t
<1>20. m = IF Negative(d) THEN Modulus - d.arg ELSE d.arg
  BY DEF Magnitude
<1>21. f = Len(front)
  BY DEF f
<1>22. \/ Len(t) = d.width
       \/ /\ Len(t) > d.width /\ p = 0 /\ q = 0
          /\ Len(cs) = d.precision \/ Len(cs) = 1 \/ cs[1] # "0"
  <2> QED BY <1>10, <1>14, <1>16 DEF Wide
<1>23. Len(cs) >= d.precision
  BY <1>10, <1>16 DEF Wide
<1>24. Reads(d, t)
  <2>1. SubSeq(t, p + 1, Len(t) - q) = core /\ SubSeq(core, Len(front) + 1, Len(core)) = cs
    BY <1>13, <1>14, <1>21
  <2>2. ("-" \in d.flags => p = 0) /\ ("-" \notin d.flags => q = 0)
    BY <1>16 DEF Wide, Left
  <2> HIDE DEF m, base
  <2>3. LET front2 == SignOf(d) \o Prefix(d)
            core2  == SubSeq(t, p + 1, Len(t) - q)
            ds2    == SubSeq(core2, Len(front2) + 1, Len(core2))
        IN  /\ t = Times(p, " ") \o core2 \o Times(q, " ")
            /\ IsPrefix(front2, core2)
            /\ Numeral(ds2, Base(d.conv))
            /\ ValueOf(ds2, Base(d.conv)) = (IF Negative(d) THEN Modulus - d.arg ELSE d.arg)
            /\ Len(ds2) >= d.precision
            /\ "-" \in d.flags => p = 0
            /\ "-" \notin d.flags => q = 0
            /\ {"-", "0"} \intersect d.flags = {"0"} => p = 0
            /\ \/ Len(t) = d.width
               \/ /\ Len(t) > d.width /\ p = 0 /\ q = 0
                  /\ Len(ds2) = d.precision \/ Len(ds2) = 1 \/ ds2[1] # "0"
    BY <1>10, <1>15, <1>18, <1>19, <1>20, <1>22, <1>23, <2>1, <2>2 DEF front, base
  <2> QED BY <1>17, <2>3 DEF Reads
<1> QED BY <1>7, <1>14, <1>24 DEF t
-----------------------------------------------------------------------------
(***************************************************************************)
(* A line with plain text, and NumbersRead.                                *)
(***************************************************************************)
LEMMA WrittenPlain ==
  ASSUME NEW R, NEW b \in Seq(R), NEW g \in Garbage, NEW m \in 0 .. Len(b) - 1,
         \A i \in 1 .. m : b[i] # "%" /\ b[i] # NUL, b[m + 1] = NUL
  PROVE  Written(b, g).out = SubSeq(b, 1, m)
<1> DEFINE w == Walk(b, g)
<1>1. m \in 0 .. Len(b) /\ m + 1 \in 1 .. Len(b) /\ m + 1 \in 0 .. Len(b) /\ (m + 1) - 1 = m
  OBVIOUS
<1>2. w[m] = Plain(SubSeq(b, 1, m))
  BY <1>1, WalkPlain
<1>3. w[m + 1] = Step(w[m], b[m + 1], g)
  BY <1>1, WalkFacts
<1> HIDE DEF w
<1>4. w[m + 1] = [Plain(SubSeq(b, 1, m)) EXCEPT !.done = TRUE]
  BY <1>2, <1>3 DEF Step, Plain, NUL
<1>5. w[m + 1].done /\ w[m + 1].out = SubSeq(b, 1, m)
  BY <1>4 DEF Plain
<1>6. Written(b, g) = w[m + 1]
  BY <1>1, <1>5, WalkDone DEF w
<1> QED BY <1>5, <1>6

\* The buffer holds the text.
LEMMA StoredFacts ==
  ASSUME NEW E, NEW t \in Seq(E), Len(t) < BufSize
  PROVE  \E R : /\ Stored(t) \in Seq(R) /\ Len(Stored(t)) = BufSize /\ BufSize \in Nat
                /\ SubSeq(Stored(t), 1, Len(t)) = t
                /\ Stored(t)[Len(t) + 1] = NUL
                /\ \A i \in 1 .. Len(t) : Stored(t)[i] = t[i]
<1> DEFINE b == Stored(t)
           R == {b[i] : i \in 1 .. BufSize}
           n == Len(t)
<1>1. BufSize \in Nat /\ n \in Nat /\ n < BufSize
  BY PrintmAssumption
<1>2. b = [i \in 1 .. BufSize |-> b[i]]
  BY DEF Stored
<1>3. /\ \A i \in 1 .. n : b[i] = t[i]
      /\ b[n + 1] = NUL
  BY <1>1 DEF Stored
<1> HIDE DEF b
<1>4. b \in Seq(R) /\ Len(b) = BufSize
  <2>1. \A i \in 1 .. BufSize : b[i] \in R
    OBVIOUS
  <2> HIDE DEF R
  <2> QED BY <1>1, <1>2, <2>1
<1>5. SubSeq(b, 1, n) = t
  <2> DEFINE u == SubSeq(b, 1, n)
  <2>1. /\ u \in Seq(E) /\ Len(u) = IF 1 <= n THEN n - 1 + 1 ELSE 0
        /\ \A i \in 1 .. n - 1 + 1 : u[i] = b[1 + i - 1]
    <3>1. 1 \in Int /\ n \in Int /\ \A i \in 1 .. n : b[i] \in E
      BY <1>1, <1>3
    <3> HIDE DEF n
    <3> QED BY <3>1, SubSeqProperties
  <2>2. Len(u) = n /\ \A i \in 1 .. n : u[i] = t[i]
    <3> HIDE DEF u, n
    <3> QED BY <1>1, <1>3, <2>1
  <2> QED BY <2>1, <2>2, SeqEqual
<1> HIDE DEF R
<1> QED BY <1>1, <1>3, <1>4, <1>5 DEF b

LEMMA FlattenOne == \A x : FlattenSeq(<<x>>) = x
<1> SUFFICES ASSUME NEW x PROVE FlattenSeq(<<x>>) = x
  OBVIOUS
<1> DEFINE s == <<x>>
           Flat(h) == h = [i \in 1 .. Len(s) |-> IF i = 1 THEN s[i] ELSE h[i - 1] \o s[i]]
           f == CHOOSE h : Flat(h)
<1>1. Len(s) = 1 /\ s[1] = x
  OBVIOUS
<1>2. FlattenSeq(s) = f[1]
  BY <1>1 DEF FlattenSeq
<1> HIDE DEF s
<1>3. Flat([i \in 1 .. 1 |-> x])
  <2> DEFINE h == [i \in 1 .. 1 |-> x]
  <2>1. h = [i \in 1 .. Len(s) |-> IF i = 1 THEN s[i] ELSE h[i - 1] \o s[i]]
    <3>1. \A i \in 1 .. 1 : i = 1
      OBVIOUS
    <3> QED BY <1>1, <3>1
  <2> QED BY <2>1
<1>4. Flat(f)
  <2> HIDE DEF Flat
  <2> QED BY <1>3
<1>5. f[1] = x
  <2> HIDE DEF f
  <2>1. 1 \in 1 .. Len(s)
    BY <1>1
  <2> QED BY <1>1, <1>4, <2>1
<1> QED BY <1>2, <1>5 DEF s

\* A line of one number.
LEMMA OneNumber ==
  ASSUME NEW fmt \in Formats \union Numerals, Len(fmt) = 1, IsNumber(fmt[1]), NEW lens
  PROVE  Word(fmt[1]) /\ Formatted(fmt, lens) = Number(fmt[1])
<1>1. DOMAIN fmt = 1 .. 1
  <2>1. fmt \in Seq({fmt[i] : i \in DOMAIN fmt})
    BY PrintmAssumption
  <2> QED BY <2>1
<1>2. 1 \in DOMAIN fmt
  BY <1>1
<1>3. Word(fmt[1])
  <2>1. Proper(fmt[1])
    BY <1>2, PrintmAssumption
  <2> QED BY <2>1 DEF Proper, Word, Figured, IsNumber, IsString
<1> DEFINE x == Item(fmt[1], lens[1])
<1>4. x = Number(fmt[1])
  BY DEF Item, IsNumber
<1>5. [i \in DOMAIN fmt |-> Item(fmt[i], lens[i])] = <<x>>
  BY <1>1
<1> HIDE DEF x
<1>6. Formatted(fmt, lens) = x
  BY <1>5, FlattenOne DEF Formatted
<1> QED BY <1>3, <1>4, <1>6

LEMMA SayReads ==
  ASSUME NumbersRead, NEW fmt \in Formats \union Numerals, Say(fmt)
  PROVE  NumbersRead'
<1>1. PICK lens \in Lengths(fmt), g \in Garbage :
        LET t == Formatted(fmt, lens)
        IN  IF Len(t) >= BufSize THEN Overrun /\ UNCHANGED buf
            ELSE /\ buf' = Stored(t)
                 /\ \/ Write(fmt, Written(Stored(t), g))
                    \/ PointerFault(Stored(t), g)
  BY DEF Say
<1> DEFINE t == Formatted(fmt, lens)
           w == Written(Stored(t), g)
<1>2. CASE Overrun \/ PointerFault(Stored(t), g)
  <2>1. UNCHANGED call
    BY <1>2 DEF Overrun, PointerFault
  <2> QED BY <2>1 DEF NumbersRead
<1>3. CASE ~(Len(t) >= BufSize) /\ Write(fmt, w) /\ w.done
  <2>1. call' = [fmt |-> fmt, header |-> LineHead, out |-> LineHead \o w.out]
    BY <1>3 DEF Write
  <2> SUFFICES ASSUME Len(fmt) = 1, NEW i \in DOMAIN fmt, IsNumber(fmt[i])
               PROVE  Reads(fmt[i], SubSeq(LineHead \o w.out, Len(LineHead) + 1,
                                           Len(LineHead \o w.out)))
    <3> HIDE DEF w
    <3> QED BY <2>1 DEF NumbersRead
  <2>2. i = 1
    <3>1. fmt \in Seq({fmt[j] : j \in DOMAIN fmt})
      BY PrintmAssumption
    <3> QED BY <3>1
  <2> DEFINE d == fmt[1]
  <2>3. Word(d) /\ t = Number(d)
    BY <2>2, OneNumber
  <2>4. t \in Seq(Glyphs) /\ Reads(d, t)
    BY <2>3, NumberReads
  <2> HIDE DEF t, d
  <2>5. Len(t) < BufSize /\ Len(t) \in Nat
    BY <1>3, <2>4, PrintmAssumption
  <2>6. PICK R : /\ Stored(t) \in Seq(R) /\ Len(Stored(t)) = BufSize /\ BufSize \in Nat
                 /\ SubSeq(Stored(t), 1, Len(t)) = t
                 /\ Stored(t)[Len(t) + 1] = NUL
                 /\ \A j \in 1 .. Len(t) : Stored(t)[j] = t[j]
    BY <2>4, <2>5, StoredFacts
  <2> DEFINE b == Stored(t)
             m == Len(t)
  <2>7. \A j \in 1 .. m : b[j] # "%" /\ b[j] # NUL
    <3>1. \A j \in 1 .. m : t[j] \in Glyphs
      BY <2>4
    <3> HIDE DEF b, m
    <3> QED BY <2>6, <3>1, GlyphsPlain DEF b, m
  <2>8. m \in 0 .. Len(b) - 1
    BY <2>5, <2>6
  <2>9. w.out = t
    <3>1. b \in Seq(R) /\ b[m + 1] = NUL /\ SubSeq(b, 1, m) = t
      BY <2>6
    <3> HIDE DEF b, m
    <3>2. Written(b, g).out = SubSeq(b, 1, m)
      BY <2>7, <2>8, <3>1, WrittenPlain
    <3> QED BY <3>1, <3>2 DEF b
  <2>10. SubSeq(LineHead \o t, Len(LineHead) + 1, Len(LineHead \o t)) = t
    <3> DEFINE E == STRING \union Glyphs
    <3>1. Header \in Seq(STRING) /\ STRING \subseteq E /\ Glyphs \subseteq E
      BY PrintmAssumption
    <3> HIDE DEF E
    <3>2. t \in Seq(E) /\ Header \in Seq(E)
      BY <2>4, <3>1, SeqMonotonic
    <3>3. LineHead \in Seq(E)
      BY <3>2 DEF LineHead
    <3> QED BY <3>2, <3>3, Halves
  <2> HIDE DEF w
  <2> QED BY <2>2, <2>4, <2>9, <2>10 DEF d
<1>4. \/ Overrun \/ PointerFault(Stored(t), g)
      \/ ~(Len(t) >= BufSize) /\ Write(fmt, w) /\ w.done
  BY <1>1 DEF Write
<1> QED BY <1>2, <1>3, <1>4

\* What printm prints of a number is a numeral of its value, with its sign and prefix, as
\* wide as asked and not wider than it must be (vsprintf.c:36-92).
THEOREM NumbersReadHolds == Spec => []NumbersRead
<1>1. Init => NumbersRead
  BY DEF Init, NoCall, NumbersRead
<1>2. NumbersRead /\ [Next]_vars => NumbersRead'
  <2> SUFFICES ASSUME NumbersRead, [Next]_vars PROVE NumbersRead'
    OBVIOUS
  <2>1. CASE Line
    BY <2>1, SayReads DEF Line
  <2>2. CASE Numeric
    BY <2>2, SayReads DEF Numeric
  <2>3. CASE UNCHANGED call
    BY <2>3 DEF NumbersRead
  <2>4. CASE StrlenFault \/ Echo \/ SwitchHeader \/ UNCHANGED vars
    BY <2>3, <2>4 DEF StrlenFault, Echo, SwitchHeader, vars
  <2> QED BY <2>1, <2>2, <2>4 DEF Next
<1> QED BY <1>1, <1>2, PTL DEF Spec
-----------------------------------------------------------------------------
(***************************************************************************)
(* The items of a format and their flattening.                             *)
(***************************************************************************)
\* Initial parts are what is needed of SubSeq(s, 1, k).
LEMMA Initial ==
  ASSUME NEW E, NEW s, NEW k \in Nat, \A i \in 1 .. k : s[i] \in E
  PROVE  /\ SubSeq(s, 1, k) \in Seq(E) /\ Len(SubSeq(s, 1, k)) = k
         /\ \A i \in 1 .. k : SubSeq(s, 1, k)[i] = s[i]
<1> DEFINE u == SubSeq(s, 1, k)
<1>1. /\ u \in Seq(E) /\ Len(u) = IF 1 <= k THEN k - 1 + 1 ELSE 0
      /\ \A i \in 1 .. k - 1 + 1 : u[i] = s[1 + i - 1]
  <2>1. 1 \in Int /\ k \in Int
    OBVIOUS
  <2> QED BY <2>1, SubSeqProperties
<1> HIDE DEF u
<1>2. Len(u) = k /\ \A i \in 1 .. k : u[i] = s[i]
  BY <1>1
<1> QED BY <1>1, <1>2 DEF u

Space == " "
PerCent == "%"

LEMMA PadFacts ==
  ASSUME NEW E, Space \in E, NEW t \in Seq(E), NEW n \in Int, NEW d, d.width \in Int
  PROVE  Pad(d, n, t) \in Seq(E) /\ (d.width = Unset /\ n >= 0 => Pad(d, n, t) = t)
<1> DEFINE k == d.width - n
           blanks == Times(k, Space)
<1>1. k \in Int
  OBVIOUS
<1>2. d.width = Unset /\ n >= 0 => k < 0
  BY DEF Unset
<1>3. Pad(d, n, t) = IF "-" \in d.flags THEN t \o blanks ELSE blanks \o t
  BY DEF Pad, Space
<1> HIDE DEF k
<1>4. blanks \in Seq(E) /\ Len(blanks) = Greatest(k, 0)
  BY <1>1, TimesFacts
<1>5. k < 0 => blanks = <<>>
  <2> HIDE DEF blanks
  <2> QED BY <1>1, <1>4 DEF Greatest
<1> HIDE DEF blanks
<1>6. t \o blanks \in Seq(E) /\ blanks \o t \in Seq(E)
  BY <1>4, ConcatProperties
<1>7. t \o <<>> = t /\ <<>> \o t = t
  BY ConcatEmptySeq
<1> QED BY <1>2, <1>3, <1>5, <1>6, <1>7

\* What items are made of, besides the ends of strings.
Letters(d) == STRING \union Glyphs \union {PerCent, d.arg}

LEMMA Blanks == Space \in Glyphs /\ Space # NUL /\ PerCent # NUL
<1>1. Space \in Glyphs
  BY DEF Glyphs, Space
<1>2. Space # NUL
  BY DEF NUL, Space
<1>3. PerCent # NUL
  BY DEF NUL, PerCent
<1> QED BY <1>1, <1>2, <1>3

\* Only a string has an end within its item.
LEMMA ItemPlain ==
  ASSUME NEW d, Proper(d), ~IsString(d), NEW len
  PROVE  Item(d, len) \in Seq(Letters(d) \ {NUL})
<1> DEFINE E == Letters(d) \ {NUL}
<1>1. /\ Glyphs \subseteq E /\ PerCent \in E /\ Space \in E
      /\ d.arg # NUL => d.arg \in E
  BY GlyphsPlain, Blanks DEF Letters
<1> HIDE DEF E
<1>2. d.width \in Int /\ d.precision \in Int
  BY DEF Proper
<1>3. CASE d.conv = "%"
  <2>1. Item(d, len) = <<PerCent>>
    BY <1>3 DEF Item, PerCent
  <2>2. <<PerCent>> \in Seq(E)
    BY <1>1
  <2> QED BY <2>1, <2>2 DEF E
<1>4. CASE d.conv \in {"text", "c", "other"} /\ d.arg # NUL
  <2> DEFINE c == d.arg
  <2>1. c \in E
    BY <1>1, <1>4
  <2> HIDE DEF c
  <2>2. <<c>> \in Seq(E) /\ <<PerCent, c>> \in Seq(E)
    BY <1>1, <2>1
  <2>3. Pad(d, 1, <<c>>) \in Seq(E)
    <3>1. 1 \in Int /\ d.width \in Int /\ Space \in E /\ <<c>> \in Seq(E)
      BY <1>1, <1>2, <2>2
    <3> QED BY <3>1, PadFacts
  <2>4. Item(d, len) = <<c>> \/ Item(d, len) = <<PerCent, c>> \/ Item(d, len) = Pad(d, 1, <<c>>)
    BY <1>4 DEF Item, PerCent, c
  <2> QED BY <2>2, <2>3, <2>4 DEF E
<1>5. CASE IsNumber(d) /\ d.arg \in 0 .. Modulus - 1
  <2>1. Word(d)
    BY <1>2, <1>5 DEF Word, Figured
  <2>2. Number(d) \in Seq(Glyphs)
    BY <2>1, NumberReads
  <2>3. Number(d) \in Seq(E)
    BY <1>1, <2>2, SeqMonotonic
  <2>4. Item(d, len) = Number(d)
    BY <1>5 DEF Item, IsNumber
  <2> QED BY <2>3, <2>4 DEF E
<1>6. CASE d.conv = "p" /\ d.arg \in 0 .. Modulus - 1
  <2> DEFINE e == Pointer(d)
  <2>1. /\ e.conv = "p" /\ e.arg = d.arg /\ e.precision = d.precision
        /\ e.width \in Int
    <3> DEFINE w == (Bits + 3) \div 4
               f == [d EXCEPT !.width = w, !.flags = @ \union {"0"}]
    <3>1. w \in Int
      BY VsprintfAssumption
    <3> HIDE DEF w
    <3>2. DOMAIN d = {"conv", "flags", "width", "precision", "arg"}
      BY DEF Proper
    <3>3. f.conv = d.conv /\ f.arg = d.arg /\ f.precision = d.precision /\ f.width = w
      BY <3>2
    <3>4. e = f \/ e = d
      BY DEF Pointer, w
    <3> HIDE DEF e, f
    <3> QED BY <1>2, <1>6, <3>1, <3>3, <3>4
  <2> HIDE DEF e
  <2>2. Word(e)
    BY <1>2, <1>6, <2>1 DEF Word, Figured
  <2>3. Number(e) \in Seq(Glyphs)
    BY <2>2, NumberReads
  <2>4. Number(e) \in Seq(E)
    BY <1>1, <2>3, SeqMonotonic
  <2>5. Item(d, len) = Number(e)
    BY <1>6 DEF Item, e
  <2> QED BY <2>4, <2>5 DEF E
<1>7. \/ d.conv = "%" \/ (d.conv \in {"text", "c", "other"} /\ d.arg # NUL)
      \/ ((IsNumber(d) \/ d.conv = "p") /\ d.arg \in 0 .. Modulus - 1)
  BY DEF Proper
<1> QED BY <1>3, <1>4, <1>5, <1>6, <1>7

\* The text x goes on behind y with the end of a string.
Continues(x, y) == /\ Len(y) < Len(x) /\ x[Len(y) + 1] = NUL
                   /\ \A k \in 1 .. Len(y) : x[k] = y[k]

\* A length that is not a string's own is either negative or behind the string.
LEMMA LostFacts ==
  /\ Modulus \div 2 \in Nat
  /\ \A n \in Lost : Signed(n) \in Int /\ Signed(n) < 0
  /\ \A n \in Nat : n < Modulus \div 2 => Signed(n) = n /\ n \notin Lost
<1>1. Modulus \in Nat
  BY VsprintfAssumption, PowerFacts DEF Modulus
<1> DEFINE h == Modulus \div 2
<1>2. h \in Nat /\ Modulus >= h + h
  BY <1>1
<1>3. \A b \in Before : b \in Nat /\ b > 0 /\ b <= h
  BY <1>2, BeforeAssumption
<1>4. \A n : Signed(n) = IF n < h THEN n ELSE n - Modulus
  BY DEF Signed
<1> HIDE DEF h
<1>5. ASSUME NEW n \in Lost
      PROVE  n \in Int /\ n >= h /\ Signed(n) \in Int /\ Signed(n) < 0
  <2>1. PICK b \in Before : n = Modulus - b
    BY DEF Lost
  <2>2. n \in Int /\ n >= h /\ n < Modulus
    BY <1>1, <1>2, <1>3, <2>1
  <2>3. ~(n < h)
    BY <1>2, <2>2
  <2>4. Signed(n) = n - Modulus
    BY <1>4, <2>3
  <2> QED BY <1>1, <2>2, <2>4
<1>6. \A n \in Nat : n < h => Signed(n) = n /\ n \notin Lost
  BY <1>2, <1>4, <1>5
<1> QED BY <1>2, <1>5, <1>6 DEF h

\* The length a string is printed with, if it is not too long.
Taken(d, len) == IF len \in Nuls(d.arg) THEN TrueStrlen(d.arg) ELSE len

LEMMA TrueFacts ==
  ASSUME NEW d, Proper(d), IsString(d)
  PROVE  /\ Nuls(d.arg) \subseteq Nat
         /\ \A k \in Nuls(d.arg) : /\ k < Len(d.arg) /\ d.arg[k + 1] = NUL
                                   /\ k \notin Lost /\ Signed(k) = k
         /\ TrueStrlen(d.arg) \in Nuls(d.arg)
         /\ \A k \in Nuls(d.arg) : TrueStrlen(d.arg) <= k
         /\ \A k \in 1 .. TrueStrlen(d.arg) : d.arg[k] # NUL
<1> DEFINE s == d.arg
           l == TrueStrlen(s)
<1>1. s \in Seq(STRING) /\ Nuls(s) # {} /\ Len(s) <= Modulus \div 2
  BY DEF Proper, IsString, IsNumber
<1> HIDE DEF s
<1>2. Nuls(s) \subseteq Nat /\ \A k \in Nuls(s) : k < Len(s) /\ s[k + 1] = NUL
  BY <1>1 DEF Nuls
<1>3. \A k \in Nuls(s) : k \notin Lost /\ Signed(k) = k
  <2>1. Len(s) \in Nat /\ \A k \in Nuls(s) : k \in Nat /\ k < Len(s)
    BY <1>1, <1>2
  <2>2. \A k \in Nuls(s) : k \in Nat /\ k < Modulus \div 2
    <3> DEFINE h == Modulus \div 2
    <3>1. h \in Nat /\ Len(s) <= h
      BY <1>1, LostFacts
    <3> HIDE DEF h
    <3>2. \A k \in Nuls(s) : k \in Nat /\ k < h
      BY <2>1, <3>1
    <3> QED BY <3>2 DEF h
  <2> QED BY <2>2, LostFacts
<1>4. l \in Nuls(s) /\ \A k \in Nuls(s) : l <= k
  <2>1. \E k \in Nuls(s) : \A j \in Nuls(s) : k <= j
    <3> DEFINE T == Nuls(s)
    <3>1. T \subseteq Nat /\ T # {}
      BY <1>1, <1>2
    <3> HIDE DEF T
    <3> QED BY <3>1, Smallest DEF T
  <2> QED BY <2>1 DEF TrueStrlen
<1> HIDE DEF l
<1>5. \A k \in 1 .. l : s[k] # NUL
  <2> SUFFICES ASSUME NEW k \in 1 .. l, s[k] = NUL PROVE FALSE
    OBVIOUS
  <2>1. k - 1 \in 0 .. Len(s) - 1 /\ (k - 1) + 1 = k /\ k - 1 < l
    BY <1>1, <1>2, <1>4
  <2>2. k - 1 \in Nuls(s)
    BY <2>1 DEF Nuls
  <2> QED BY <1>2, <1>4, <2>1, <2>2
<1> QED BY <1>2, <1>3, <1>4, <1>5 DEF s, l

\* A string is printed as it is, or lost, or goes on behind its end.
LEMMA ItemString ==
  ASSUME NEW d, Proper(d), IsString(d), d.width = Unset, NEW len \in Strlens(d.arg)
  PROVE  /\ Item(d, len) \in Seq(Letters(d) \union {NUL})
         /\ Item(d, Taken(d, len)) \in Seq(Letters(d) \ {NUL})
         /\ \/ Item(d, len) = Item(d, Taken(d, len))
            \/ /\ Taken(d, len) \notin Lost
               /\ Continues(Item(d, len), Item(d, Taken(d, len)))
<1> DEFINE s == d.arg
           l == TrueStrlen(s)
           p == d.precision
           E == Letters(d) \ {NUL}
           F == Letters(d) \union {NUL}
           At(i) == IF p < 0 THEN Signed(i) ELSE Least(Signed(i), p)
           Text(i) == SubSeq(s, 1, At(i))
<1>1. s \in Seq(STRING) /\ p \in Int
  BY DEF Proper, IsString, IsNumber
<1>2. \A i : Item(d, i) = Pad(d, At(i), Text(i))
  BY DEF Item, IsString, String
<1>3. Space \in E /\ Space \in F /\ d.width \in Int /\ E \subseteq F
  BY Blanks DEF Letters, Proper
<1>4. CASE len \notin Nuls(s)
  <2>1. len \in Lost /\ Taken(d, len) = len
    BY <1>4 DEF Strlens, Taken
  <2> DEFINE n == At(len)
             x == Text(len)
  <2>2. n \in Int /\ n < 0
    <3>1. Signed(len) \in Int /\ Signed(len) < 0
      BY <2>1, LostFacts
    <3> DEFINE k == Signed(len)
    <3>2. n = IF p < 0 THEN k ELSE Least(k, p)
      OBVIOUS
    <3> HIDE DEF k, n
    <3> QED BY <1>1, <3>1, <3>2 DEF Least, k
  <2> HIDE DEF n
  <2>3. x = <<>>
    <3>1. x = SubSeq(s, 1, n)
      BY DEF n
    <3>2. 1 \in Int /\ n \in Int /\ \A i \in 1 .. n : s[i] \in STRING
      BY <1>1, <2>2
    <3> HIDE DEF x
    <3>3. x \in Seq(STRING) /\ Len(x) = IF 1 <= n THEN n - 1 + 1 ELSE 0
      BY <3>1, <3>2, SubSeqProperties
    <3> QED BY <2>2, <3>3
  <2> HIDE DEF x
  <2>4. x \in Seq(E)
    BY <2>3
  <2>5. Item(d, len) = Pad(d, n, x)
    BY <1>2 DEF n, x
  <2> HIDE DEF E, F
  <2>6. Pad(d, n, x) \in Seq(E)
    BY <1>3, <2>2, <2>4, PadFacts
  <2>7. Item(d, len) \in Seq(E) /\ Item(d, len) \in Seq(F)
    BY <1>3, <2>5, <2>6, SeqMonotonic
  <2> QED BY <2>1, <2>7 DEF E, F
<1>5. CASE len \in Nuls(s)
  <2>1. Taken(d, len) = l
    BY <1>5 DEF Taken
  <2>2. /\ len \in Nat /\ l \in Nat /\ l <= len /\ len < Len(s) /\ s[l + 1] = NUL
        /\ Signed(len) = len /\ Signed(l) = l /\ l \notin Lost
        /\ \A k \in 1 .. l : s[k] # NUL
    BY <1>5, TrueFacts
  <2> HIDE DEF l, s
  <2> DEFINE n == At(len)
             m == At(l)
             x == Text(len)
             y == Text(l)
  <2>3. n = (IF p < 0 THEN len ELSE Least(len, p)) /\ m = IF p < 0 THEN l ELSE Least(l, p)
    BY <2>2
  <2>4. x = SubSeq(s, 1, n) /\ y = SubSeq(s, 1, m)
    OBVIOUS
  <2>5. Item(d, len) = Pad(d, n, x) /\ Item(d, l) = Pad(d, m, y)
    BY <1>2
  <2> HIDE DEF n, m, x, y
  <2>6. n \in Nat /\ m \in Nat /\ m <= l /\ n < Len(s) /\ (n = m \/ (m = l /\ l < n))
    BY <1>1, <2>2, <2>3 DEF Least
  <2>7. \A k \in 1 .. n : s[k] \in F
    <3>1. \A k \in 1 .. n : s[k] \in STRING
      BY <1>1, <2>6
    <3> QED BY <3>1 DEF Letters
  <2>8. \A k \in 1 .. m : s[k] \in E
    <3>1. \A k \in 1 .. m : s[k] \in STRING /\ s[k] # NUL
      BY <1>1, <2>2, <2>6
    <3> QED BY <3>1 DEF Letters
  <2> HIDE DEF E, F
  <2>9. x \in Seq(F) /\ Len(x) = n /\ \A k \in 1 .. n : x[k] = s[k]
    BY <2>4, <2>6, <2>7, Initial
  <2>10. y \in Seq(E) /\ Len(y) = m /\ \A k \in 1 .. m : y[k] = s[k]
    BY <2>4, <2>6, <2>8, Initial
  <2>11. n \in Int /\ n >= 0 /\ m \in Int /\ m >= 0
    BY <2>6
  <2>12. Pad(d, n, x) = x
    BY <1>3, <2>9, <2>11, PadFacts
  <2>13. Pad(d, m, y) = y
    BY <1>3, <2>10, <2>11, PadFacts
  <2>14. x = y \/ Continues(x, y)
    <3>1. CASE n = m
      BY <2>4, <3>1
    <3>2. CASE m = l /\ l < n
      <4>1. Len(y) < Len(x) /\ x[Len(y) + 1] = NUL
        BY <2>2, <2>6, <2>9, <2>10, <3>2
      <4>2. \A k \in 1 .. Len(y) : x[k] = y[k]
        BY <2>2, <2>6, <2>9, <2>10, <3>2
      <4> QED BY <4>1, <4>2 DEF Continues
    <3> QED BY <2>6, <3>1, <3>2
  <2> QED BY <2>1, <2>2, <2>5, <2>9, <2>10, <2>12, <2>13, <2>14 DEF E, F
<1> QED BY <1>4, <1>5

\* FlattenSeq of the first k elements of x, for each k.
Flattened(h, n, E, x) ==
  /\ h[0] = <<>>
  /\ \A k \in 1 .. n : h[k] = h[k - 1] \o x[k]
  /\ \A k \in 0 .. n : h[k] \in Seq(E)
  /\ \A k \in 0 .. n : FlattenSeq([j \in 1 .. k |-> x[j]]) = h[k]

LEMMA Flattens ==
  ASSUME NEW E, NEW n \in Nat, NEW x, \A k \in 1 .. n : x[k] \in Seq(E)
  PROVE  \E h : Flattened(h, n, E, x)
<1> DEFINE D == Seq(E)
           g == [a \in Nat \X D |-> IF a[1] \in 1 .. n THEN a[2] \o x[a[1]] ELSE a[2]]
<1>1. g \in [Nat \X D -> D]
  <2>1. ASSUME NEW a \in Nat \X D, a[1] \in 1 .. n PROVE a[2] \o x[a[1]] \in D
    <3> DEFINE s == a[2]
               t == x[a[1]]
    <3>1. s \in Seq(E) /\ t \in Seq(E)
      BY <2>1
    <3> HIDE DEF s, t
    <3> QED BY <3>1, ConcatProperties DEF s, t
  <2>2. \A a \in Nat \X D : a[2] \in D
    OBVIOUS
  <2> HIDE DEF D
  <2> QED BY <2>1, <2>2
<1>2. <<>> \in D
  OBVIOUS
<1>3. PICK h : Iterates(h, n, <<>>, g)
  <2> HIDE DEF D, g
  <2> QED BY <1>1, <1>2, Iteration
<1>4. h[0] = <<>> /\ \A k \in 1 .. n : h[k] = g[<<k, h[k - 1]>>]
  <2>1. h = [j \in 0 .. n |-> IF j = 0 THEN <<>> ELSE g[<<j, h[j - 1]>>]]
    BY <1>3 DEF Iterates
  <2>2. 0 \in 0 .. n /\ \A k \in 1 .. n : k \in 0 .. n /\ k # 0
    OBVIOUS
  <2> HIDE DEF g
  <2> QED BY <2>1, <2>2
<1>5. \A k \in 0 .. n : h[k] \in D
  <2> DEFINE S == {k \in Nat : k <= n => h[k] \in D}
  <2>1. 0 \in S
    BY <1>2, <1>4
  <2>2. ASSUME NEW k \in Nat, k \in S PROVE k + 1 \in S
    <3> SUFFICES ASSUME k + 1 <= n PROVE h[k + 1] \in D
      OBVIOUS
    <3>1. k + 1 \in 1 .. n /\ (k + 1) - 1 = k /\ h[k] \in D
      BY <2>2
    <3> HIDE DEF g, D
    <3>2. h[k + 1] = g[<<k + 1, h[(k + 1) - 1]>>]
      BY <1>4, <3>1
    <3>3. <<k + 1, h[k]>> \in Nat \X D
      BY <3>1
    <3> QED BY <1>1, <3>1, <3>2, <3>3
  <2>3. Nat \subseteq S
    <3> HIDE DEF S
    <3> QED BY <2>1, <2>2, Induction
  <2> HIDE DEF D
  <2> QED BY <2>3
<1>6. \A k \in 1 .. n : h[k] = h[k - 1] \o x[k]
  <2> SUFFICES ASSUME NEW k \in 1 .. n PROVE h[k] = h[k - 1] \o x[k]
    OBVIOUS
  <2>1. k - 1 \in 0 .. n /\ k \in Nat
    OBVIOUS
  <2>2. <<k, h[k - 1]>> \in Nat \X D
    BY <1>5, <2>1
  <2> QED BY <1>4, <2>2
<1> HIDE DEF g, D
<1>7. ASSUME NEW k \in 0 .. n PROVE FlattenSeq([j \in 1 .. k |-> x[j]]) = h[k]
  <2> DEFINE s == [j \in 1 .. k |-> x[j]]
             Flat(f) == f = [i \in 1 .. Len(s) |-> IF i = 1 THEN s[i] ELSE f[i - 1] \o s[i]]
             f == CHOOSE c : Flat(c)
  <2>1. k \in Nat /\ Len(s) = k /\ \A i \in 1 .. k : s[i] = x[i]
    OBVIOUS
  <2>2. CASE k = 0
    <3>1. 1 .. k = {}
      BY <2>2
    <3>2. s = <<>>
      <4> DEFINE N == 1 .. k
      <4>1. s = [j \in N |-> x[j]] /\ N = {}
        BY <3>1
      <4> HIDE DEF N
      <4> QED BY <4>1
    <3>3. FlattenSeq(s) = s
      BY <2>1, <2>2 DEF FlattenSeq
    <3> QED BY <1>4, <2>2, <3>2, <3>3
  <2>3. CASE k # 0
    <3>1. FlattenSeq(s) = f[k]
      BY <2>1, <2>3 DEF FlattenSeq
    <3> HIDE DEF s
    <3>2. Flat([i \in 1 .. k |-> h[i]])
      <4> DEFINE c == [i \in 1 .. k |-> h[i]]
      <4>1. ASSUME NEW i \in 1 .. k PROVE h[i] = IF i = 1 THEN s[i] ELSE c[i - 1] \o s[i]
        <5>0. i \in 1 .. n
          OBVIOUS
        <5>1. h[i] = h[i - 1] \o x[i] /\ s[i] = x[i] /\ x[i] \in Seq(E)
          BY <1>6, <2>1, <5>0
        <5>2. CASE i = 1
          <6>1. h[i - 1] = <<>>
            BY <1>4, <5>2
          <6> QED BY <5>1, <5>2, <6>1, ConcatEmptySeq
        <5>3. CASE i # 1
          <6>1. i - 1 \in 1 .. k
            BY <5>3
          <6>2. c[i - 1] = h[i - 1]
            BY <6>1
          <6> QED BY <5>1, <5>3, <6>2
        <5> QED BY <5>2, <5>3
      <4>2. c = [i \in 1 .. k |-> IF i = 1 THEN s[i] ELSE c[i - 1] \o s[i]]
        <5> DEFINE G(i) == IF i = 1 THEN s[i] ELSE c[i - 1] \o s[i]
        <5>1. c = [i \in 1 .. k |-> h[i]] /\ \A i \in 1 .. k : h[i] = G(i)
          BY <4>1
        <5> HIDE DEF c, G
        <5>2. c = [i \in 1 .. k |-> G(i)]
          BY <5>1
        <5> QED BY <5>2 DEF G
      <4> QED BY <2>1, <4>2
    <3>3. Flat(f)
      <4> HIDE DEF Flat
      <4> QED BY <3>2
    <3>4. f = [i \in 1 .. k |-> IF i = 1 THEN s[i] ELSE f[i - 1] \o s[i]]
      <4> HIDE DEF f
      <4> QED BY <2>1, <3>3
    <3> HIDE DEF f
    <3> DEFINE S == {i \in Nat : i + 1 <= k => f[i + 1] = h[i + 1]}
    <3>5. 0 \in S
      <4>1. 1 \in 1 .. k /\ 1 \in 1 .. n /\ 1 - 1 = 0
        BY <2>3
      <4>2. f[1] = x[1]
        BY <2>1, <3>4, <4>1
      <4>4. h[1] = h[1 - 1] \o x[1] /\ x[1] \in Seq(E)
        BY <1>6, <4>1
      <4>3. h[1] = x[1]
        BY <1>4, <4>1, <4>4, ConcatEmptySeq
      <4> QED BY <4>2, <4>3
    <3>6. ASSUME NEW i \in Nat, i \in S PROVE i + 1 \in S
      <4> SUFFICES ASSUME (i + 1) + 1 <= k PROVE f[(i + 1) + 1] = h[(i + 1) + 1]
        OBVIOUS
      <4>1. /\ (i + 1) + 1 \in 1 .. k /\ (i + 1) + 1 \in 1 .. n /\ ((i + 1) + 1) - 1 = i + 1
            /\ (i + 1) + 1 # 1 /\ f[i + 1] = h[i + 1]
        BY <3>6
      <4>2. f[(i + 1) + 1] = f[i + 1] \o x[(i + 1) + 1]
        BY <2>1, <3>4, <4>1
      <4> QED BY <1>6, <4>1, <4>2
    <3>7. k - 1 \in S
      <4>1. k - 1 \in Nat
        BY <2>3
      <4> HIDE DEF S
      <4> QED BY <3>5, <3>6, <4>1, Induction
    <3>8. (k - 1) + 1 = k
      OBVIOUS
    <3> QED BY <3>1, <3>7, <3>8 DEF s
  <2> QED BY <2>2, <2>3
<1> QED BY <1>4, <1>5, <1>6, <1>7 DEF Flattened, D

LEMMA ContinuesMore ==
  ASSUME NEW F, NEW a \in Seq(F), NEW b \in Seq(F), NEW c \in Seq(F), Continues(a, b)
  PROVE  Continues(a \o c, b)
<1> DEFINE s == a \o c
<1>1. /\ Len(s) = Len(a) + Len(c)
      /\ \A i \in 1 .. Len(a) + Len(c) : s[i] = IF i <= Len(a) THEN a[i] ELSE c[i - Len(a)]
  BY ConcatProperties
<1> HIDE DEF s
<1>2. Len(a) \in Nat /\ Len(b) \in Nat /\ Len(c) \in Nat
  OBVIOUS
<1>3. /\ Len(b) < Len(a) /\ a[Len(b) + 1] = NUL
      /\ \A k \in 1 .. Len(b) : a[k] = b[k]
  BY DEF Continues
<1>4. \A i \in 1 .. Len(a) : s[i] = a[i]
  BY <1>1, <1>2
<1>5. Len(b) < Len(s) /\ s[Len(b) + 1] = NUL
  BY <1>1, <1>2, <1>3, <1>4
<1>6. \A k \in 1 .. Len(b) : s[k] = b[k]
  BY <1>2, <1>3, <1>4
<1> QED BY <1>5, <1>6 DEF Continues, s

LEMMA ContinuesBehind ==
  ASSUME NEW F, NEW a \in Seq(F), NEW b \in Seq(F), NEW c \in Seq(F), Continues(c, b)
  PROVE  Continues(a \o c, a \o b)
<1> DEFINE s == a \o c
           t == a \o b
           l == Len(a)
           m == Len(b)
           n == Len(c)
<1>1. /\ Len(s) = l + n
      /\ \A i \in 1 .. l + n : s[i] = IF i <= l THEN a[i] ELSE c[i - l]
  BY ConcatProperties
<1>2. /\ Len(t) = l + m
      /\ \A i \in 1 .. l + m : t[i] = IF i <= l THEN a[i] ELSE b[i - l]
  BY ConcatProperties
<1>3. l \in Nat /\ m \in Nat /\ n \in Nat
  OBVIOUS
<1>4. m < n /\ c[m + 1] = NUL /\ \A k \in 1 .. m : c[k] = b[k]
  BY DEF Continues
<1> HIDE DEF s, t, l, m, n
<1>5. s[Len(t) + 1] = NUL
  <2>1. Len(t) + 1 \in 1 .. l + n /\ ~ (Len(t) + 1 <= l) /\ (Len(t) + 1) - l = m + 1
    BY <1>2, <1>3, <1>4
  <2> QED BY <1>1, <1>4, <2>1
<1>6. ASSUME NEW k \in 1 .. Len(t) PROVE s[k] = t[k]
  <2>1. k \in 1 .. l + m /\ k \in 1 .. l + n
    BY <1>2, <1>3, <1>4
  <2>2. CASE k <= l
    BY <1>1, <1>2, <2>1, <2>2
  <2>3. CASE ~ (k <= l)
    <3>1. k - l \in 1 .. m
      BY <1>3, <2>1, <2>3
    <3> QED BY <1>1, <1>2, <1>4, <2>1, <2>3, <3>1
  <2> QED BY <2>2, <2>3
<1>7. Len(t) < Len(s)
  BY <1>1, <1>2, <1>3, <1>4
<1> QED BY <1>5, <1>6, <1>7 DEF Continues, s, t

\* What is read of strings that strlen took for too long: the text up to the first of
\* them is as it should be, and then their end comes.
LEMMA Cuts ==
  ASSUME NEW E, NEW F, E \subseteq F, NEW n \in Nat, NEW T, NEW x, NEW y, NEW p, NEW q,
         \A k \in 1 .. n : x[k] \in Seq(F) /\ y[k] \in Seq(E),
         \A k \in 1 .. n : x[k] = y[k] \/ (k \in T /\ Continues(x[k], y[k])),
         Flattened(p, n, F, x), Flattened(q, n, E, y)
  PROVE  p[n] = q[n] \/ \E i \in 1 .. n : i \in T /\ Continues(p[n], q[i])
<1> DEFINE Same(k) == p[k] = q[k] \/ \E i \in 1 .. k : i \in T /\ Continues(p[k], q[i])
           S == {k \in Nat : k <= n => Same(k)}
<1>1. /\ p[0] = <<>> /\ \A k \in 1 .. n : p[k] = p[k - 1] \o x[k]
      /\ \A k \in 0 .. n : p[k] \in Seq(F)
  BY DEF Flattened
<1>2. /\ q[0] = <<>> /\ \A k \in 1 .. n : q[k] = q[k - 1] \o y[k]
      /\ \A k \in 0 .. n : q[k] \in Seq(F)
  <2>1. /\ q[0] = <<>> /\ \A k \in 1 .. n : q[k] = q[k - 1] \o y[k]
        /\ \A k \in 0 .. n : q[k] \in Seq(E)
    BY DEF Flattened
  <2>2. \A s \in Seq(E) : s \in Seq(F)
    BY SeqMonotonic
  <2> QED BY <2>1, <2>2
<1>3. 0 \in S
  BY <1>1, <1>2
<1>4. ASSUME NEW k \in Nat, k \in S PROVE k + 1 \in S
  <2> SUFFICES ASSUME k + 1 <= n PROVE Same(k + 1)
    OBVIOUS
  <2>1. k + 1 \in 1 .. n /\ (k + 1) - 1 = k /\ k \in 0 .. n /\ Same(k)
    BY <1>4
  <2> DEFINE a == p[k]
             u == x[k + 1]
             v == y[k + 1]
  <2>2. p[k + 1] = a \o u /\ a \in Seq(F) /\ u \in Seq(F)
    BY <1>1, <2>1
  <2>3. q[k + 1] = q[k] \o v /\ v \in Seq(F)
    <3>1. v \in Seq(E)
      BY <2>1
    <3> QED BY <1>2, <2>1, <3>1, SeqMonotonic
  <2>4. u = v \/ (k + 1 \in T /\ Continues(u, v))
    BY <2>1
  <2>5. a = q[k] \/ \E i \in 1 .. k : i \in T /\ Continues(a, q[i])
    BY <2>1
  <2> HIDE DEF a, u, v
  <2>6. CASE a = q[k] /\ u = v
    BY <2>2, <2>3, <2>6
  <2>7. CASE a = q[k] /\ k + 1 \in T /\ Continues(u, v)
    <3>1. Continues(a \o u, a \o v)
      BY <2>2, <2>3, <2>7, ContinuesBehind
    <3>2. Continues(p[k + 1], q[k + 1])
      BY <2>2, <2>3, <2>7, <3>1
    <3>3. k + 1 \in 1 .. k + 1
      OBVIOUS
    <3> QED BY <2>7, <3>2, <3>3
  <2>8. ASSUME NEW i \in 1 .. k, i \in T, Continues(a, q[i]) PROVE Same(k + 1)
    <3>1. i \in 0 .. n /\ i \in 1 .. k + 1
      BY <2>1
    <3>2. q[i] \in Seq(F)
      BY <1>2, <3>1
    <3>3. Continues(a \o u, q[i])
      BY <2>2, <2>8, <3>2, ContinuesMore
    <3> QED BY <2>2, <2>8, <3>1, <3>3
  <2> QED BY <2>4, <2>5, <2>6, <2>7, <2>8
<1>5. n \in S
  <2> HIDE DEF S
  <2> QED BY <1>3, <1>4, Induction
<1> QED BY <1>5

Begins(s, t) == Len(s) <= Len(t) /\ \A j \in 1 .. Len(s) : t[j] = s[j]

LEMMA Partial ==
  ASSUME NEW E, NEW n \in Nat, NEW x, NEW h, \A k \in 1 .. n : x[k] \in Seq(E),
         Flattened(h, n, E, x), NEW i \in 0 .. n
  PROVE  Begins(h[i], h[n])
<1> DEFINE S == {k \in Nat : i + k <= n => Begins(h[i], h[i + k])}
<1>1. /\ \A k \in 1 .. n : h[k] = h[k - 1] \o x[k]
      /\ \A k \in 0 .. n : h[k] \in Seq(E)
  BY DEF Flattened
<1>2. 0 \in S
  <2>1. i + 0 = i /\ Len(h[i]) \in Nat
    BY <1>1
  <2> QED BY <2>1 DEF Begins
<1>3. ASSUME NEW k \in Nat, k \in S PROVE k + 1 \in S
  <2> SUFFICES ASSUME i + (k + 1) <= n PROVE Begins(h[i], h[i + (k + 1)])
    OBVIOUS
  <2>1. i + (k + 1) \in 1 .. n /\ (i + (k + 1)) - 1 = i + k /\ i + k \in 0 .. n
        /\ Begins(h[i], h[i + k])
    BY <1>3
  <2> DEFINE a == h[i]
             b == h[i + k]
             c == x[i + (k + 1)]
             s == b \o c
  <2>2. a \in Seq(E) /\ b \in Seq(E) /\ c \in Seq(E)
    BY <1>1, <2>1
  <2>3. h[i + (k + 1)] = s
    BY <1>1, <2>1
  <2>4. Begins(a, b)
    BY <2>1
  <2> HIDE DEF a, b, c
  <2>5. /\ Len(s) = Len(b) + Len(c)
        /\ \A j \in 1 .. Len(b) + Len(c) : s[j] = IF j <= Len(b) THEN b[j] ELSE c[j - Len(b)]
    BY <2>2, ConcatProperties
  <2> HIDE DEF s
  <2>6. Len(a) \in Nat /\ Len(b) \in Nat /\ Len(c) \in Nat
    BY <2>2
  <2>7. Len(a) <= Len(b) /\ \A j \in 1 .. Len(a) : b[j] = a[j]
    BY <2>4 DEF Begins
  <2>8. \A j \in 1 .. Len(a) : s[j] = a[j]
    BY <2>5, <2>6, <2>7
  <2>9. Begins(a, s)
    BY <2>5, <2>6, <2>7, <2>8 DEF Begins
  <2> QED BY <2>3, <2>9 DEF a
<1>4. n - i \in S
  <2>1. n - i \in Nat
    OBVIOUS
  <2> HIDE DEF S
  <2> QED BY <1>2, <1>3, <2>1, Induction
<1>5. i + (n - i) = n
  OBVIOUS
<1> QED BY <1>4, <1>5

\* Each string with the length it is printed with, if it is not too long.
Reading(fmt, lens) == [i \in Strings(fmt) |-> Taken(fmt[i], lens[i])]

\* The text that the items up to the i-th ask for.
AsFar(fmt, i, lens) == Formatted(SubSeq(fmt, 1, i), lens)

\* A text is as its format asks for, or it is at first, and has an end behind a string.
Texts(fmt, lens, t, F) ==
  /\ t \in Seq(F) /\ Formatted(fmt, lens) \in Seq(F \ {NUL})
  /\ \/ t = Formatted(fmt, lens)
     \/ \E i \in Strings(fmt) : /\ lens[i] \notin Lost
                                /\ AsFar(fmt, i, lens) \in Seq(F \ {NUL})
                                /\ Begins(AsFar(fmt, i, lens), Formatted(fmt, lens))
                                /\ Continues(t, AsFar(fmt, i, lens))

LEMMA ReadingType ==
  ASSUME NEW fmt \in Formats \union Numerals, NEW lens \in Lengths(fmt)
  PROVE  Reading(fmt, lens) \in Readings(fmt)
<1> DEFINE r == Reading(fmt, lens)
<1>1. ASSUME NEW i \in Strings(fmt)
      PROVE  /\ r[i] \in Strlens(fmt[i].arg)
             /\ r[i] \in {TrueStrlen(fmt[i].arg)} \union Lost
  <2> DEFINE d == fmt[i]
  <2>1. Proper(d) /\ IsString(d)
    BY PrintmAssumption DEF Strings
  <2>2. lens[i] \in Nuls(d.arg) \union Lost
    BY DEF Lengths, Strlens
  <2>3. TrueStrlen(d.arg) \in Nuls(d.arg)
    BY <2>1, TrueFacts
  <2>4. r[i] = Taken(d, lens[i])
    BY DEF Reading
  <2> QED BY <2>2, <2>3, <2>4 DEF Taken, Strlens
<1>2. r = [i \in Strings(fmt) |-> r[i]]
  BY DEF Reading
<1> HIDE DEF r
<1>3. r \in [Strings(fmt) -> UNION {Strlens(fmt[i].arg) : i \in Strings(fmt)}]
  BY <1>1, <1>2
<1> QED BY <1>1, <1>3 DEF Lengths, Readings, r

LEMMA FormattedFacts ==
  ASSUME NEW fmt \in Formats \union Numerals, NEW lens \in Lengths(fmt)
  PROVE  \E F : STRING \subseteq F /\ Texts(fmt, Reading(fmt, lens), Formatted(fmt, lens), F)
<1> DEFINE n == Len(fmt)
           F == {NUL} \union STRING \union Glyphs \union {PerCent}
                  \union {fmt[i].arg : i \in DOMAIN fmt}
           E == F \ {NUL}
           x == [i \in 1 .. n |-> Item(fmt[i], lens[i])]
           r == Reading(fmt, lens)
           y == [i \in 1 .. n |-> Item(fmt[i], r[i])]
           T == {i \in Strings(fmt) : r[i] \notin Lost}
<1>1. /\ DOMAIN fmt = 1 .. n /\ n \in Nat
      /\ fmt \in Seq({fmt[i] : i \in DOMAIN fmt})
      /\ \A i \in DOMAIN fmt : Proper(fmt[i]) /\ (IsString(fmt[i]) => fmt[i].width = Unset)
  <2>1. fmt \in Seq({fmt[i] : i \in DOMAIN fmt})
    BY PrintmAssumption
  <2>2. DOMAIN fmt = 1 .. n /\ n \in Nat
    BY <2>1
  <2> QED BY <2>1, <2>2, PrintmAssumption
<1> HIDE DEF n
<1>2. ASSUME NEW i \in 1 .. n
      PROVE  /\ x[i] \in Seq(F) /\ y[i] \in Seq(E)
             /\ x[i] = y[i] \/ (i \in T /\ Continues(x[i], y[i]))
  <2> DEFINE d == fmt[i]
  <2>1. Proper(d) /\ i \in DOMAIN fmt /\ (IsString(d) => d.width = Unset)
    BY <1>1
  <2>2. Letters(d) \subseteq F
    BY <2>1 DEF Letters
  <2>3. Letters(d) \ {NUL} \subseteq E /\ Letters(d) \union {NUL} \subseteq F /\ E \subseteq F
    BY <2>2
  <2> HIDE DEF F, E
  <2>4. CASE ~IsString(d)
    <3>1. \A k : Item(d, k) = Item(d, 0)
      BY <2>4 DEF Item, IsString, String
    <3>2. x[i] = Item(d, 0) /\ y[i] = Item(d, 0)
      <4>1. x[i] = Item(d, lens[i]) /\ y[i] = Item(d, r[i])
        OBVIOUS
      <4> HIDE DEF x, y, r, d
      <4> QED BY <3>1, <4>1
    <3>3. Item(d, 0) \in Seq(Letters(d) \ {NUL})
      BY <2>1, <2>4, ItemPlain
    <3>4. Item(d, 0) \in Seq(E)
      BY <2>3, <3>3, SeqMonotonic
    <3>5. Item(d, 0) \in Seq(F)
      BY <2>3, <3>4, SeqMonotonic
    <3> QED BY <3>2, <3>4, <3>5
  <2>5. CASE IsString(d)
    <3>1. i \in Strings(fmt)
      BY <2>1, <2>5 DEF Strings
    <3>2. lens[i] \in Strlens(d.arg) /\ r[i] = Taken(d, lens[i])
      BY <3>1 DEF Lengths, Reading
    <3>3. d.width = Unset
      BY <2>1, <2>5
    <3> DEFINE len == lens[i]
               u == Item(d, len)
               v == Item(d, Taken(d, len))
    <3>4. len \in Strlens(d.arg) /\ r[i] = Taken(d, len)
      BY <3>2
    <3>5. x[i] = u /\ y[i] = v
      BY <3>2
    <3> HIDE DEF len, d, x, y, r
    <3>6. /\ u \in Seq(Letters(d) \union {NUL}) /\ v \in Seq(Letters(d) \ {NUL})
          /\ u = v \/ (Taken(d, len) \notin Lost /\ Continues(u, v))
      BY <2>1, <2>5, <3>3, <3>4, ItemString
    <3> HIDE DEF u, v
    <3>7. u \in Seq(F)
      BY <2>3, <3>6, SeqMonotonic
    <3>8. v \in Seq(E)
      BY <2>3, <3>6, SeqMonotonic
    <3>9. Taken(d, len) \notin Lost => i \in T
      BY <3>1, <3>4
    <3> HIDE DEF T
    <3> QED BY <3>5, <3>6, <3>7, <3>8, <3>9
  <2> QED BY <2>4, <2>5
<1>3. Formatted(fmt, lens) = FlattenSeq([i \in 1 .. n |-> x[i]])
  <2>1. [i \in DOMAIN fmt |-> Item(fmt[i], lens[i])] = [i \in 1 .. n |-> x[i]]
    BY <1>1
  <2> QED BY <2>1 DEF Formatted
<1>4. Formatted(fmt, r) = FlattenSeq([i \in 1 .. n |-> y[i]])
  <2> HIDE DEF r
  <2>1. [i \in DOMAIN fmt |-> Item(fmt[i], r[i])] = [i \in 1 .. n |-> y[i]]
    BY <1>1
  <2> QED BY <2>1 DEF Formatted
<1>5. ASSUME NEW k \in 1 .. n PROVE AsFar(fmt, k, r) = FlattenSeq([i \in 1 .. k |-> y[i]])
  <2> DEFINE s == SubSeq(fmt, 1, k)
             G == {fmt[i] : i \in DOMAIN fmt}
  <2>1. k \in Nat /\ \A i \in 1 .. k : fmt[i] \in G /\ i \in 1 .. n
    BY <1>1
  <2> HIDE DEF G, r
  <2>2. s \in Seq(G) /\ Len(s) = k /\ \A i \in 1 .. k : s[i] = fmt[i]
    BY <2>1, Initial
  <2> HIDE DEF s
  <2>3. DOMAIN s = 1 .. k
    BY <2>1, <2>2
  <2>4. \A i \in 1 .. k : Item(s[i], r[i]) = y[i]
    BY <2>1, <2>2
  <2> HIDE DEF y
  <2>5. [i \in DOMAIN s |-> Item(s[i], r[i])] = [i \in 1 .. k |-> y[i]]
    BY <2>3, <2>4
  <2>6. AsFar(fmt, k, r) = FlattenSeq([i \in DOMAIN s |-> Item(s[i], r[i])])
    BY DEF AsFar, Formatted, s
  <2> QED BY <2>5, <2>6
<1>6. STRING \subseteq F /\ E \subseteq F
  OBVIOUS
<1> HIDE DEF x, y, r
<1>7. PICK p : Flattened(p, n, F, x)
  <2> HIDE DEF F
  <2> QED BY <1>1, <1>2, Flattens
<1>8. PICK q : Flattened(q, n, E, y)
  <2> HIDE DEF E
  <2> QED BY <1>1, <1>2, Flattens
<1>9. p[n] = Formatted(fmt, lens) /\ p[n] \in Seq(F)
  <2>1. n \in 0 .. n
    BY <1>1
  <2> HIDE DEF F
  <2> QED BY <1>3, <1>7, <2>1 DEF Flattened
<1>10. q[n] = Formatted(fmt, r) /\ \A k \in 1 .. n : q[k] = AsFar(fmt, k, r) /\ q[k] \in Seq(E)
  <2>1. n \in 0 .. n /\ \A k \in 1 .. n : k \in 0 .. n
    BY <1>1
  <2> HIDE DEF E
  <2> QED BY <1>4, <1>5, <1>8, <2>1 DEF Flattened
<1>11. q[n] \in Seq(E)
  <2>1. n \in 0 .. n
    BY <1>1
  <2> HIDE DEF E
  <2> QED BY <1>8, <2>1 DEF Flattened
<1>12. p[n] = q[n] \/ \E i \in 1 .. n : i \in T /\ Continues(p[n], q[i])
  <2> HIDE DEF E, F, T
  <2> QED BY <1>1, <1>2, <1>6, <1>7, <1>8, Cuts
<1>13. \A i \in 1 .. n : Begins(q[i], q[n])
  <2>1. \A i \in 1 .. n : i \in 0 .. n
    OBVIOUS
  <2> HIDE DEF E
  <2> QED BY <1>1, <1>2, <1>8, <2>1, Partial
<1>14. Texts(fmt, r, Formatted(fmt, lens), F)
  <2>1. CASE p[n] = q[n]
    <3> HIDE DEF F
    <3> QED BY <1>9, <1>10, <1>11, <2>1 DEF Texts, E
  <2>2. ASSUME NEW i \in 1 .. n, i \in T, Continues(p[n], q[i])
        PROVE  Texts(fmt, r, Formatted(fmt, lens), F)
    <3>1. i \in Strings(fmt) /\ r[i] \notin Lost
      BY <2>2
    <3> HIDE DEF F, T
    <3> QED BY <1>9, <1>10, <1>11, <1>13, <2>2, <3>1 DEF Texts, E
  <2> HIDE DEF F, E, T
  <2> QED BY <1>12, <2>1, <2>2
<1> HIDE DEF F
<1> QED BY <1>6, <1>14 DEF r

-----------------------------------------------------------------------------
(***************************************************************************)
(* Faithful.                                                               *)
(***************************************************************************)
Clean(whole) == {k \in 0 .. Len(whole) : \A j \in 1 .. k : whole[j] # "%"}

\* The text is right until a percent sign in it.
Broken(whole, out) ==
  \E k \in Clean(whole) : /\ k < Len(whole) /\ whole[k + 1] = "%"
                          /\ IsPrefix(SubSeq(whole, 1, k), out)

Read(whole, k, out) == k \in Clean(whole) /\ out = SubSeq(whole, 1, k)

\* What console_write makes of a buffer that holds the first e characters of w: behind the
\* header, all of them, or those before a percent sign.
LEMMA LineCut ==
  ASSUME NEW F, NEW H \in Seq(F), \A i \in 1 .. Len(H) : H[i] # "%",
         NEW w \in Seq(F), \A i \in 1 .. Len(w) : w[i] # NUL,
         NEW R, NEW b \in Seq(R), NEW g \in Garbage,
         NEW e \in 0 .. Len(w), e < Len(b),
         \A j \in 1 .. e : b[j] = w[j], b[e + 1] = NUL
  PROVE  \/ Read(H \o w, Len(H) + e, H \o Written(b, g).out)
         \/ Broken(H \o w, H \o Written(b, g).out)
<1> DEFINE t == H \o w
           h == Len(H)
           l == Len(w)
           out == Written(b, g).out
<1>1. /\ t \in Seq(F) /\ Len(t) = h + l
      /\ \A i \in 1 .. h + l : t[i] = IF i <= h THEN H[i] ELSE w[i - h]
  BY ConcatProperties
<1>2. h \in Nat /\ l \in Nat /\ Len(b) \in Nat /\ e \in Nat
  OBVIOUS
<1> HIDE DEF t, h, l
<1>3. /\ \A i \in 1 .. h : t[i] = H[i] /\ H[i] # "%"
      /\ \A i \in 1 .. l : t[h + i] = w[i]
  <2>1. \A i \in 1 .. h : t[i] = H[i]
    BY <1>1, <1>2
  <2>2. ASSUME NEW i \in 1 .. l PROVE t[h + i] = w[i]
    <3>1. h + i \in 1 .. h + l /\ ~ (h + i <= h) /\ (h + i) - h = i
      BY <1>2
    <3> QED BY <1>1, <3>1
  <2> QED BY <2>1, <2>2 DEF h
<1>4. \A i \in 1 .. h + l : t[i] \in F
  BY <1>1
<1>5. ASSUME NEW m \in 0 .. l, \A j \in 1 .. m : w[j] # "%" PROVE h + m \in Clean(t)
  <2>1. h + m \in 0 .. Len(t)
    BY <1>1, <1>2
  <2>2. ASSUME NEW j \in 1 .. h + m PROVE t[j] # "%"
    <3>1. CASE j <= h
      <4>1. j \in 1 .. h
        BY <3>1
      <4> QED BY <1>3, <4>1
    <3>2. CASE ~ (j <= h)
      <4>1. j - h \in 1 .. m /\ j - h \in 1 .. l /\ h + (j - h) = j
        BY <1>2, <3>2
      <4> QED BY <1>3, <1>5, <4>1
    <3> QED BY <3>1, <3>2
  <2> QED BY <2>1, <2>2 DEF Clean
<1>6. CASE \A j \in 1 .. e : w[j] # "%"
  <2>1. h + e \in Clean(t)
    BY <1>5, <1>6 DEF l
  <2>2. out = SubSeq(b, 1, e)
    <3>1. e \in 0 .. Len(b) - 1
      BY <1>2
    <3>2. \A i \in 1 .. e : b[i] # "%" /\ b[i] # NUL
      <4>1. \A i \in 1 .. e : i \in 1 .. Len(w)
        OBVIOUS
      <4> QED BY <1>6, <4>1
    <3> QED BY <3>1, <3>2, WrittenPlain
  <2> DEFINE s == SubSeq(b, 1, e)
             u == SubSeq(t, 1, h + e)
  <2>3. s \in Seq(F) /\ Len(s) = e /\ \A i \in 1 .. e : s[i] = w[i]
    <3>1. \A i \in 1 .. e : b[i] \in F
      OBVIOUS
    <3>2. s \in Seq(F) /\ Len(s) = e /\ \A i \in 1 .. e : s[i] = b[i]
      BY <1>2, <3>1, Initial
    <3> QED BY <3>2
  <2>4. u \in Seq(F) /\ Len(u) = h + e /\ \A i \in 1 .. h + e : u[i] = t[i]
    <3> DEFINE k == h + e
    <3>1. k \in Nat /\ \A i \in 1 .. k : t[i] \in F
      BY <1>2, <1>4 DEF l
    <3> HIDE DEF k
    <3>2. /\ SubSeq(t, 1, k) \in Seq(F) /\ Len(SubSeq(t, 1, k)) = k
          /\ \A i \in 1 .. k : SubSeq(t, 1, k)[i] = t[i]
      BY <3>1, Initial
    <3> QED BY <3>2 DEF k
  <2> HIDE DEF s, u
  <2> DEFINE v == H \o s
  <2>5. /\ v \in Seq(F) /\ Len(v) = h + e
        /\ \A i \in 1 .. h + e : v[i] = IF i <= h THEN H[i] ELSE s[i - h]
    BY <2>3, ConcatProperties, ZenonT(30) DEF h
  <2> HIDE DEF v
  <2>6. ASSUME NEW i \in 1 .. h + e PROVE v[i] = u[i]
    <3>1. CASE i <= h
      <4>1. i \in 1 .. h
        BY <3>1
      <4> QED BY <1>3, <2>4, <2>5, <3>1, <4>1
    <3>2. CASE ~ (i <= h)
      <4>1. i - h \in 1 .. e /\ h + (i - h) = i /\ i - h \in 1 .. l
        BY <1>2, <3>2 DEF l
      <4> QED BY <1>3, <2>3, <2>4, <2>5, <3>2, <4>1
    <3> QED BY <3>1, <3>2
  <2>7. v = u
    BY <2>4, <2>5, <2>6, SeqEqual
  <2>8. H \o out = u
    BY <2>2, <2>7 DEF v, s
  <2> QED BY <2>1, <2>8 DEF Read, u, t, h
<1>7. CASE \E j \in 1 .. e : w[j] = "%"
  <2> DEFINE J == {j \in 1 .. e : w[j] = "%"}
  <2>0. J \subseteq Nat
    BY <1>2
  <2>1. J \subseteq Nat /\ J # {}
    BY <1>7, <2>0
  <2>2. PICK c \in J : \A j \in J : c <= j
    <3> HIDE DEF J
    <3> QED BY <2>1, Smallest
  <2> DEFINE m == c - 1
  <2>3. m \in 0 .. e /\ m \in 0 .. l /\ m + 1 = c /\ m < e
    BY <1>2 DEF l
  <2>4. w[m + 1] = "%" /\ \A j \in 1 .. m : w[j] # "%"
    <3>1. \A j \in 1 .. m : j \in 1 .. e /\ ~ (c <= j)
      BY <2>3
    <3> QED BY <2>2, <2>3, <3>1
  <2> HIDE DEF m, J
  <2>5. h + m \in Clean(t)
    BY <1>5, <2>3, <2>4
  <2>6. h + m < Len(t) /\ t[(h + m) + 1] = "%"
    <3>1. h + m < Len(t)
      BY <1>1, <1>2, <2>3 DEF l
    <3>2. m + 1 \in 1 .. l /\ h + (m + 1) = (h + m) + 1
      BY <1>2, <2>3 DEF l
    <3>3. t[h + (m + 1)] = w[m + 1]
      BY <1>3, <3>2
    <3> QED BY <2>4, <3>1, <3>2, <3>3
  <2>7. \E u \in Seq(Chars(R)) : out = SubSeq(b, 1, m) \o u
    <3>1. m \in 0 .. Len(b)
      BY <1>2, <2>3
    <3>2. \A i \in 1 .. m : b[i] # "%" /\ b[i] # NUL
      <4>1. \A i \in 1 .. m : i \in 1 .. Len(w) /\ i \in 1 .. e
        BY <2>3
      <4> QED BY <2>4, <4>1
    <3>3. Walk(b, g)[m] = Plain(SubSeq(b, 1, m))
      BY <3>1, <3>2, WalkPlain
    <3> DEFINE r == Walk(b, g)[m]
               a == SubSeq(b, 1, m)
    <3>4. \E u \in Seq(Chars(R)) : out = r.out \o u
      BY <3>1, WalkGrows
    <3> HIDE DEF r, a, out
    <3>5. r = Plain(a)
      BY <3>3 DEF r, a
    <3>6. r.out = a
      BY <3>5 DEF Plain
    <3> QED BY <3>4, <3>6 DEF a
  <2>8. PICK u \in Seq(Chars(R)) : out = SubSeq(b, 1, m) \o u
    BY <2>7
  <2> DEFINE G == F \union Chars(R)
             s == SubSeq(b, 1, m)
             k == h + m
             o == H \o out
  <2>9. F \subseteq G /\ Chars(R) \subseteq G
    OBVIOUS
  <2> HIDE DEF G, out
  <2>10. u \in Seq(G) /\ H \in Seq(G)
    BY <2>9, SeqMonotonic
  <2>11. s \in Seq(G) /\ Len(s) = m /\ \A i \in 1 .. m : s[i] = w[i]
    <3>1. \A i \in 1 .. m : b[i] \in G /\ b[i] = w[i]
      <4>1. \A i \in 1 .. m : i \in 1 .. Len(w) /\ i \in 1 .. e
        BY <2>3
      <4>2. \A i \in 1 .. m : w[i] \in F
        BY <4>1
      <4> QED BY <2>9, <4>1, <4>2
    <3>2. m \in Nat
      BY <2>3
    <3>3. s \in Seq(G) /\ Len(s) = m /\ \A i \in 1 .. m : s[i] = b[i]
      BY <3>1, <3>2, Initial
    <3> QED BY <3>1, <3>3
  <2> HIDE DEF s
  <2>12. out = s \o u
    BY <2>8 DEF s
  <2>13. /\ out \in Seq(G) /\ Len(out) = m + Len(u)
         /\ \A i \in 1 .. m + Len(u) : out[i] = IF i <= m THEN s[i] ELSE u[i - m]
    BY <2>10, <2>11, <2>12, ConcatProperties
  <2>14. /\ o \in Seq(G) /\ Len(o) = h + Len(out)
         /\ \A i \in 1 .. h + Len(out) : o[i] = IF i <= h THEN H[i] ELSE out[i - h]
    BY <2>10, <2>13, ConcatProperties, ZenonT(30) DEF h
  <2> HIDE DEF o
  <2>15. Len(u) \in Nat /\ k \in Nat /\ k <= Len(o) /\ k <= h + l
    BY <1>2, <2>3, <2>10, <2>13, <2>14
  <2>16. ASSUME NEW i \in 1 .. k PROVE o[i] = t[i] /\ i \in 1 .. h + l /\ i \in 1 .. h + Len(out)
    <3>1. i \in 1 .. h + l /\ i \in 1 .. h + Len(out) /\ Len(out) = m + Len(u)
      BY <1>2, <2>3, <2>13, <2>14, <2>15
    <3>2. CASE i <= h
      <4>1. i \in 1 .. h
        BY <3>2
      <4> QED BY <1>3, <2>14, <3>1, <3>2, <4>1
    <3>3. CASE ~ (i <= h)
      <4>1. i - h \in 1 .. m /\ i - h \in 1 .. m + Len(u) /\ i - h \in 1 .. l
            /\ h + (i - h) = i /\ i - h <= m
        BY <1>2, <2>3, <2>15, <3>3
      <4>2. o[i] = out[i - h] /\ out[i - h] = s[i - h] /\ s[i - h] = w[i - h]
        BY <2>11, <2>13, <2>14, <3>1, <3>3, <4>1
      <4>3. t[h + (i - h)] = w[i - h]
        BY <1>3, <4>1
      <4> QED BY <3>1, <4>1, <4>2, <4>3
    <3> QED BY <3>2, <3>3
  <2> DEFINE x == SubSeq(t, 1, k)
             y == SubSeq(o, 1, k)
  <2> HIDE DEF k
  <2>17. x \in Seq(G) /\ Len(x) = k /\ \A i \in 1 .. k : x[i] = t[i]
    <3>1. \A i \in 1 .. k : t[i] \in G
      BY <1>4, <2>9, <2>16
    <3> QED BY <2>15, <3>1, Initial
  <2>18. y \in Seq(G) /\ Len(y) = k /\ \A i \in 1 .. k : y[i] = o[i]
    <3>1. \A i \in 1 .. k : o[i] \in G
      BY <2>14, <2>16
    <3> QED BY <2>15, <3>1, Initial
  <2> HIDE DEF x, y
  <2>19. x = y
    <3>1. Len(x) = Len(y) /\ \A i \in 1 .. Len(x) : x[i] = y[i]
      BY <2>16, <2>17, <2>18
    <3> QED BY <2>17, <2>18, <3>1, SeqEqual
  <2>20. SubSeq(x, 1, k) = x
    <3> DEFINE z == SubSeq(x, 1, k)
    <3>1. z \in Seq(G) /\ Len(z) = k /\ \A i \in 1 .. k : z[i] = x[i]
      <4>1. \A i \in 1 .. k : x[i] \in G
        BY <2>17
      <4> QED BY <2>15, <4>1, Initial
    <3> HIDE DEF z
    <3>2. z = x
      BY <2>17, <3>1, SeqEqual
    <3> QED BY <3>2 DEF z
  <2>21. IsPrefix(x, o)
    BY <2>15, <2>17, <2>19, <2>20 DEF IsPrefix, y
  <2>22. Broken(t, o)
    BY <2>5, <2>6, <2>21 DEF Broken, x, k
  <2> QED BY <2>22 DEF t, o, out
<1> QED BY <1>6, <1>7

Ends(fmt, header, lens) ==
  {Len(header) + Len(AsFar(fmt, i, lens)) : i \in {j \in Strings(fmt) : lens[j] \notin Lost}}

Right(fmt, header, out, lens) ==
  \/ out = header \o Formatted(fmt, lens)
  \/ \E k \in Ends(fmt, header, lens) : Read(header \o Formatted(fmt, lens), k, out)
  \/ Broken(header \o Formatted(fmt, lens), out)

LEMMA FaithfulIsRight ==
  Faithful <=> \E lens \in Readings(call.fmt) : Right(call.fmt, call.header, call.out, lens)
BY DEF Faithful, Right, Ends, Read, Broken, Clean, AsFar

LEMMA SubSeqAll ==
  ASSUME NEW E, NEW s \in Seq(E)
  PROVE  SubSeq(s, 1, Len(s)) = s
<1> DEFINE k == Len(s)
<1>1. k \in Nat /\ \A i \in 1 .. k : s[i] \in E
  OBVIOUS
<1> HIDE DEF k
<1>2. /\ SubSeq(s, 1, k) \in Seq(E) /\ Len(SubSeq(s, 1, k)) = k
      /\ \A i \in 1 .. k : SubSeq(s, 1, k)[i] = s[i]
  BY <1>1, Initial
<1> DEFINE u == SubSeq(s, 1, k)
<1> HIDE DEF u
<1>3. u = s
  <2>1. Len(u) = Len(s) /\ \A i \in 1 .. Len(u) : u[i] = s[i] /\ u \in Seq(E)
    BY <1>2 DEF u, k
  <2>2. u \in Seq(E)
    BY <1>2 DEF u
  <2> QED BY <2>1, <2>2, SeqEqual
<1> QED BY <1>3 DEF u, k

LEMMA LineRight ==
  ASSUME NEW fmt \in Formats \union Numerals, NEW lens \in Lengths(fmt), NEW g \in Garbage,
         Len(Formatted(fmt, lens)) < BufSize
  PROVE  Right(fmt, LineHead, LineHead \o Written(Stored(Formatted(fmt, lens)), g).out,
               Reading(fmt, lens))
<1> DEFINE t == Formatted(fmt, lens)
           b == Stored(t)
           r == Reading(fmt, lens)
           w == Formatted(fmt, r)
           H == LineHead
           out == Written(b, g).out
<1>1. PICK F : STRING \subseteq F /\ Texts(fmt, r, t, F)
  BY FormattedFacts
<1> HIDE DEF t, r
<1>2. t \in Seq(F) /\ w \in Seq(F \ {NUL})
  BY <1>1 DEF Texts
<1> HIDE DEF w
<1>3. w \in Seq(F) /\ \A i \in 1 .. Len(w) : w[i] # NUL
  <2>1. F \ {NUL} \subseteq F
    OBVIOUS
  <2>2. w \in Seq(F)
    BY <1>2, <2>1, SeqMonotonic
  <2>3. \A i \in 1 .. Len(w) : w[i] \in F \ {NUL}
    BY <1>2
  <2> QED BY <2>2, <2>3
<1>4. H \in Seq(F) /\ \A i \in 1 .. Len(H) : H[i] # "%"
  <2>1. CASE dis_hdr
    <3>1. H = <<>>
      BY <2>1 DEF LineHead
    <3> HIDE DEF H
    <3> QED BY <3>1
  <2>2. CASE ~dis_hdr
    <3>1. H = Header
      BY <2>2 DEF LineHead
    <3>2. Header \in Seq(STRING) /\ \A i \in DOMAIN Header : Header[i] # "%"
      BY PrintmAssumption
    <3>3. Header \in Seq(F)
      BY <1>1, <3>2, SeqMonotonic
    <3>4. \A i \in 1 .. Len(Header) : i \in DOMAIN Header
      BY <3>2
    <3> HIDE DEF H
    <3> QED BY <3>1, <3>2, <3>3, <3>4
  <2> QED BY <2>1, <2>2
<1>5. Len(t) \in Nat /\ BufSize \in Nat /\ Len(t) < BufSize
  BY <1>2, PrintmAssumption DEF t
<1>6. PICK R : /\ b \in Seq(R) /\ Len(b) = BufSize /\ b[Len(t) + 1] = NUL
               /\ \A i \in 1 .. Len(t) : b[i] = t[i]
  BY <1>2, <1>5, StoredFacts
<1> HIDE DEF b, H
<1>7. ASSUME t = w PROVE Right(fmt, H, H \o out, r)
  <2> DEFINE e == Len(w)
  <2>1. e \in 0 .. Len(w) /\ e < Len(b) /\ (\A j \in 1 .. e : b[j] = w[j]) /\ b[e + 1] = NUL
    BY <1>5, <1>6, <1>7
  <2>2. Read(H \o w, Len(H) + e, H \o out) \/ Broken(H \o w, H \o out)
    <3> HIDE DEF e
    <3> QED BY <1>3, <1>4, <1>6, <2>1, LineCut
  <2>3. Len(H) + e = Len(H \o w) /\ SubSeq(H \o w, 1, Len(H \o w)) = H \o w
    <3>1. H \o w \in Seq(F) /\ Len(H \o w) = Len(H) + Len(w)
      BY <1>3, <1>4, ConcatProperties
    <3> QED BY <3>1, SubSeqAll
  <2> HIDE DEF e, out
  <2>4. H \o out = H \o w \/ Broken(H \o w, H \o out)
    BY <2>2, <2>3 DEF Read
  <2> QED BY <2>4 DEF Right, w
<1>8. ASSUME NEW i \in Strings(fmt), r[i] \notin Lost, AsFar(fmt, i, r) \in Seq(F \ {NUL}),
             Begins(AsFar(fmt, i, r), w), Continues(t, AsFar(fmt, i, r))
      PROVE  Right(fmt, H, H \o out, r)
  <2> DEFINE v == AsFar(fmt, i, r)
             e == Len(v)
  <2> HIDE DEF v
  <2>1. /\ e \in Nat /\ e <= Len(w) /\ (\A j \in 1 .. e : w[j] = v[j])
        /\ e < Len(t) /\ t[e + 1] = NUL /\ \A j \in 1 .. e : t[j] = v[j]
    <3>1. v \in Seq(F \ {NUL}) /\ Begins(v, w) /\ Continues(t, v)
      BY <1>8 DEF v
    <3> QED BY <3>1 DEF Begins, Continues
  <2> HIDE DEF e
  <2>2. e \in 0 .. Len(w) /\ e < Len(b)
    BY <1>3, <1>5, <1>6, <2>1
  <2>3. b[e + 1] = NUL /\ \A j \in 1 .. e : b[j] = w[j]
    <3>1. e + 1 \in 1 .. Len(t) /\ \A j \in 1 .. e : j \in 1 .. Len(t)
      BY <1>5, <2>1
    <3> QED BY <1>6, <2>1, <3>1
  <2>4. Read(H \o w, Len(H) + e, H \o out) \/ Broken(H \o w, H \o out)
    BY <1>3, <1>4, <1>6, <2>2, <2>3, LineCut
  <2>5. Len(H) + e \in Ends(fmt, H, r)
    BY <1>8 DEF Ends, e, v
  <2> QED BY <2>4, <2>5 DEF Right, w
<1>9. Right(fmt, H, H \o out, r)
  <2>1. \/ t = w
        \/ \E i \in Strings(fmt) :
              /\ r[i] \notin Lost /\ AsFar(fmt, i, r) \in Seq(F \ {NUL})
              /\ Begins(AsFar(fmt, i, r), w) /\ Continues(t, AsFar(fmt, i, r))
    BY <1>1 DEF Texts, w
  <2> DEFINE goal == Right(fmt, H, H \o out, r)
             Cut(i) == /\ r[i] \notin Lost /\ AsFar(fmt, i, r) \in Seq(F \ {NUL})
                       /\ Begins(AsFar(fmt, i, r), w) /\ Continues(t, AsFar(fmt, i, r))
  <2>2. \A i \in Strings(fmt) : Cut(i) => goal
    BY <1>8
  <2>3. t = w => goal
    BY <1>7
  <2>4. t = w \/ \E i \in Strings(fmt) : Cut(i)
    BY <2>1
  <2> HIDE DEF goal, Cut
  <2>5. goal
    BY <2>2, <2>3, <2>4
  <2> QED BY <2>5 DEF goal
<1> QED BY <1>9 DEF H, b, t, r

LEMMA SayFaithful ==
  ASSUME Faithful, NEW fmt \in Formats \union Numerals, Say(fmt)
  PROVE  Faithful'
<1>1. PICK lens \in Lengths(fmt), g \in Garbage :
        LET t == Formatted(fmt, lens)
        IN  IF Len(t) >= BufSize THEN Overrun /\ UNCHANGED buf
            ELSE /\ buf' = Stored(t)
                 /\ \/ Write(fmt, Written(Stored(t), g))
                    \/ PointerFault(Stored(t), g)
  BY DEF Say
<1> DEFINE t == Formatted(fmt, lens)
           w == Written(Stored(t), g)
<1>2. CASE Overrun \/ PointerFault(Stored(t), g)
  <2>1. UNCHANGED call
    BY <1>2 DEF Overrun, PointerFault
  <2> QED BY <2>1 DEF Faithful
<1>3. CASE ~(Len(t) >= BufSize) /\ Write(fmt, w) /\ w.done
  <2>1. call' = [fmt |-> fmt, header |-> LineHead, out |-> LineHead \o w.out]
    BY <1>3 DEF Write
  <2>2. Len(t) < BufSize
    <3>1. PICK F : t \in Seq(F)
      <4>1. \E F : STRING \subseteq F /\ Texts(fmt, Reading(fmt, lens), t, F)
        BY FormattedFacts
      <4> HIDE DEF t
      <4> QED BY <4>1 DEF Texts
    <3> HIDE DEF t
    <3> QED BY <1>3, <3>1, PrintmAssumption
  <2> DEFINE r == Reading(fmt, lens)
             Good(c) == \E l \in Readings(c.fmt) : Right(c.fmt, c.header, c.out, l)
  <2>3. r \in Readings(fmt) /\ Right(fmt, LineHead, LineHead \o w.out, r)
    BY <2>2, LineRight, ReadingType
  <2>4. Faithful' <=> Good(call')
    BY DEF Faithful, Right, Ends, Read, Broken, Clean, AsFar
  <2> HIDE DEF w, r
  <2>5. call'.fmt = fmt /\ call'.header = LineHead /\ call'.out = LineHead \o w.out
    BY <2>1
  <2>6. Good(call')
    BY <2>3, <2>5
  <2> QED BY <2>4, <2>6
<1>4. \/ Overrun \/ PointerFault(Stored(t), g)
      \/ ~(Len(t) >= BufSize) /\ Write(fmt, w) /\ w.done
  BY <1>1 DEF Write
<1> QED BY <1>2, <1>3, <1>4

\* A line is its header and the text its format asks for, in which strings may be lost; or
\* it is cut behind a string that strlen took for longer than it is, or at a percent sign
\* in its text (string.c:5, vsprintf.c:182, printm.c:16).
THEOREM FaithfulHolds == Spec => []Faithful
<1>1. Init => Faithful
  <2> SUFFICES ASSUME Init PROVE Faithful
    OBVIOUS
  <2>1. call = [fmt |-> <<>>, header |-> <<>>, out |-> <<>>]
    BY DEF Init, NoCall
  <2> DEFINE r == [i \in Strings(<<>>) |-> 0]
  <2>2. r \in Readings(<<>>)
    <3>1. Strings(<<>>) = {}
      <4>1. DOMAIN <<>> = 1 .. 0
        OBVIOUS
      <4> QED BY <4>1 DEF Strings
    <3>2. r \in [Strings(<<>>) -> UNION {Strlens(<<>>[i].arg) : i \in Strings(<<>>)}]
      BY <3>1
    <3> HIDE DEF r
    <3> QED BY <3>1, <3>2 DEF Readings, Lengths
  <2> HIDE DEF r
  <2>3. Formatted(<<>>, r) = <<>>
    <3>1. \E h : Flattened(h, 0, STRING, <<>>)
      <4>1. 0 \in Nat /\ \A k \in 1 .. 0 : <<>>[k] \in Seq(STRING)
        OBVIOUS
      <4> QED BY <4>1, Flattens
    <3> DEFINE G(i) == Item(<<>>[i], r[i])
    <3>2. [i \in DOMAIN <<>> |-> G(i)] = [i \in 1 .. 0 |-> <<>>[i]]
      <4>1. DOMAIN <<>> = 1 .. 0 /\ \A i \in 1 .. 0 : G(i) = <<>>[i]
        OBVIOUS
      <4> HIDE DEF G
      <4> QED BY <4>1
    <3>3. 0 \in 0 .. 0
      OBVIOUS
    <3> QED BY <3>1, <3>2, <3>3 DEF Flattened, Formatted
  <2>4. <<>> \o <<>> = <<>>
    OBVIOUS
  <2>5. Right(<<>>, <<>>, <<>>, r)
    BY <2>3, <2>4 DEF Right
  <2> QED BY <2>1, <2>2, <2>5, FaithfulIsRight
<1>2. Faithful /\ [Next]_vars => Faithful'
  <2> SUFFICES ASSUME Faithful, [Next]_vars PROVE Faithful'
    OBVIOUS
  <2>1. CASE Line
    BY <2>1, SayFaithful DEF Line
  <2>2. CASE Numeric
    BY <2>2, SayFaithful DEF Numeric
  <2>3. CASE UNCHANGED call
    BY <2>3 DEF Faithful
  <2>4. CASE StrlenFault \/ Echo \/ SwitchHeader \/ UNCHANGED vars
    BY <2>3, <2>4 DEF StrlenFault, Echo, SwitchHeader, vars
  <2> QED BY <2>1, <2>2, <2>4 DEF Next
<1> QED BY <1>1, <1>2, PTL DEF Spec
=============================================================================
