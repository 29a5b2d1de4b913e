---------------------------- MODULE TarfsProofs ----------------------------
(***************************************************************************)
(* Proofs about Tarfs, for every archive, block size and position: Walked  *)
(* and Listed.                                                             *)
(*                                                                         *)
(* Induction over the numbers is used in the form of sets: a set with 0    *)
(* that has n + 1 with every n is all of Nat.                              *)
(***************************************************************************)
EXTENDS Tarfs, WellFoundedInduction, TLAPS

LEMMA Smallest ==
  ASSUME NEW T, T \subseteq Nat, T # {}
  PROVE  \E n \in T : \A m \in T : n <= m
<1> DEFINE R == OpToRel(<, Nat)
<1>1. PICK n \in T : \A m \in T : ~ (<<m, n>> \in R)
  <2>1. IsWellFoundedOn(R, Nat)
    BY NatLessThanWellFounded
  <2> HIDE DEF R
  <2> QED BY <2>1, WFMin
<1>2. \A m, k \in Nat : m < k => <<m, k>> \in R
  BY DEF OpToRel
<1> HIDE DEF R
<1>3. \A m \in T : ~ (m < n)
  BY <1>1, <1>2
<1> QED BY <1>3

LEMMA Induction ==
  ASSUME NEW S, 0 \in S, \A n \in Nat : n \in S => n + 1 \in S
  PROVE  Nat \subseteq S
<1> SUFFICES ASSUME Nat \ S # {} PROVE FALSE
  OBVIOUS
<1>1. PICK n \in Nat \ S : \A m \in Nat \ S : n <= m
  BY Smallest
<1> QED BY <1>1

\* f begins with a, and g makes the next value of the last; as far as n, or for ever.
Follows(f, n, a, g) == f[0] = a /\ \A k \in 0 .. n - 1 : f[k + 1] = g[<<k, f[k]>>]

Recursive(f, a, g) == f[0] = a /\ \A n \in Nat : f[n + 1] = g[<<n, f[n]>>]

LEMMA Recursion ==
  ASSUME NEW D, NEW a \in D, NEW g \in [Nat \X D -> D]
  PROVE  \E f \in [Nat -> D] : Recursive(f, a, g)
<1> DEFINE H(n) == {h \in [0 .. n -> D] : Follows(h, n, a, g)}
<1>1. \A n \in Nat : H(n) # {}
  <2> DEFINE S == {n \in Nat : H(n) # {}}
  <2>1. [k \in 0 .. 0 |-> a] \in H(0)
    BY DEF Follows
  <2>2. ASSUME NEW n \in Nat, NEW h \in H(n)
        PROVE  H(n + 1) # {}
    <3> DEFINE f == [k \in 0 .. n + 1 |-> IF k = n + 1 THEN g[<<n, h[n]>>] ELSE h[k]]
    <3>1. h \in [0 .. n -> D] /\ Follows(h, n, a, g)
      OBVIOUS
    <3>2. g[<<n, h[n]>>] \in D
      BY <3>1
    <3>3. f \in [0 .. n + 1 -> D]
      BY <3>1, <3>2
    <3>4. f[0] = a
      BY <3>1 DEF Follows
    <3>5. ASSUME NEW k \in 0 .. (n + 1) - 1 PROVE f[k + 1] = g[<<k, f[k]>>]
      <4>1. CASE k = n
        <5>1. f[k + 1] = g[<<n, h[n]>>] /\ f[k] = h[n]
          BY <4>1
        <5> HIDE DEF f
        <5> QED BY <5>1, <4>1
      <4>2. CASE k # n
        <5>1. k \in 0 .. n - 1 /\ k + 1 \in 0 .. n /\ k + 1 # n + 1 /\ k # n + 1
          BY <4>2
        <5>2. f[k + 1] = h[k + 1] /\ f[k] = h[k]
          BY <5>1
        <5>3. h[k + 1] = g[<<k, h[k]>>]
          BY <5>1, <3>1 DEF Follows
        <5> HIDE DEF f
        <5> QED BY <5>2, <5>3
      <4> QED BY <4>1, <4>2
    <3> HIDE DEF f
    <3>6. f \in H(n + 1)
      BY <3>3, <3>4, <3>5 DEF Follows
    <3> QED BY <3>6
  <2> HIDE DEF H
  <2>3. 0 \in S /\ \A n \in Nat : n \in S => n + 1 \in S
    BY <2>1, <2>2
  <2> HIDE DEF S
  <2>4. Nat \subseteq S
    BY <2>3, Induction
  <2> USE DEF S
  <2> QED BY <2>4
<1>2. ASSUME NEW n \in Nat, NEW m \in Nat, NEW h \in H(n), NEW j \in H(m)
      PROVE  \A k \in Nat : k <= n /\ k <= m => h[k] = j[k]
  <2> DEFINE S == {k \in Nat : k <= n /\ k <= m => h[k] = j[k]}
  <2>1. Follows(h, n, a, g) /\ Follows(j, m, a, g)
    OBVIOUS
  <2> HIDE DEF H
  <2>2. 0 \in S
    BY <2>1 DEF Follows
  <2>3. ASSUME NEW k \in Nat, k \in S PROVE k + 1 \in S
    <3> SUFFICES ASSUME k + 1 <= n, k + 1 <= m PROVE h[k + 1] = j[k + 1]
      OBVIOUS
    <3>1. h[k] = j[k] /\ k \in 0 .. n - 1 /\ k \in 0 .. m - 1
      BY <2>3
    <3> QED BY <2>1, <3>1 DEF Follows
  <2>4. Nat \subseteq S
    BY <2>2, <2>3, Induction
  <2> QED BY <2>4
<1> DEFINE h(n) == CHOOSE h \in H(n) : TRUE
<1>3. \A n \in Nat : h(n) \in H(n)
  BY <1>1
<1> HIDE DEF h
<1> DEFINE f == [n \in Nat |-> h(n)[n]]
<1>4. \A n \in Nat : h(n) \in [0 .. n -> D] /\ Follows(h(n), n, a, g)
  BY <1>3
<1>5. f \in [Nat -> D]
  BY <1>4
<1>6. f[0] = a
  BY <1>4 DEF Follows
<1>7. ASSUME NEW n \in Nat PROVE f[n + 1] = g[<<n, f[n]>>]
  <2>1. h(n)[n] = h(n + 1)[n]
    <3> HIDE DEF H, f
    <3>1. n + 1 \in Nat /\ n <= n /\ n <= n + 1
      OBVIOUS
    <3>2. h(n) \in H(n) /\ h(n + 1) \in H(n + 1)
      BY <1>3, <3>1
    <3> QED BY <1>2, <3>1, <3>2
  <2>2. h(n + 1)[n + 1] = g[<<n, h(n + 1)[n]>>]
    BY <1>4 DEF Follows
  <2> QED BY <2>1, <2>2
<1> QED BY <1>5, <1>6, <1>7 DEF Recursive

\* A function with this equation is what `LET h[j \in 0 .. n] == ...' defines.
Iterates(h, n, a, g) == h = [j \in 0 .. n |-> IF j = 0 THEN a ELSE g[<<j, h[j - 1]>>]]

LEMMA Iteration ==
  ASSUME NEW D, NEW a \in D, NEW g \in [Nat \X D -> D], NEW n \in Nat
  PROVE  \E h : Iterates(h, n, a, g)
<1> DEFINE later == [x \in Nat \X D |-> g[<<x[1] + 1, x[2]>>]]
<1>1. PICK f \in [Nat -> D] : Recursive(f, a, later)
  <2>1. later \in [Nat \X D -> D]
    OBVIOUS
  <2> HIDE DEF later
  <2> QED BY <2>1, Recursion
<1>2. f[0] = a /\ \A k \in Nat : f[k + 1] = g[<<k + 1, f[k]>>]
  BY <1>1 DEF Recursive
<1> DEFINE h == [j \in 0 .. n |-> f[j]]
<1>3. ASSUME NEW j \in 0 .. n
      PROVE  h[j] = IF j = 0 THEN a ELSE g[<<j, h[j - 1]>>]
  <2>1. CASE j = 0
    BY <1>2, <2>1
  <2>2. CASE j # 0
    <3>1. j - 1 \in Nat /\ (j - 1) + 1 = j /\ j - 1 \in 0 .. n
      BY <2>2
    <3>2. f[j] = g[<<j, f[j - 1]>>]
      BY <1>2, <3>1
    <3>3. h[j] = f[j] /\ h[j - 1] = f[j - 1]
      BY <3>1
    <3> HIDE DEF h
    <3> QED BY <2>2, <3>2, <3>3
  <2> QED BY <2>1, <2>2
<1>4. Iterates(h, n, a, g)
  BY <1>3 DEF Iterates
<1> QED BY <1>4
-----------------------------------------------------------------------------
(***************************************************************************)
(* The size in a header.                                                   *)
(***************************************************************************)
LEMMA DivMod ==
  ASSUME NEW x \in Nat, NEW b \in Nat \ {0}
  PROVE  x \div b \in Nat /\ x % b \in 0 .. b - 1 /\ x = b * (x \div b) + (x % b)
OBVIOUS

LEMMA Quotient ==
  ASSUME NEW b \in Nat \ {0}, NEW q \in Nat, NEW r \in 0 .. b - 1
  PROVE  (b * q + r) \div b = q /\ (b * q + r) % b = r
OBVIOUS

LEMMA Products ==
  ASSUME NEW a \in Nat, NEW b \in Nat, NEW c \in Nat
  PROVE  /\ a * b \in Nat /\ a * b = b * a
         /\ a * (b * c) = (a * b) * c
         /\ a * (b + c) = a * b + a * c
         /\ a * (b + 1) = a * b + a /\ (b + 1) * a = b * a + a
         /\ a # 0 /\ b # 0 => a * b # 0
         /\ a <= b => a * c <= b * c
OBVIOUS

LEMMA QuotientTwice ==
  ASSUME NEW x \in Nat, NEW a \in Nat \ {0}, NEW b \in Nat \ {0}
  PROVE  x \div (a * b) = (x \div a) \div b
<1> DEFINE q == (x \div a) \div b
           d == (x \div a) % b
           r == x % a
<1>1. q \in Nat /\ d \in 0 .. b - 1 /\ r \in 0 .. a - 1
      /\ x \div a = b * q + d /\ x = a * (x \div a) + r
  BY DivMod
<1> HIDE DEF q, d, r
<1>2. x = (a * b) * q + (a * d + r)
  <2>1. x = a * (b * q + d) + r
    BY <1>1
  <2>2. a * (b * q + d) = a * (b * q) + a * d
    BY <1>1, Products
  <2>3. a * (b * q) = (a * b) * q
    BY <1>1, Products
  <2>4. a * (b * q) \in Nat /\ a * d \in Nat
    BY <1>1, Products
  <2> QED BY <2>1, <2>2, <2>3, <2>4, <1>1
<1>3. a * d + r \in 0 .. a * b - 1
  <2>1. (d + 1) * a <= b * a
    BY <1>1, Products
  <2>2. (d + 1) * a = d * a + a /\ d * a = a * d /\ b * a = a * b /\ a * d \in Nat /\ a * b \in Nat
    BY <1>1, Products
  <2> QED BY <2>1, <2>2, <1>1
<1>4. a * b \in Nat \ {0}
  BY Products
<1> DEFINE e == a * b
           t == a * d + r
<1>5. e \in Nat \ {0} /\ t \in 0 .. e - 1 /\ x = e * q + t
  BY <1>2, <1>3, <1>4
<1> HIDE DEF e, t
<1>6. x \div e = q
  BY <1>1, <1>5, Quotient
<1> QED BY <1>6 DEF e, q

\* What the recursion of Weight defines.
LEMMA Weights ==
  /\ Weight \in [Nat -> Nat \ {0}]
  /\ Weight[0] = 1
  /\ \A k \in Nat : Weight[k + 1] = Weight[k] * Radix
<1> DEFINE D == Nat \ {0}
           g == [x \in Nat \X D |-> x[2] * Radix]
<1>1. Radix \in D
  BY TarfsAssumption
<1>2. g \in [Nat \X D -> D]
  BY <1>1, Products
<1>3. PICK f \in [Nat -> D] : Recursive(f, 1, g)
  <2>1. 1 \in D
    OBVIOUS
  <2> HIDE DEF D, g
  <2> QED BY <1>2, <2>1, Recursion
<1>4. f[0] = 1 /\ \A n \in Nat : f[n + 1] = f[n] * Radix
  BY <1>3 DEF Recursive
<1>5. f = [k \in Nat |-> IF k = 0 THEN 1 ELSE f[k - 1] * Radix]
  <2>1. ASSUME NEW k \in Nat PROVE f[k] = IF k = 0 THEN 1 ELSE f[k - 1] * Radix
    <3>1. CASE k = 0
      BY <3>1, <1>4
    <3>2. CASE k # 0
      <4>1. k - 1 \in Nat /\ (k - 1) + 1 = k
        BY <3>2
      <4> QED BY <3>2, <4>1, <1>4
    <3> QED BY <3>1, <3>2
  <2> QED BY <2>1, <1>3
<1>6. Weight = [k \in Nat |-> IF k = 0 THEN 1 ELSE Weight[k - 1] * Radix]
  BY <1>5 DEF Weight
<1>7. ASSUME NEW k \in Nat PROVE Weight[k] = IF k = 0 THEN 1 ELSE Weight[k - 1] * Radix
  BY <1>6
<1>8. Weight[0] = 1
  BY <1>7
<1>9. \A k \in Nat : Weight[k + 1] = Weight[k] * Radix
  <2> SUFFICES ASSUME NEW k \in Nat PROVE Weight[k + 1] = Weight[k] * Radix
    OBVIOUS
  <2>1. k + 1 \in Nat /\ k + 1 # 0 /\ (k + 1) - 1 = k
    OBVIOUS
  <2> QED BY <2>1, <1>7
<1>10. \A k \in Nat : Weight[k] \in D
  <2> DEFINE S == {k \in Nat : Weight[k] \in D}
  <2>1. 0 \in S
    BY <1>8
  <2>2. \A k \in Nat : k \in S => k + 1 \in S
    BY <1>1, <1>9, Products
  <2>3. Nat \subseteq S
    <3> HIDE DEF S
    <3> QED BY <2>1, <2>2, Induction
  <2> QED BY <2>3
<1>11. Weight \in [Nat -> D]
  BY <1>6, <1>10
<1> QED BY <1>8, <1>9, <1>11

\* The loop of tarfs_getsize adds up the digits that the writer of the archive made of
\* the size, and so returns it (tarfs.c:9-19).
THEOREM SizeRead ==
  ASSUME NEW s \in Nat, s < Weight[Places], NEW in,
         in = [j \in 1 .. Places |-> (s \div Weight[Places - j]) % Radix]
  PROVE  tarfs_getsize(in) = s
<1>1. /\ Places \in Nat /\ Radix \in Nat \ {0} /\ Weight[0] = 1
      /\ \A k \in Nat : Weight[k] \in Nat \ {0} /\ Weight[k + 1] = Weight[k] * Radix
  BY TarfsAssumption, Weights
<1>2. ASSUME NEW j \in 1 .. Places
      PROVE  /\ in[Places + 1 - j] = (s \div Weight[j - 1]) % Radix
             /\ in[Places + 1 - j] * Weight[j - 1] \in Nat
  <2>1. Places + 1 - j \in 1 .. Places /\ Places - (Places + 1 - j) = j - 1 /\ j - 1 \in Nat
    BY <1>1
  <2>2. in[Places + 1 - j] = (s \div Weight[j - 1]) % Radix
    BY <2>1
  <2>3. Weight[j - 1] \in Nat \ {0}
    BY <1>1, <2>1
  <2> DEFINE q == s \div Weight[j - 1]
  <2>4. q \in Nat
    BY <2>3, DivMod
  <2> HIDE DEF q
  <2>5. q % Radix \in Nat
    BY <1>1, <2>4, DivMod
  <2> QED BY <2>2, <2>3, <2>5, Products DEF q
<1> DEFINE g == [x \in Nat \X Nat |-> IF x[1] \in 1 .. Places
                                        THEN x[2] + in[Places + 1 - x[1]] * Weight[x[1] - 1] ELSE 0]
<1>3. \E h : Iterates(h, Places, 0, g)
  <2>1. g \in [Nat \X Nat -> Nat]
    BY <1>2
  <2> HIDE DEF g
  <2> QED BY <1>1, <2>1, Iteration
<1>4. PICK h : h = [j \in 0 .. Places |->
                      IF j = 0 THEN 0 ELSE h[j - 1] + in[Places + 1 - j] * Weight[j - 1]]
  <2>1. PICK h : Iterates(h, Places, 0, g)
    BY <1>3
  <2>2. \A j \in 0 .. Places : h[j] = IF j = 0 THEN 0 ELSE g[<<j, h[j - 1]>>]
    <3> HIDE DEF g
    <3> QED BY <2>1 DEF Iterates
  <2>3. \A j \in 0 .. Places : h[j] \in Nat
    <3> DEFINE S == {j \in Nat : j <= Places => h[j] \in Nat}
    <3>1. 0 \in S
      <4>1. 0 \in 0 .. Places
        BY <1>1
      <4>2. h[0] = 0
        BY <2>2, <4>1
      <4> QED BY <4>2
    <3>2. ASSUME NEW j \in Nat, j \in S PROVE j + 1 \in S
      <4> SUFFICES ASSUME j + 1 <= Places PROVE h[j + 1] \in Nat
        OBVIOUS
      <4>1. j + 1 \in 1 .. Places /\ (j + 1) - 1 = j /\ h[j] \in Nat
        BY <1>1, <3>2
      <4>2. h[j + 1] = g[<<j + 1, h[j]>>]
        <5> HIDE DEF g
        <5> QED BY <2>2, <4>1
      <4>3. h[j + 1] = h[j] + in[Places + 1 - (j + 1)] * Weight[(j + 1) - 1]
        BY <4>1, <4>2
      <4> HIDE DEF g
      <4> QED BY <4>1, <4>3, <1>2
    <3>3. Nat \subseteq S
      <4> HIDE DEF S
      <4> QED BY <3>1, <3>2, Induction
    <3> QED BY <1>1, <3>3
  <2>4. ASSUME NEW j \in 0 .. Places
        PROVE  h[j] = IF j = 0 THEN 0 ELSE h[j - 1] + in[Places + 1 - j] * Weight[j - 1]
    <3>1. CASE j = 0
      BY <2>2, <3>1
    <3>2. CASE j # 0
      <4>1. j \in 1 .. Places /\ j - 1 \in 0 .. Places
        BY <1>1, <3>2
      <4>2. h[j] = g[<<j, h[j - 1]>>] /\ h[j - 1] \in Nat
        <5> HIDE DEF g
        <5> QED BY <2>2, <2>3, <3>2, <4>1
      <4>3. h[j] = h[j - 1] + in[Places + 1 - j] * Weight[j - 1]
        BY <4>1, <4>2
      <4> HIDE DEF g
      <4> QED BY <3>2, <4>3
    <3> QED BY <3>1, <3>2
  <2>5. h = [j \in 0 .. Places |-> h[j]]
    <3> HIDE DEF g
    <3> QED BY <2>1 DEF Iterates
  <2> HIDE DEF g
  <2> QED BY <2>4, <2>5
<1> DEFINE size == CHOOSE f : f = [j \in 0 .. Places |->
                     IF j = 0 THEN 0 ELSE f[j - 1] + in[Places + 1 - j] * Weight[j - 1]]
<1>5. size = [j \in 0 .. Places |->
                IF j = 0 THEN 0 ELSE size[j - 1] + in[Places + 1 - j] * Weight[j - 1]]
  <2> HIDE DEF g
  <2> QED BY <1>4
<1>6. tarfs_getsize(in) = size[Places]
  BY DEF tarfs_getsize
<1> HIDE DEF size, g
<1> DEFINE S == {j \in Nat : j <= Places =>
                   size[j] \in Nat /\ size[j] + Weight[j] * (s \div Weight[j]) = s}
<1>7. 0 \in S
  <2>1. size[0] = 0
    <3>1. 0 \in 0 .. Places
      BY <1>1
    <3> QED BY <1>5, <3>1
  <2>2. s \div 1 = s
    OBVIOUS
  <2>3. Weight[0] = 1
    BY <1>1
  <2> QED BY <2>1, <2>2, <2>3
<1>8. ASSUME NEW j \in Nat, j \in S PROVE j + 1 \in S
  <2> SUFFICES ASSUME j + 1 <= Places
               PROVE  /\ size[j + 1] \in Nat
                      /\ size[j + 1] + Weight[j + 1] * (s \div Weight[j + 1]) = s
    OBVIOUS
  <2> DEFINE w == Weight[j]
             q == s \div w
             e == q \div Radix
             d == q % Radix
  <2>1. j + 1 \in 1 .. Places /\ j + 1 \in 0 .. Places /\ (j + 1) - 1 = j /\ j + 1 # 0
    BY <1>1
  <2>2. w \in Nat \ {0} /\ Weight[j + 1] = w * Radix
    BY <1>1
  <2>3. size[j] \in Nat /\ size[j] + w * q = s
    BY <1>1, <1>8
  <2>4. s \div Weight[j + 1] = e
    <3>1. s \div (w * Radix) = (s \div w) \div Radix
      <4> HIDE DEF w
      <4> QED BY <1>1, <2>2, QuotientTwice, ZenonT(30)
    <3> QED BY <2>2, <3>1
  <2>5. in[Places + 1 - (j + 1)] = d
    BY <1>2, <2>1
  <2>6. size[j + 1] = size[j] + d * w
    BY <1>5, <2>1, <2>5
  <2>7. q \in Nat
    BY <2>2, DivMod
  <2> HIDE DEF w, q
  <2>8. q \div Radix \in Nat /\ q % Radix \in Nat /\ q = Radix * (q \div Radix) + (q % Radix)
    <3>1. Radix \in Nat \ {0}
      BY <1>1
    <3>2. /\ q \div Radix \in Nat /\ q % Radix \in 0 .. Radix - 1
          /\ q = Radix * (q \div Radix) + (q % Radix)
      BY <2>7, <3>1, DivMod
    <3> HIDE DEF e, d
    <3> QED BY <3>1, <3>2
  <2> HIDE DEF e, d
  <2>10. e \in Nat /\ d \in Nat /\ q = Radix * e + d
    BY <2>8 DEF e, d
  <2>9. /\ w * (Radix * e) = (w * Radix) * e /\ w * (Radix * e + d) = w * (Radix * e) + w * d
        /\ w * d = d * w /\ w * (Radix * e) \in Nat /\ w * d \in Nat
    BY <1>1, <2>2, <2>10, Products
  <2> QED BY <2>2, <2>3, <2>4, <2>6, <2>9, <2>10
<1>9. Nat \subseteq S
  <2> HIDE DEF S
  <2> QED BY <1>7, <1>8, Induction
<1>10. size[Places] \in Nat /\ size[Places] + Weight[Places] * (s \div Weight[Places]) = s
  BY <1>1, <1>9
<1>11. s \div Weight[Places] = 0 /\ Weight[Places] \in Nat
  <2> DEFINE w == Weight[Places]
  <2>1. w \in Nat \ {0} /\ s < w
    BY <1>1
  <2> HIDE DEF w
  <2>2. s = w * 0 + s /\ s \in 0 .. w - 1
    BY <2>1
  <2>3. (w * 0 + s) \div w = 0
    BY <2>1, <2>2, Quotient
  <2> QED BY <2>1, <2>2, <2>3 DEF w
<1> QED BY <1>6, <1>10, <1>11
-----------------------------------------------------------------------------
(***************************************************************************)
(* The archive in memory.                                                  *)
(***************************************************************************)
\* What a file takes in memory: its header's block, and the blocks of its content.
Room(s) == (1 + Blocks(s)) * Block

LEMMA RoomFacts ==
  ASSUME NEW s \in Nat
  PROVE  /\ Room(s) \in Nat
         /\ Room(s) = Full(s) + Padding(s)
         /\ Full(s) = (s \div Block) * Block + Block
         /\ (s \div Block) * Block \in Nat
         /\ s \div Block \in Nat /\ s % Block \in 0 .. Block - 1
         /\ s = (s \div Block) * Block + (s % Block)
<1> DEFINE q == s \div Block
           r == s % Block
<1>1. Block \in Nat \ {0} /\ Block > 1
  BY TarfsAssumption
<1>2. q \in Nat /\ r \in 0 .. Block - 1 /\ s = Block * q + r
  BY <1>1, DivMod
<1>3. Blocks(s) = IF r = 0 THEN q ELSE q + 1
  <2>1. CASE r = 0
    <3>1. s + Block - 1 = Block * q + (Block - 1) /\ Block - 1 \in 0 .. Block - 1
      BY <1>1, <1>2, <2>1
    <3> HIDE DEF q, r
    <3> QED BY <1>1, <1>2, <2>1, <3>1, Quotient DEF Blocks
  <2>2. CASE r # 0
    <3>1. s + Block - 1 = Block * (q + 1) + (r - 1) /\ r - 1 \in 0 .. Block - 1 /\ q + 1 \in Nat
      <4> HIDE DEF q, r
      <4>1. Block * (q + 1) = Block * q + Block /\ Block * q \in Nat
        BY <1>1, <1>2, Products
      <4> QED BY <1>1, <1>2, <2>2, <4>1
    <3> HIDE DEF q, r
    <3> QED BY <1>1, <1>2, <2>2, <3>1, Quotient DEF Blocks
  <2> QED BY <2>1, <2>2
<1>4. Full(s) = (q + 1) * Block /\ Padding(s) = IF r = 0 THEN 0 ELSE Block
  BY DEF Full, Padding
<1> HIDE DEF q, r
<1>5. /\ (q + 1) * Block = q * Block + Block /\ q * Block \in Nat /\ Block * q = q * Block
      /\ (1 + q) * Block = q * Block + Block
      /\ (1 + (q + 1)) * Block = q * Block + Block + Block
  BY <1>1, <1>2, Products
<1>6. Room(s) = IF r = 0 THEN q * Block + Block ELSE q * Block + Block + Block
  BY <1>2, <1>3, <1>5 DEF Room
<1>7. q * Block \in Nat /\ Block \in Nat
  BY <1>1, <1>5
<1> QED BY <1>1, <1>2, <1>4, <1>5, <1>6, <1>7 DEF q, r

\* What the recursion of Place defines.
LEMMA PlaceFacts ==
  ASSUME NEW l \in Nat, NEW sizes \in Seq(Nat)
  PROVE  /\ Place(l, sizes) \in [1 .. Len(sizes) + 1 -> Nat]
         /\ Place(l, sizes)[1] = l
         /\ \A i \in 1 .. Len(sizes) :
              Place(l, sizes)[i + 1] = Place(l, sizes)[i] + Room(sizes[i])
<1> DEFINE n == Len(sizes)
           g == [x \in Nat \X Nat |-> IF x[1] \in 1 .. n THEN x[2] + Room(sizes[x[1]]) ELSE 0]
<1>1. n \in Nat /\ \A i \in 1 .. n : sizes[i] \in Nat /\ Room(sizes[i]) \in Nat
  <2>1. n \in Nat /\ \A i \in 1 .. n : sizes[i] \in Nat
    OBVIOUS
  <2>2. \A s \in Nat : Room(s) \in Nat
    BY RoomFacts
  <2> HIDE DEF n
  <2> QED BY <2>1, <2>2
<1>2. PICK f : Iterates(f, n, l, g)
  <2>1. g \in [Nat \X Nat -> Nat]
    BY <1>1
  <2> HIDE DEF g, n
  <2> QED BY <1>1, <2>1, Iteration
<1>3. \A j \in 0 .. n : f[j] = IF j = 0 THEN l ELSE g[<<j, f[j - 1]>>]
  <2> HIDE DEF g, n
  <2> QED BY <1>2 DEF Iterates
<1>4. \A j \in Nat : j <= n => f[j] \in Nat /\ (j > 0 => f[j] = f[j - 1] + Room(sizes[j]))
  <2> DEFINE S == {j \in Nat : j <= n => f[j] \in Nat
                                        /\ (j > 0 => f[j] = f[j - 1] + Room(sizes[j]))}
  <2>1. 0 \in S
    <3>1. 0 \in 0 .. n
      BY <1>1
    <3>2. f[0] = l
      BY <1>3, <3>1
    <3> QED BY <3>2
  <2>2. ASSUME NEW j \in Nat, j \in S PROVE j + 1 \in S
    <3> SUFFICES ASSUME j + 1 <= n
                 PROVE  f[j + 1] \in Nat /\ f[j + 1] = f[(j + 1) - 1] + Room(sizes[j + 1])
      OBVIOUS
    <3>1. j + 1 \in 1 .. n /\ (j + 1) - 1 = j /\ f[j] \in Nat /\ j + 1 # 0 /\ j + 1 \in 0 .. n
      BY <1>1, <2>2
    <3>2. f[j + 1] = g[<<j + 1, f[j]>>]
      <4> HIDE DEF g, n
      <4> QED BY <1>3, <3>1
    <3>3. f[j + 1] = f[j] + Room(sizes[j + 1])
      BY <3>1, <3>2
    <3>4. Room(sizes[j + 1]) \in Nat
      BY <1>1, <3>1
    <3> QED BY <3>1, <3>3, <3>4
  <2>3. Nat \subseteq S
    <3> HIDE DEF S
    <3> QED BY <2>1, <2>2, Induction
  <2> HIDE DEF g, n
  <2> QED BY <2>3
<1> DEFINE h == [i \in 1 .. n + 1 |-> f[i - 1]]
<1>5. h = [i \in 1 .. n + 1 |-> IF i = 1 THEN l
                                ELSE h[i - 1] + (1 + Blocks(sizes[i - 1])) * Block]
  <2>1. ASSUME NEW i \in 1 .. n + 1
        PROVE  h[i] = IF i = 1 THEN l ELSE h[i - 1] + (1 + Blocks(sizes[i - 1])) * Block
    <3>1. CASE i = 1
      <4>1. h[i] = f[0] /\ 0 \in 0 .. n
        BY <1>1, <3>1
      <4>2. f[0] = l
        BY <1>3, <4>1
      <4> QED BY <3>1, <4>1, <4>2
    <3>2. CASE i # 1
      <4>1. i - 1 \in Nat /\ i - 1 <= n /\ i - 1 > 0 /\ h[i] = f[i - 1] /\ i - 1 \in 1 .. n + 1
            /\ h[i - 1] = f[(i - 1) - 1]
        BY <1>1, <3>2
      <4> HIDE DEF h, g, n
      <4> QED BY <1>4, <3>2, <4>1 DEF Room
    <3> QED BY <3>1, <3>2
  <2> QED BY <2>1
<1> DEFINE start == CHOOSE start : start = [i \in 1 .. n + 1 |->
                      IF i = 1 THEN l ELSE start[i - 1] + (1 + Blocks(sizes[i - 1])) * Block]
<1>6. start = [i \in 1 .. n + 1 |->
                 IF i = 1 THEN l ELSE start[i - 1] + (1 + Blocks(sizes[i - 1])) * Block]
  <2> HIDE DEF h, g, n
  <2> QED BY <1>5
<1>7. Place(l, sizes) = start
  BY DEF Place
<1> HIDE DEF start, g, h, n
<1>8. start[1] = l
  <2>1. 1 \in 1 .. n + 1
    BY <1>1
  <2> QED BY <1>6, <2>1
<1>9. ASSUME NEW i \in 1 .. n PROVE start[i + 1] = start[i] + Room(sizes[i])
  <2>1. i + 1 \in 1 .. n + 1 /\ i + 1 # 1 /\ (i + 1) - 1 = i
    BY <1>1
  <2>2. start[i + 1] = start[i] + (1 + Blocks(sizes[i])) * Block
    BY <1>6, <2>1
  <2> QED BY <2>2 DEF Room
<1>10. \A i \in 1 .. n + 1 : start[i] \in Nat
  <2> DEFINE S == {i \in Nat : i <= n => start[i + 1] \in Nat}
  <2>1. 0 \in S
    BY <1>8
  <2>2. ASSUME NEW i \in Nat, i \in S PROVE i + 1 \in S
    <3> SUFFICES ASSUME i + 1 <= n PROVE start[(i + 1) + 1] \in Nat
      OBVIOUS
    <3>1. i + 1 \in 1 .. n /\ start[i + 1] \in Nat
      BY <1>1, <2>2
    <3> QED BY <1>1, <1>9, <3>1
  <2>3. Nat \subseteq S
    <3> HIDE DEF S
    <3> QED BY <2>1, <2>2, Induction
  <2>4. ASSUME NEW i \in 1 .. n + 1 PROVE start[i] \in Nat
    <3>1. i - 1 \in Nat /\ i - 1 <= n /\ (i - 1) + 1 = i
      BY <1>1
    <3> QED BY <2>3, <3>1
  <2> QED BY <2>4
<1>11. start = [i \in 1 .. n + 1 |-> start[i]]
  BY <1>6
<1> QED BY <1>7, <1>8, <1>9, <1>10, <1>11 DEF n

\* What the lemmas about the bytes need of the archive.
Sizes == loc \in Nat /\ archive \in Seq(Nat)

LEMMA Starts ==
  ASSUME Sizes
  PROVE  /\ Len(archive) \in Nat
         /\ \A i \in 1 .. Len(archive) + 1 : Start[i] \in Nat
         /\ Start[1] = loc
         /\ \A i \in 1 .. Len(archive) :
              /\ archive[i] \in Nat /\ Room(archive[i]) \in Nat /\ Room(archive[i]) >= Block
              /\ Start[i + 1] = Start[i] + Room(archive[i])
<1>1. Block \in Nat
  BY TarfsAssumption
<1>2. \A i \in 1 .. Len(archive) : archive[i] \in Nat
  BY DEF Sizes
<1>3. \A i \in 1 .. Len(archive) : Room(archive[i]) \in Nat /\ Room(archive[i]) >= Block
  <2> SUFFICES ASSUME NEW i \in 1 .. Len(archive)
               PROVE  Room(archive[i]) \in Nat /\ Room(archive[i]) >= Block
    OBVIOUS
  <2> DEFINE s == archive[i]
             r == s % Block
             q == s \div Block
  <2>1. s \in Nat
    BY <1>2
  <2> HIDE DEF s
  <2>2. Room(s) \in Nat /\ Room(s) = Full(s) + Padding(s) /\ Full(s) = q * Block + Block
        /\ q * Block \in Nat
    BY <2>1, RoomFacts
  <2>3. Padding(s) \in Nat
    BY <1>1 DEF Padding
  <2> HIDE DEF q
  <2> QED BY <1>1, <2>2, <2>3 DEF s
<1>4. Len(archive) \in Nat
  BY DEF Sizes
<1>5. /\ Start \in [1 .. Len(archive) + 1 -> Nat]
      /\ Start[1] = loc
      /\ \A i \in 1 .. Len(archive) : Start[i + 1] = Start[i] + Room(archive[i])
  BY PlaceFacts DEF Start, Sizes
<1> QED BY <1>2, <1>3, <1>4, <1>5

\* The files follow each other.
LEMMA Ascending ==
  ASSUME Sizes
  PROVE  \A i, j \in 1 .. Len(archive) + 1 : i < j => Start[i] + Room(archive[i]) <= Start[j]
<1> DEFINE S == {j \in Nat : j <= Len(archive) =>
                   \A i \in 1 .. Len(archive) :
                     i <= j => Start[i] + Room(archive[i]) <= Start[j + 1]}
<1>1. 0 \in S
  OBVIOUS
<1>2. ASSUME NEW j \in Nat, j \in S PROVE j + 1 \in S
  <2> SUFFICES ASSUME j + 1 <= Len(archive), NEW i \in 1 .. Len(archive), i <= j + 1
               PROVE  Start[i] + Room(archive[i]) <= Start[(j + 1) + 1]
    OBVIOUS
  <2>1. j + 1 \in 1 .. Len(archive) /\ j + 1 \in 1 .. Len(archive) + 1 /\ Len(archive) \in Nat
    BY Starts
  <2>2. Start[(j + 1) + 1] = Start[j + 1] + Room(archive[j + 1]) /\ Start[j + 1] \in Nat
        /\ Room(archive[j + 1]) \in Nat
    BY <2>1, Starts
  <2>3. CASE i = j + 1
    BY <2>2, <2>3
  <2>4. CASE i # j + 1
    <3>1. i <= j
      BY <2>4
    <3>2. Start[i] + Room(archive[i]) <= Start[j + 1]
      BY <1>2, <2>1, <3>1
    <3>3. Start[i] \in Nat /\ Room(archive[i]) \in Nat
      BY <2>1, Starts
    <3> QED BY <2>2, <3>2, <3>3
  <2> QED BY <2>3, <2>4
<1>3. Nat \subseteq S
  <2> HIDE DEF S
  <2> QED BY <1>1, <1>2, Induction
<1>4. ASSUME NEW i \in 1 .. Len(archive) + 1, NEW j \in 1 .. Len(archive) + 1, i < j
      PROVE  Start[i] + Room(archive[i]) <= Start[j]
  <2>1. Len(archive) \in Nat
    BY Starts
  <2>2. j - 1 \in Nat /\ j - 1 <= Len(archive) /\ i \in 1 .. Len(archive) /\ i <= j - 1
        /\ (j - 1) + 1 = j
    BY <1>4, <2>1
  <2> QED BY <1>3, <2>2
<1> QED BY <1>4

LEMMA EndAfter ==
  ASSUME Sizes
  PROVE  /\ End \in Nat
         /\ \A i \in 1 .. Len(archive) : Start[i] < Start[i + 1] /\ Start[i + 1] <= End
<1>1. Len(archive) \in Nat /\ Len(archive) + 1 \in 1 .. Len(archive) + 1 /\ Block \in Nat \ {0}
  BY Starts, TarfsAssumption
<1>2. End \in Nat
  BY <1>1, Starts DEF End
<1>3. ASSUME NEW i \in 1 .. Len(archive)
      PROVE  Start[i] < Start[i + 1] /\ Start[i + 1] <= End
  <2>1. i \in 1 .. Len(archive) + 1 /\ i < Len(archive) + 1
    BY <1>1
  <2>2. Start[i] + Room(archive[i]) <= End
    BY <1>1, <2>1, Ascending DEF End
  <2> QED BY <1>1, <2>1, <2>2, Starts
<1> QED BY <1>2, <1>3

\* The file that has an address is the only one.
LEMMA FileAt ==
  ASSUME Sizes, NEW i \in 1 .. Len(archive), NEW a \in Nat, Start[i] <= a, a < Start[i + 1]
  PROVE  {j \in DOMAIN archive : Start[j] <= a /\ a < Start[j + 1]} = {i}
<1>1. DOMAIN archive = 1 .. Len(archive) /\ Len(archive) \in Nat
  BY DEF Sizes
<1>2. ASSUME NEW j \in 1 .. Len(archive), Start[j] <= a, a < Start[j + 1]
      PROVE  j = i
  <2>1. i \in 1 .. Len(archive) + 1 /\ j \in 1 .. Len(archive) + 1
    BY <1>1
  <2>2. /\ Start[i + 1] = Start[i] + Room(archive[i])
        /\ Start[j + 1] = Start[j] + Room(archive[j])
    BY Starts
  <2>3. Start[i] \in Nat /\ Start[j] \in Nat /\ Start[i + 1] \in Nat /\ Start[j + 1] \in Nat
    <3>1. i + 1 \in 1 .. Len(archive) + 1 /\ j + 1 \in 1 .. Len(archive) + 1
      BY <1>1
    <3> QED BY <2>1, <3>1, Starts
  <2>4. ~ (j < i)
    <3> SUFFICES ASSUME j < i PROVE FALSE
      OBVIOUS
    <3>1. Start[j] + Room(archive[j]) <= Start[i]
      BY <2>1, Ascending
    <3> QED BY <1>2, <2>2, <2>3, <3>1
  <2>5. ~ (i < j)
    <3> SUFFICES ASSUME i < j PROVE FALSE
      OBVIOUS
    <3>1. Start[i] + Room(archive[i]) <= Start[j]
      BY <2>1, Ascending
    <3> QED BY <1>2, <2>2, <2>3, <3>1
  <2> QED BY <2>4, <2>5
<1> QED BY <1>1, <1>2

LEMMA ByteOf ==
  ASSUME Sizes, NEW i \in 1 .. Len(archive), NEW a \in Nat, Start[i] <= a, a < Start[i + 1]
  PROVE  Byte(a) = IF a = Start[i] THEN [file |-> i, at |-> 0]
                   ELSE IF (a + 1) - (Start[i] + Block) \in 1 .. archive[i]
                          THEN [file |-> i, at |-> (a + 1) - (Start[i] + Block)]
                   ELSE NUL
<1> DEFINE file == {j \in DOMAIN archive : Start[j] <= a /\ a < Start[j + 1]}
           at(j) == (a + 1) - (Start[j] + Block)
<1>1. file = {i}
  BY FileAt
<1>2. a = Start[i] => ~ (at(i) \in 1 .. archive[i])
  BY Starts, TarfsAssumption
<1>3. Byte(a) = CASE \E j \in file : a = Start[j] -> [file |-> CHOOSE j \in file : TRUE, at |-> 0]
                  [] \E j \in file : at(j) \in 1 .. archive[j] ->
                       LET j == CHOOSE j \in file : TRUE IN [file |-> j, at |-> at(j)]
                  [] OTHER -> NUL
  BY DEF Byte
<1> HIDE DEF file
<1>4. (CHOOSE j \in file : TRUE) = i
  BY <1>1
<1>5. /\ (\E j \in file : a = Start[j]) <=> a = Start[i]
      /\ (\E j \in file : at(j) \in 1 .. archive[j]) <=> at(i) \in 1 .. archive[i]
  BY <1>1
<1>6. Byte(a) = CASE a = Start[i] -> [file |-> i, at |-> 0]
                  [] at(i) \in 1 .. archive[i] -> [file |-> i, at |-> at(i)]
                  [] OTHER -> NUL
  <2> HIDE DEF at
  <2> QED BY <1>3, <1>4, <1>5
<1> QED BY <1>2, <1>6

LEMMA ByteBehind ==
  ASSUME Sizes, NEW a \in Nat, a >= End
  PROVE  Byte(a) = NUL
<1> DEFINE file == {j \in DOMAIN archive : Start[j] <= a /\ a < Start[j + 1]}
           at(j) == (a + 1) - (Start[j] + Block)
<1>1. file = {}
  <2> SUFFICES ASSUME NEW j \in 1 .. Len(archive), a < Start[j + 1] PROVE FALSE
    BY DEF Sizes
  <2>1. j + 1 \in 1 .. Len(archive) + 1
    BY Starts
  <2>2. Start[j + 1] \in Nat /\ Start[j + 1] <= End /\ End \in Nat
    BY <2>1, Starts, EndAfter
  <2> QED BY <2>2
<1>2. Byte(a) = CASE \E j \in file : a = Start[j] -> [file |-> CHOOSE j \in file : TRUE, at |-> 0]
                  [] \E j \in file : at(j) \in 1 .. archive[j] ->
                       LET j == CHOOSE j \in file : TRUE IN [file |-> j, at |-> at(j)]
                  [] OTHER -> NUL
  BY DEF Byte
<1> HIDE DEF file
<1> QED BY <1>1, <1>2

\* A file begins with its name, which is not empty.
LEMMA NameByte ==
  ASSUME Sizes, NEW i \in 1 .. Len(archive)
  PROVE  Byte(Start[i]) = [file |-> i, at |-> 0] /\ Byte(Start[i]) # NUL
<1>1. Start[i] \in Nat /\ Start[i] <= Start[i] /\ Start[i] < Start[i + 1]
  <2>1. i \in 1 .. Len(archive) + 1
    BY Starts
  <2> QED BY <2>1, Starts, EndAfter
<1>2. Byte(Start[i]) = [file |-> i, at |-> 0]
  BY <1>1, ByteOf
<1>3. i # 0
  BY Starts
<1> QED BY <1>2, <1>3 DEF NUL

LEMMA SizeFieldAt ==
  ASSUME Sizes, NEW i \in 1 .. Len(archive)
  PROVE  SizeField(Start[i]) = [j \in 1 .. Places |-> (archive[i] \div Weight[Places - j]) % Radix]
<1>1. DOMAIN archive = 1 .. Len(archive) /\ Len(archive) \in Nat
  BY DEF Sizes
<1>2. ASSUME NEW j \in 1 .. Len(archive), Start[i] = Start[j] PROVE j = i
  <2>1. /\ i \in 1 .. Len(archive) + 1 /\ j \in 1 .. Len(archive) + 1
        /\ Start[i] < Start[i + 1] /\ Start[j] < Start[j + 1]
        /\ Start[i] \in Nat /\ Start[j] \in Nat
    BY <1>1, Starts, EndAfter
  <2>2. Start[i] + Room(archive[i]) = Start[i + 1] /\ Start[j] + Room(archive[j]) = Start[j + 1]
    BY Starts
  <2>3. i < j => Start[i + 1] <= Start[j]
    BY <2>1, <2>2, Ascending
  <2>4. j < i => Start[j + 1] <= Start[i]
    BY <2>1, <2>2, Ascending
  <2>5. i + 1 \in 1 .. Len(archive) + 1 /\ j + 1 \in 1 .. Len(archive) + 1
    BY <1>1
  <2>6. Start[i + 1] \in Nat /\ Start[j + 1] \in Nat
    BY <2>5, Starts
  <2> QED BY <1>2, <2>1, <2>3, <2>4, <2>6
<1> DEFINE c == CHOOSE j \in DOMAIN archive : Start[i] = Start[j]
<1>3. c = i
  BY <1>1, <1>2
<1>4. SizeField(Start[i]) = [j \in 1 .. Places |-> (archive[c] \div Weight[Places - j]) % Radix]
  BY Zenon DEF SizeField
<1> HIDE DEF c
<1> QED BY <1>3, <1>4

\* What a string begins with up to the first zero.
LEMMA TextIs ==
  ASSUME Sizes, NEW a \in Nat, NEW n \in Nat, n <= End + Block, Byte(a + n) = NUL,
         \A l \in 0 .. n - 1 : Byte(a + l) # NUL
  PROVE  Text(a) = [k \in 1 .. n |-> Byte(a + k - 1)]
<1> DEFINE P(k) == Byte(a + k) = NUL /\ \A l \in 0 .. k - 1 : Byte(a + l) # NUL
           length == CHOOSE k \in 0 .. End + Block : P(k)
<1>1. n \in 0 .. End + Block /\ P(n)
  BY EndAfter, TarfsAssumption
<1>2. ASSUME NEW k \in 0 .. End + Block, P(k) PROVE k = n
  <2>1. k \in Nat /\ End + Block \in Nat
    BY EndAfter, TarfsAssumption
  <2>2. ~ (k < n)
    BY <1>2, <2>1
  <2>3. ~ (n < k)
    BY <1>2, <2>1
  <2> QED BY <2>1, <2>2, <2>3
<1>3. length = n
  <2> HIDE DEF P
  <2> QED BY <1>1, <1>2
<1>4. Text(a) = [k \in 1 .. length |-> Byte(a + k - 1)]
  BY DEF Text
<1> QED BY <1>3, <1>4

\* What tarfs_list_headers prints of a file.
LEMMA TextOfFile ==
  ASSUME Sizes, NEW i \in 1 .. Len(archive)
  PROVE  /\ Text(Start[i] + Full(archive[i])) = Rest(i)
         /\ Len(Rest(i)) < Cbuf \/ Len(Rest(i)) = archive[i] % Block
<1> DEFINE s == archive[i]
           q == s \div Block
           full == q * Block
           r == s % Block
           c == Start[i] + Full(s)
<1>1. /\ Block \in Nat /\ Block > 1 /\ Cbuf \in Nat /\ Cbuf > 1
      /\ Len(archive) \in Nat /\ s \in Nat /\ Start[i] \in Nat
      /\ Start[i + 1] = Start[i] + Room(s)
      /\ Start[i + 1] <= End /\ End \in Nat
  <2>1. i \in 1 .. Len(archive) + 1
    BY Starts
  <2> QED BY <2>1, Starts, EndAfter, TarfsAssumption
<1>2. /\ full \in Nat /\ r \in 0 .. Block - 1 /\ s = full + r
      /\ Full(s) = full + Block /\ Room(s) = Full(s) + Padding(s)
  <2> HIDE DEF s
  <2> QED BY <1>1, RoomFacts
<1>3. Padding(s) = IF r # 0 THEN Block ELSE 0
  BY DEF Padding
<1>4. Rest(i) = IF s > full THEN [k \in 1 .. s - full |-> [file |-> i, at |-> full + k]]
                ELSE IF i = Len(archive) THEN <<>> ELSE <<[file |-> i + 1, at |-> 0]>>
  BY DEF Rest
<1>5. c = Start[i] + (full + Block)
  BY <1>2
<1>6. \A a \in Nat : Start[i] < a /\ a < Start[i + 1] =>
        Byte(a) = IF (a + 1) - (Start[i] + Block) \in 1 .. s
                    THEN [file |-> i, at |-> (a + 1) - (Start[i] + Block)] ELSE NUL
  <2> SUFFICES ASSUME NEW a \in Nat, Start[i] < a, a < Start[i + 1]
               PROVE  Byte(a) = IF (a + 1) - (Start[i] + Block) \in 1 .. s
                                  THEN [file |-> i, at |-> (a + 1) - (Start[i] + Block)] ELSE NUL
    OBVIOUS
  <2>1. Start[i] <= a /\ a # Start[i]
    BY <1>1
  <2>2. Byte(a) = IF a = Start[i] THEN [file |-> i, at |-> 0]
                  ELSE IF (a + 1) - (Start[i] + Block) \in 1 .. archive[i]
                         THEN [file |-> i, at |-> (a + 1) - (Start[i] + Block)]
                  ELSE NUL
    BY <2>1, ByteOf
  <2> QED BY <2>1, <2>2
<1>7. CASE r # 0
  <2> HIDE DEF s, full, r, c
  <2>1. s > full /\ s - full = r /\ Start[i + 1] = c + Block /\ c \in Nat /\ r \in Nat
    BY <1>1, <1>2, <1>3, <1>5, <1>7
  <2>2. ASSUME NEW k \in 0 .. r - 1
        PROVE  Byte(c + k) = [file |-> i, at |-> full + (k + 1)]
    <3>1. c + k \in Nat /\ Start[i] < c + k /\ c + k < Start[i + 1]
      BY <1>1, <1>2, <1>5, <2>1, SMTT(30)
    <3>2. full + (k + 1) \in 1 .. s
      BY <1>1, <1>2, <2>1
    <3>3. (c + k + 1) - (Start[i] + Block) = full + (k + 1)
      <4> DEFINE b == Start[i]
      <4>1. b \in Nat /\ c = b + (full + Block) /\ full \in Nat /\ k \in Nat /\ Block \in Nat
        BY <1>1, <1>2, <1>5, <2>1
      <4> HIDE DEF b
      <4>2. (c + k + 1) - (b + Block) = full + (k + 1)
        BY <4>1
      <4> QED BY <4>2 DEF b
    <3> QED BY <1>6, <3>1, <3>2, <3>3
  <2>3. Byte(c + r) = NUL
    <3>1. c + r \in Nat /\ Start[i] < c + r /\ c + r < Start[i + 1]
      BY <1>1, <1>2, <1>5, <2>1, SMTT(30)
    <3>2. ~ ((c + r + 1) - (Start[i] + Block) \in 1 .. s)
      <4> DEFINE b == Start[i]
      <4>1. /\ b \in Nat /\ c = b + (full + Block) /\ full \in Nat /\ r \in Nat /\ Block \in Nat
            /\ s = full + r
        BY <1>1, <1>2, <1>5, <2>1
      <4> HIDE DEF b
      <4>2. (c + r + 1) - (b + Block) = s + 1
        BY <4>1
      <4>3. ~ (s + 1 \in 1 .. s)
        BY <4>1
      <4> QED BY <4>2, <4>3 DEF b
    <3> QED BY <1>6, <3>1, <3>2
  <2>4. ASSUME NEW k \in 0 .. r - 1 PROVE Byte(c + k) # NUL
    <3> DEFINE at == full + (k + 1)
    <3>1. Byte(c + k) = [file |-> i, at |-> at]
      BY <2>2
    <3> HIDE DEF at
    <3>2. Byte(c + k).file = i
      BY <3>1
    <3>3. NUL.file = 0
      BY DEF NUL
    <3>4. i # 0
      BY <1>1
    <3> QED BY <3>2, <3>3, <3>4
  <2>5. r <= End + Block
    BY <1>1, <1>2
  <2>6. Text(c) = [k \in 1 .. r |-> Byte(c + k - 1)]
    BY <2>1, <2>3, <2>4, <2>5, TextIs
  <2>7. ASSUME NEW k \in 1 .. r PROVE Byte(c + k - 1) = [file |-> i, at |-> full + k]
    <3>1. k - 1 \in 0 .. r - 1 /\ c + k - 1 = c + (k - 1) /\ (k - 1) + 1 = k
      BY <2>1
    <3> QED BY <2>2, <3>1
  <2>8. Text(c) = [k \in 1 .. r |-> [file |-> i, at |-> full + k]]
    BY <2>6, <2>7
  <2>9. Rest(i) = [k \in 1 .. r |-> [file |-> i, at |-> full + k]]
    BY <1>4, <2>1
  <2>10. Len(Rest(i)) = r
    BY <2>1, <2>9
  <2> QED BY <2>8, <2>9, <2>10 DEF c, r, s
<1>8. CASE r = 0 /\ i = Len(archive)
  <2> HIDE DEF s, full, r, c
  <2>1. ~ (s > full) /\ c = End /\ c \in Nat
    BY <1>1, <1>2, <1>3, <1>5, <1>8 DEF End
  <2>2. Byte(c + 0) = NUL
    BY <1>1, <2>1, ByteBehind
  <2>3. Text(c) = [k \in 1 .. 0 |-> Byte(c + k - 1)]
    <3>1. 0 \in Nat /\ 0 <= End + Block /\ \A l \in 0 .. 0 - 1 : Byte(c + l) # NUL
      BY <1>1
    <3> QED BY <2>1, <2>2, <3>1, TextIs
  <2>4. Text(c) = <<>>
    BY <2>3
  <2>5. Rest(i) = <<>>
    BY <1>4, <1>8, <2>1
  <2>6. Len(Rest(i)) < Cbuf
    BY <1>1, <2>5
  <2> QED BY <2>4, <2>5, <2>6 DEF c, s
<1>9. CASE r = 0 /\ i # Len(archive)
  <2> HIDE DEF s, full, r, c
  <2>1. ~ (s > full) /\ c = Start[i + 1] /\ c \in Nat
    BY <1>1, <1>2, <1>3, <1>5, <1>9
  <2>2. i + 1 \in 1 .. Len(archive)
    BY <1>1, <1>9
  <2>3. Byte(c) = [file |-> i + 1, at |-> 0] /\ Byte(c) # NUL
    BY <2>1, <2>2, NameByte
  <2>4. Byte(c + 1) = NUL
    <3>1. /\ Start[(i + 1) + 1] = Start[i + 1] + Room(archive[i + 1])
          /\ Room(archive[i + 1]) >= Block /\ Room(archive[i + 1]) \in Nat
      BY <2>2, Starts
    <3>2. c + 1 \in Nat /\ Start[i + 1] <= c + 1 /\ c + 1 < Start[(i + 1) + 1]
          /\ c + 1 # Start[i + 1]
          /\ ~ ((c + 1 + 1) - (Start[i + 1] + Block) \in 1 .. archive[i + 1])
      BY <1>1, <2>1, <3>1, SMTT(30)
    <3> QED BY <2>2, <3>2, ByteOf
  <2>5. Text(c) = [k \in 1 .. 1 |-> Byte(c + k - 1)]
    <3>1. 1 \in Nat /\ 1 <= End + Block
      BY <1>1
    <3>2. \A l \in 0 .. 1 - 1 : Byte(c + l) # NUL
      <4>1. c + 0 = c /\ \A l \in 0 .. 1 - 1 : l = 0
        BY <2>1
      <4> QED BY <2>3, <4>1
    <3> QED BY <2>1, <2>4, <3>1, <3>2, TextIs
  <2>6. Text(c) = [k \in 1 .. 1 |-> [file |-> i + 1, at |-> 0]]
    <3>1. \A k \in 1 .. 1 : c + k - 1 = c
      BY <2>1
    <3> QED BY <2>3, <2>5, <3>1
  <2>7. Rest(i) = <<[file |-> i + 1, at |-> 0]>>
    BY <1>4, <1>9, <2>1
  <2>8. Text(c) = Rest(i)
    <3> DEFINE b == [file |-> i + 1, at |-> 0]
    <3>1. Text(c) = [k \in 1 .. 1 |-> b] /\ Rest(i) = <<b>>
      BY <2>6, <2>7
    <3> HIDE DEF b
    <3> QED BY <3>1
  <2>9. Len(Rest(i)) < Cbuf
    BY <1>1, <2>7
  <2> QED BY <2>8, <2>9 DEF c, s
<1> QED BY <1>7, <1>8, <1>9
-----------------------------------------------------------------------------
(***************************************************************************)
(* The walk and the listing.                                               *)
(***************************************************************************)
\* The line of file i.
Entry(i) == [name |-> [file |-> i, at |-> 0], text |-> Rest(i)]

Types ==
  /\ loc \in Nat /\ archive \in Seq(0 .. Weight[Places] - 1)
  /\ headers \in Seq(Nat) /\ caddr \in Seq(Nat)
  /\ listing \in Seq({Entry(i) : i \in 1 .. Len(archive)})

\* The walk has reached the file behind the headers found, and has stored for each of
\* them where its last block that is not full is.
Reached ==
  /\ Len(headers) <= Len(archive) /\ Len(caddr) = Len(headers)
  /\ addr = Start[Len(headers) + 1]
  /\ \A i \in 1 .. Len(headers) :
       headers[i] = Start[i] /\ caddr[i] = Start[i] + Full(archive[i])

\* The listing begins only when the walk has found every file, and follows it.
Printed ==
  /\ pc \in {"tarfs_parse", "list", "overrun", "panic", "init_ide", "smashed"}
  /\ pc \in {"list", "init_ide", "smashed"} =>
       nr_files = Len(archive) /\ Len(headers) = Len(archive)
  /\ pc \in {"tarfs_parse", "overrun", "panic"} => listing = <<>>
  /\ Len(listing) <= Len(archive)
  /\ \A i \in 1 .. Len(listing) : listing[i] = Entry(i)

Ended ==
  /\ pc = "overrun" => Len(archive) > MaxHeaders
  /\ pc = "panic" => End >= Mapped
  /\ pc = "init_ide" => Len(listing) = Len(archive)
  /\ pc = "smashed" => \E i \in 1 .. Len(archive) : archive[i] % Block >= Cbuf

IInv == Types /\ Reached /\ Printed /\ Ended

\* What a step that leaves the archive where it is keeps.
LEMMA Unmoved ==
  ASSUME loc' = loc, archive' = archive
  PROVE  /\ Start' = Start /\ End' = End
         /\ \A i : Entry(i)' = Entry(i)
<1>1. Start' = Start
  BY DEF Start
<1>2. End' = End
  BY <1>1 DEF End
<1>3. ASSUME NEW i PROVE Entry(i)' = Entry(i)
  BY DEF Entry, Rest
<1> QED BY <1>1, <1>2, <1>3

LEMMA SizesHold ==
  ASSUME Types
  PROVE  /\ Sizes
         /\ \A i \in 1 .. Len(archive) : archive[i] \in Nat /\ archive[i] < Weight[Places]
<1>1. Weight[Places] \in Nat
  BY Weights, TarfsAssumption
<1> DEFINE w == Weight[Places]
<1>2. loc \in Nat /\ archive \in Seq(0 .. w - 1)
  BY DEF Types
<1> HIDE DEF w
<1>3. w \in Nat
  BY <1>1 DEF w
<1>4. \A i \in 1 .. Len(archive) : archive[i] \in 0 .. w - 1
  <2> DEFINE D == 0 .. w - 1
  <2>1. archive \in Seq(D)
    BY <1>2
  <2> HIDE DEF D
  <2>2. \A i \in 1 .. Len(archive) : archive[i] \in D
    BY <2>1
  <2> QED BY <2>2 DEF D
<1>5. archive \in Seq(Nat)
  BY <1>2, <1>3
<1> QED BY <1>2, <1>3, <1>4, <1>5 DEF Sizes, w

\* At a position of the walk is a header, and behind the last file there is none.
LEMMA AtPosition ==
  ASSUME Types, Reached
  PROVE  /\ Len(headers) \in Nat /\ Len(archive) \in Nat /\ addr \in Nat
         /\ addr <= End
         /\ Byte(addr) # NUL => Len(headers) + 1 \in 1 .. Len(archive)
         /\ Byte(addr) = NUL => Len(headers) = Len(archive)
<1> DEFINE n == Len(headers)
<1>1. Sizes
  BY SizesHold
<1>2. n \in Nat /\ n <= Len(archive) /\ addr = Start[n + 1] /\ Len(archive) \in Nat
  BY <1>1, Starts DEF Types, Reached
<1> HIDE DEF n
<1>3. n + 1 \in 1 .. Len(archive) + 1 /\ addr \in Nat
  BY <1>1, <1>2, Starts
<1>4. CASE n = Len(archive)
  <2>1. addr = End /\ End \in Nat
    BY <1>1, <1>2, <1>4, EndAfter DEF End
  <2>2. Byte(addr) = NUL
    BY <1>1, <1>3, <2>1, ByteBehind
  <2> QED BY <1>2, <1>3, <1>4, <2>1, <2>2 DEF n
<1>5. CASE n # Len(archive)
  <2>1. n + 1 \in 1 .. Len(archive)
    BY <1>2, <1>5
  <2>2. Byte(addr) # NUL
    BY <1>1, <1>2, <2>1, NameByte
  <2>3. Start[n + 1] < Start[(n + 1) + 1] /\ Start[(n + 1) + 1] <= End /\ End \in Nat
    BY <1>1, <2>1, EndAfter
  <2>4. (n + 1) + 1 \in 1 .. Len(archive) + 1
    BY <1>2, <2>1
  <2>5. Start[(n + 1) + 1] \in Nat
    BY <1>1, <2>4, Starts
  <2>6. addr <= End
    BY <1>2, <1>3, <2>3, <2>5
  <2> QED BY <1>2, <1>3, <2>1, <2>2, <2>6 DEF n
<1> QED BY <1>4, <1>5

LEMMA Starting == Init => IInv
<1> SUFFICES ASSUME Init PROVE IInv
  OBVIOUS
<1>1. Types
  BY TarfsAssumption DEF Init, Types
<1>2. Sizes
  BY <1>1, SizesHold
<1>3. Len(archive) \in Nat /\ Start[1] = loc
  BY <1>2, Starts
<1>4. Reached
  BY <1>3 DEF Init, Reached
<1>5. Printed /\ Ended
  BY <1>3 DEF Init, Printed, Ended
<1> QED BY <1>1, <1>4, <1>5 DEF IInv

LEMMA HeaderStep == IInv /\ Header => IInv'
<1> SUFFICES ASSUME IInv, Header PROVE IInv'
  OBVIOUS
<1> DEFINE i == Len(headers) + 1
           s == archive[i]
<1>1. Types /\ Reached /\ Printed /\ Sizes
  BY SizesHold DEF IInv
<1>2. /\ Len(headers) \in Nat /\ Len(archive) \in Nat /\ addr \in Nat
      /\ i \in 1 .. Len(archive) /\ addr = Start[i]
  BY <1>1, AtPosition DEF Header, Reached
<1>3. s \in Nat /\ s < Weight[Places]
  BY <1>1, <1>2, SizesHold
<1>4. tarfs_getsize(SizeField(addr)) = s
  <2> DEFINE in == SizeField(addr)
  <2>1. in = [j \in 1 .. Places |-> (s \div Weight[Places - j]) % Radix]
    BY <1>1, <1>2, SizeFieldAt
  <2> HIDE DEF in, s
  <2>2. tarfs_getsize(in) = s
    BY <1>3, <2>1, SizeRead
  <2> QED BY <2>2 DEF in
<1>5. /\ caddr' = Append(caddr, addr + Full(s))
      /\ addr' = addr + Full(s) + Padding(s)
      /\ headers' = Append(headers, addr)
      /\ loc' = loc /\ archive' = archive /\ pc' = pc /\ nr_files' = nr_files
      /\ listing' = listing /\ pc = "tarfs_parse"
  BY <1>4 DEF Header, Caddr
<1>6. /\ Start' = Start /\ End' = End
      /\ \A k : Entry(k)' = Entry(k)
  BY <1>5, Unmoved
<1>7. Room(s) = Full(s) + Padding(s) /\ Full(s) \in Nat /\ Room(s) \in Nat
  <2> HIDE DEF s
  <2>1. Block \in Nat
    BY TarfsAssumption
  <2> QED BY <1>3, <2>1, RoomFacts
<1>8. Start[i + 1] = Start[i] + Room(s)
  BY <1>1, <1>2, Starts
<1>9. Padding(s) \in Nat
  BY TarfsAssumption DEF Padding
<1> HIDE DEF s
<1>10. addr + Full(s) \in Nat /\ addr' = Start[i + 1]
  BY <1>2, <1>5, <1>7, <1>8, <1>9, SMTT(30)
<1>11. Types'
  <2>1. headers' \in Seq(Nat) /\ caddr' \in Seq(Nat)
    BY <1>1, <1>2, <1>5, <1>10 DEF Types
  <2>2. loc' \in Nat /\ archive' \in Seq(0 .. Weight[Places] - 1)
    BY <1>1, <1>5 DEF Types
  <2>3. listing' \in Seq({Entry(k)' : k \in 1 .. Len(archive')})
    <3>1. {Entry(k)' : k \in 1 .. Len(archive')} = {Entry(k) : k \in 1 .. Len(archive)}
      BY <1>5, <1>6
    <3> QED BY <1>1, <1>5, <3>1 DEF Types
  <2> QED BY <2>1, <2>2, <2>3 DEF Types
<1>12. Reached'
  <2>1. /\ Len(headers') = i /\ Len(caddr') = i
        /\ \A k \in 1 .. Len(headers) : headers'[k] = headers[k] /\ caddr'[k] = caddr[k]
        /\ headers'[i] = addr /\ caddr'[i] = addr + Full(s)
    BY <1>1, <1>2, <1>5, <1>10 DEF Types, Reached
  <2>2. addr' = Start'[Len(headers') + 1]
    BY <1>6, <1>10, <2>1
  <2>3. ASSUME NEW k \in 1 .. Len(headers')
        PROVE  headers'[k] = Start'[k] /\ caddr'[k] = Start'[k] + Full(archive'[k])
    <3>1. CASE k = i
      BY <1>2, <1>5, <1>6, <2>1, <3>1 DEF s
    <3>2. CASE k # i
      <4>1. k \in 1 .. Len(headers)
        BY <1>2, <2>1, <3>2
      <4> QED BY <1>1, <1>5, <1>6, <2>1, <4>1 DEF Reached
    <3> QED BY <3>1, <3>2
  <2>4. Len(headers') <= Len(archive')
    BY <1>2, <1>5, <2>1
  <2> QED BY <2>1, <2>2, <2>3, <2>4 DEF Reached
<1>13. Printed' /\ Ended'
  <2>1. listing' = <<>> /\ Len(archive) \in Nat
    BY <1>1, <1>2, <1>5 DEF Printed
  <2> QED BY <1>5, <2>1 DEF Printed, Ended
<1> QED BY <1>11, <1>12, <1>13 DEF IInv

\* A step that only moves pc, nr_files or listing.
LEMMA Resting ==
  ASSUME Types, Reached, loc' = loc, archive' = archive, addr' = addr, headers' = headers,
         caddr' = caddr, listing' \in Seq({Entry(i) : i \in 1 .. Len(archive)})
  PROVE  Types' /\ Reached'
<1>1. Start' = Start /\ \A i : Entry(i)' = Entry(i)
  BY Unmoved
<1>2. {Entry(i)' : i \in 1 .. Len(archive')} = {Entry(i) : i \in 1 .. Len(archive)}
  BY <1>1
<1>3. listing' \in Seq({Entry(i)' : i \in 1 .. Len(archive')})
  BY <1>2
<1>4. Types'
  BY <1>3 DEF Types
<1>5. Reached'
  BY <1>1 DEF Reached
<1> QED BY <1>4, <1>5

LEMMA WalkEnds ==
  ASSUME IInv, LastHeader \/ Overrun \/ PageFault
  PROVE  IInv'
<1>1. /\ Types /\ Reached /\ Printed
      /\ loc' = loc /\ archive' = archive /\ addr' = addr /\ headers' = headers
      /\ caddr' = caddr /\ listing' = listing
  BY DEF IInv, LastHeader, Overrun, PageFault
<1>2. listing' \in Seq({Entry(i) : i \in 1 .. Len(archive)})
  BY <1>1 DEF Types
<1>3. Types' /\ Reached'
  BY <1>1, <1>2, Resting
<1>4. Start' = Start /\ End' = End
  BY <1>1, Unmoved
<1>5. listing' = <<>> /\ Len(archive) \in Nat
  BY <1>1, AtPosition DEF Printed, LastHeader, Overrun, PageFault
<1>6. CASE LastHeader
  <2>1. Len(headers) = Len(archive) /\ nr_files' = Len(headers) /\ pc' = "list"
    BY <1>1, <1>6, AtPosition DEF LastHeader
  <2> QED BY <1>1, <1>3, <1>5, <2>1 DEF IInv, Printed, Ended
<1>7. CASE Overrun
  <2>1. Len(archive) > MaxHeaders /\ pc' = "overrun"
    <3>1. /\ Len(headers) + 1 \in 1 .. Len(archive) /\ Len(headers) = MaxHeaders
          /\ Len(headers) \in Nat /\ Len(archive) \in Nat /\ pc' = "overrun"
      BY <1>1, <1>7, AtPosition DEF Overrun
    <3> QED BY <3>1
  <2> QED BY <1>1, <1>3, <1>5, <2>1 DEF IInv, Printed, Ended
<1>8. CASE PageFault
  <2>1. End >= Mapped /\ pc' = "panic"
    <3>1. addr \in Nat /\ addr <= End /\ addr >= Mapped /\ Mapped \in Nat /\ End \in Nat
          /\ pc' = "panic"
      BY <1>1, <1>8, AtPosition, EndAfter, SizesHold, TarfsAssumption DEF PageFault
    <3> QED BY <3>1
  <2> QED BY <1>1, <1>3, <1>4, <1>5, <2>1 DEF IInv, Printed, Ended
<1> QED BY <1>6, <1>7, <1>8

LEMMA ListStep == IInv /\ List => IInv'
<1> SUFFICES ASSUME IInv, List PROVE IInv'
  OBVIOUS
<1> DEFINE i == Len(listing) + 1
<1>1. Types /\ Reached /\ Printed /\ Ended /\ Sizes
  BY SizesHold DEF IInv
<1>2. /\ pc = "list" /\ nr_files = Len(archive) /\ Len(headers) = Len(archive)
      /\ i <= nr_files
      /\ loc' = loc /\ archive' = archive /\ addr' = addr /\ headers' = headers
      /\ caddr' = caddr /\ nr_files' = nr_files
  BY <1>1 DEF List, Printed
<1>3. i \in 1 .. Len(archive) /\ Len(archive) \in Nat /\ Len(listing) \in Nat
  BY <1>1, <1>2, Starts DEF Types
<1>4. Text(caddr[i]) = Rest(i) /\ (Len(Rest(i)) < Cbuf \/ Len(Rest(i)) = archive[i] % Block)
  <2>1. caddr[i] = Start[i] + Full(archive[i])
    BY <1>1, <1>2, <1>3 DEF Reached
  <2> HIDE DEF i
  <2> QED BY <1>1, <1>3, <2>1, TextOfFile
<1>5. Byte(headers[i]) = [file |-> i, at |-> 0]
  <2>1. headers[i] = Start[i]
    BY <1>1, <1>2, <1>3 DEF Reached
  <2> HIDE DEF i
  <2> QED BY <1>1, <1>3, <2>1, NameByte
<1>6. IF Fits(Text(caddr[i]))
        THEN listing' = Append(listing, [name |-> Byte(headers[i]), text |-> Text(caddr[i])])
             /\ pc' = pc
        ELSE pc' = "smashed" /\ listing' = listing
  BY DEF List
<1>7. \A k : Entry(k)' = Entry(k)
  BY <1>2, Unmoved
<1>8. CASE Fits(Text(caddr[i]))
  <2>1. listing' = Append(listing, Entry(i)) /\ pc' = "list"
    BY <1>2, <1>4, <1>5, <1>6, <1>8 DEF Entry
  <2>2. listing' \in Seq({Entry(k) : k \in 1 .. Len(archive)})
    <3> DEFINE E == {Entry(k) : k \in 1 .. Len(archive)}
    <3>1. listing \in Seq(E)
      BY <1>1 DEF Types
    <3>2. Entry(i) \in E
      BY <1>3
    <3> HIDE DEF E, i
    <3>3. listing' \in Seq(E)
      BY <2>1, <3>1, <3>2
    <3> QED BY <3>3 DEF E
  <2>3. Types' /\ Reached'
    BY <1>1, <1>2, <2>2, Resting
  <2>4. /\ Len(listing') = i
        /\ \A k \in 1 .. Len(listing) : listing'[k] = listing[k]
        /\ listing'[i] = Entry(i)
    <3> DEFINE E == {Entry(k) : k \in 1 .. Len(archive)}
    <3>1. listing \in Seq(E)
      BY <1>1 DEF Types
    <3> HIDE DEF E
    <3> QED BY <2>1, <3>1
  <2>5. ASSUME NEW k \in 1 .. Len(listing') PROVE listing'[k] = Entry(k)'
    <3>1. CASE k = i
      BY <1>7, <2>4, <3>1
    <3>2. CASE k # i
      <4>1. k \in 1 .. Len(listing)
        BY <1>3, <2>4, <3>2
      <4> QED BY <1>1, <1>7, <2>4, <4>1 DEF Printed
    <3> QED BY <3>1, <3>2
  <2>6. Printed'
    BY <1>2, <1>3, <2>1, <2>4, <2>5 DEF Printed
  <2>7. Ended'
    BY <2>1 DEF Ended
  <2> QED BY <2>3, <2>6, <2>7 DEF IInv
<1>9. CASE ~ Fits(Text(caddr[i]))
  <2>1. pc' = "smashed" /\ listing' = listing
    BY <1>6, <1>9
  <2>2. listing' \in Seq({Entry(k) : k \in 1 .. Len(archive)})
    BY <1>1, <2>1 DEF Types
  <2>3. Types' /\ Reached'
    BY <1>1, <1>2, <2>2, Resting
  <2>4. archive[i] % Block >= Cbuf
    <3>1. ~ (Len(Rest(i)) < Cbuf)
      BY <1>4, <1>9 DEF Fits
    <3>2. Len(Rest(i)) = archive[i] % Block
      BY <1>4, <3>1
    <3>3. archive[i] % Block \in Nat /\ Cbuf \in Nat
      <4>1. archive[i] \in Nat /\ Block \in Nat \ {0} /\ Cbuf \in Nat
        BY <1>1, <1>3, Starts, TarfsAssumption
      <4> DEFINE s == archive[i]
      <4>2. s \in Nat
        BY <4>1
      <4> HIDE DEF s
      <4>3. s % Block \in Nat
        BY <4>1, <4>2, DivMod
      <4> QED BY <4>1, <4>3 DEF s
    <3> DEFINE r == archive[i] % Block
    <3>4. ~ (r < Cbuf) /\ r \in Nat
      BY <3>1, <3>2, <3>3
    <3> HIDE DEF r
    <3>5. r >= Cbuf
      BY <3>3, <3>4
    <3> QED BY <3>5 DEF r
  <2>5. Printed'
    BY <1>1, <1>2, <1>7, <2>1 DEF Printed
  <2>6. Ended'
    BY <1>2, <1>3, <2>1, <2>4 DEF Ended
  <2> QED BY <2>3, <2>5, <2>6 DEF IInv
<1> QED BY <1>8, <1>9

LEMMA ListEndsStep == IInv /\ ListEnds => IInv'
<1> SUFFICES ASSUME IInv, ListEnds PROVE IInv'
  OBVIOUS
<1>1. /\ Types /\ Reached /\ Printed
      /\ loc' = loc /\ archive' = archive /\ addr' = addr /\ headers' = headers
      /\ caddr' = caddr /\ listing' = listing /\ nr_files' = nr_files
      /\ pc = "list" /\ pc' = "init_ide" /\ Len(listing) = nr_files
  BY DEF IInv, ListEnds
<1>2. listing' \in Seq({Entry(i) : i \in 1 .. Len(archive)})
  BY <1>1 DEF Types
<1>3. Types' /\ Reached'
  BY <1>1, <1>2, Resting
<1>4. \A i : Entry(i)' = Entry(i)
  BY <1>1, Unmoved
<1>5. Printed'
  BY <1>1, <1>4 DEF Printed
<1>6. Ended'
  BY <1>1 DEF Ended, Printed
<1> QED BY <1>3, <1>5, <1>6 DEF IInv

LEMMA Inductive == IInv /\ [Next]_vars => IInv'
<1> SUFFICES ASSUME IInv, [Next]_vars PROVE IInv'
  OBVIOUS
<1>1. CASE Header
  BY <1>1, HeaderStep
<1>2. CASE LastHeader \/ Overrun \/ PageFault
  BY <1>2, WalkEnds
<1>3. CASE List
  BY <1>3, ListStep
<1>4. CASE ListEnds
  BY <1>4, ListEndsStep
<1>5. CASE UNCHANGED vars
  <2>1. /\ Types /\ Reached /\ Printed /\ Ended
        /\ loc' = loc /\ archive' = archive /\ addr' = addr /\ headers' = headers
        /\ caddr' = caddr /\ listing' = listing /\ nr_files' = nr_files /\ pc' = pc
    BY <1>5 DEF IInv, vars
  <2>2. listing' \in Seq({Entry(i) : i \in 1 .. Len(archive)})
    BY <2>1 DEF Types
  <2>3. Types' /\ Reached'
    BY <2>1, <2>2, Resting
  <2>4. End' = End /\ \A i : Entry(i)' = Entry(i)
    BY <2>1, Unmoved
  <2>5. Printed'
    BY <2>1, <2>4 DEF Printed
  <2>6. Ended'
    BY <2>1, <2>4 DEF Ended
  <2> QED BY <2>3, <2>5, <2>6 DEF IInv
<1> QED BY <1>1, <1>2, <1>3, <1>4, <1>5 DEF Next

\* For every archive, wherever it is: the walk finds the headers of its files, each once
\* and in order, and no other block (tarfs_parse, tarfs.c:21-43).
THEOREM WalkedHolds == Spec => []Walked
<1>1. IInv => Walked
  <2> SUFFICES ASSUME IInv PROVE Walked
    OBVIOUS
  <2>1. DOMAIN headers = 1 .. Len(headers)
    BY DEF IInv, Types
  <2> QED BY <2>1 DEF IInv, Reached, Printed, Ended, Walked
<1> QED BY <1>1, Starting, Inductive, PTL DEF Spec

\* For every archive: a line has the name of its file and what lies in the last block of
\* its content that is not full, and cbuf is too short only for such a rest
\* (tarfs_list_headers, tarfs.c:45-58).
THEOREM ListedHolds == Spec => []Listed
<1>1. IInv => Listed
  <2> SUFFICES ASSUME IInv PROVE Listed
    OBVIOUS
  <2>1. DOMAIN listing = 1 .. Len(listing) /\ DOMAIN archive = 1 .. Len(archive)
    BY DEF IInv, Types
  <2> QED BY <2>1 DEF IInv, Printed, Ended, Entry, Listed
<1> QED BY <1>1, Starting, Inductive, PTL DEF Spec
=============================================================================
