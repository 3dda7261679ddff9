--------------------------- MODULE SequenceFacts ---------------------------
(***************************************************************************)
(* Induction over numbers, stated over sets so that the provers can apply  *)
(* it, and what it gives: largest elements, solutions of recursive         *)
(* definitions, those of FlattenSeq and InOrder unfolded; arithmetic of    *)
(* blocks; and what the operations on sequences and queues do.             *)
(***************************************************************************)
EXTENDS Integers, SequencesExt, Listing, SequenceTheorems, WellFoundedInduction, TLAPS

(* A set of naturals has a least element. *)
LEMMA LeastNat ==
    ASSUME NEW T \in SUBSET Nat, T # {}
    PROVE  \E x \in T : \A y \in T : x <= y
  <1>1. PICK R : R = OpToRel(<, Nat)
    OBVIOUS
  <1>2. IsWellFoundedOn(R, Nat)
    BY <1>1, NatLessThanWellFounded
  <1>3. PICK x \in T : \A y \in T : ~(<<y, x>> \in R)
    BY <1>2, WFMin
  <1>4. R = {p \in Nat \X Nat : p[1] < p[2]}
    BY <1>1 DEF OpToRel
  <1>5. \A y \in T : ~(y < x)
    BY <1>3, <1>4
  <1> QED BY <1>5

(* Induction: a set that has 0 and with n also n + 1 has every natural. *)
LEMMA SetInduction ==
    ASSUME NEW S, 0 \in S, \A n \in Nat : n \in S => n + 1 \in S
    PROVE  \A n \in Nat : n \in S
  <1> SUFFICES ASSUME NEW n \in Nat, n \notin S PROVE FALSE
    OBVIOUS
  <1>1. PICK T : T = {k \in Nat : k \notin S}
    OBVIOUS
  <1>2. T \in SUBSET Nat /\ T # {}
    BY <1>1
  <1>3. PICK x \in T : \A y \in T : x <= y
    BY <1>2, LeastNat
  <1>4. x \in Nat /\ x # 0
    BY <1>1, <1>3
  <1>5. x - 1 \in Nat /\ ~(x <= x - 1)
    BY <1>4
  <1>6. x - 1 \in S
    BY <1>1, <1>3, <1>5
  <1>7. (x - 1) + 1 \in S /\ (x - 1) + 1 = x
    BY <1>4, <1>5, <1>6
  <1> QED BY <1>1, <1>3, <1>7

(* A bounded set of naturals has a largest element. *)
LEMMA LargestNat ==
    ASSUME NEW n \in Nat, NEW T \in SUBSET (0 .. n), T # {}
    PROVE  Max(T) \in T /\ \A y \in T : y <= Max(T)
  <1>1. PICK U : U = {n - k : k \in T}
    OBVIOUS
  <1>2. U \in SUBSET Nat /\ U # {}
    <2>1. \A k \in T : n - k \in Nat
      OBVIOUS
    <2> QED BY <1>1, <2>1
  <1>3. PICK u \in U : \A v \in U : u <= v
    BY <1>2, LeastNat
  <1>4. PICK x \in T : u = n - x
    BY <1>1, <1>3
  <1>5. ASSUME NEW y \in T PROVE x >= y
    <2>1. n - y \in U
      BY <1>1
    <2>2. n - x <= n - y
      BY <2>1, <1>3, <1>4
    <2> QED BY <2>2
  <1>6. PICK m : m = Max(T)
    OBVIOUS
  <1>7. m \in T /\ \A y \in T : m >= y
    BY <1>5, <1>6 DEF Max
  <1>8. \A y \in T : y <= m
    BY <1>7
  <1> QED BY <1>6, <1>7, <1>8

(* Min picks it. *)
LEMMA MinNat ==
    ASSUME NEW T \in SUBSET Nat, T # {}
    PROVE  Min(T) \in T /\ \A y \in T : Min(T) <= y
  <1>1. \E x \in T : \A y \in T : x =< y
    BY LeastNat
  <1> QED BY <1>1 DEF Min

(* The least number of a set, if one is known. *)
LEMMA MinIs ==
    ASSUME NEW S \in SUBSET Nat, NEW x \in S, \A y \in S : x <= y
    PROVE  Min(S) = x
  <1>1. PICK z : z = Min(S)
    OBVIOUS
  <1>2. z \in S /\ \A y \in S : z <= y
    BY <1>1 DEF Min
  <1>3. z \in Nat /\ x \in Nat /\ z <= x /\ x <= z
    BY <1>2
  <1>4. z = x
    BY <1>3
  <1> QED BY <1>1, <1>4

(* Row p lies in block p \div b, and a table of n blocks holds the rows    *)
(* below n * b.                                                            *)
LEMMA BlockOf ==
    ASSUME NEW p \in Nat, NEW b \in Nat \ {0}, NEW n \in Nat
    PROVE  /\ p \div b \in Nat /\ p % b \in 0 .. b - 1 /\ (p % b) + 1 \in 1 .. b
           /\ p = (p \div b) * b + (p % b)
           /\ n * b <= p <=> n <= p \div b
           /\ p < n * b <=> p \div b < n
  <1>1. PICK d, m : d = p \div b /\ m = p % b
    OBVIOUS
  <1>2. d \in Nat /\ m \in 0 .. b - 1 /\ p = d * b + m
    BY <1>1
  <1>3. n <= d => n * b <= d * b
    BY <1>2
  <1>4. d < n => (d + 1) * b <= n * b
    BY <1>2
  <1>5. (d + 1) * b = d * b + b /\ d * b \in Nat /\ n * b \in Nat
    BY <1>2
  <1>6. n * b <= p <=> n <= d
    BY <1>2, <1>3, <1>4, <1>5
  <1>7. p < n * b <=> d < n
    BY <1>2, <1>3, <1>4, <1>5
  <1>8. m + 1 \in 1 .. b
    BY <1>2
  <1> QED BY <1>1, <1>2, <1>6, <1>7, <1>8

(* Later rows lie in the same or later blocks. *)
LEMMA BlockOfLater ==
    ASSUME NEW p \in Nat, NEW q \in Nat, NEW b \in Nat \ {0}, p <= q
    PROVE  p \div b <= q \div b
  <1>1. PICK d, e : d = p \div b /\ e = q \div b
    OBVIOUS
  <1>2. d \in Nat /\ e \in Nat /\ d * b <= p
    BY <1>1, BlockOf
  <1>3. d * b <= q
    BY <1>2
  <1>4. d <= q \div b
    BY <1>2, <1>3, BlockOf
  <1> QED BY <1>1, <1>4

-----------------------------------------------------------------------------
(* FlattenSeq *)

(* What its recursive definition says of a function over 1 .. n. *)
Flattens(f, s, n) == f = [i \in 1 .. n |-> IF i = 1 THEN s[i] ELSE f[i - 1] \o s[i]]

(* There is such a function. *)
LEMMA FlattensExists ==
    ASSUME NEW s
    PROVE  \A n \in Nat : \E f : Flattens(f, s, n)
  <1>1. PICK S : S = {n \in Nat : \E f : Flattens(f, s, n)}
    OBVIOUS
  <1>2. 0 \in S
    <2>1. Flattens([i \in 1 .. 0 |-> 0], s, 0)
      BY DEF Flattens
    <2> QED BY <1>1, <2>1
  <1>3. ASSUME NEW n \in Nat, n \in S PROVE n + 1 \in S
    <2>1. PICK f : Flattens(f, s, n)
      BY <1>1, <1>3
    <2>2. PICK g : g = [i \in 1 .. n + 1 |-> IF i <= n THEN f[i]
                                            ELSE IF i = 1 THEN s[i] ELSE f[i - 1] \o s[i]]
      OBVIOUS
    <2>3. ASSUME NEW i \in 1 .. n + 1
          PROVE  g[i] = IF i = 1 THEN s[i] ELSE g[i - 1] \o s[i]
      <3>1. CASE i <= n
        <4>1. i \in 1 .. n /\ (i # 1 => i - 1 \in 1 .. n + 1 /\ i - 1 <= n)
          BY <3>1
        <4>2. g[i] = f[i] /\ (i # 1 => g[i - 1] = f[i - 1])
          BY <4>1, <2>2
        <4>3. f[i] = IF i = 1 THEN s[i] ELSE f[i - 1] \o s[i]
          BY <4>1, <2>1 DEF Flattens
        <4> QED BY <4>2, <4>3
      <3>2. CASE ~(i <= n)
        <4>1. g[i] = IF i = 1 THEN s[i] ELSE f[i - 1] \o s[i]
          BY <2>2, <3>2
        <4>2. i # 1 => i - 1 \in 1 .. n + 1 /\ i - 1 <= n
          OBVIOUS
        <4>3. i # 1 => g[i - 1] = f[i - 1]
          BY <4>2, <2>2
        <4> QED BY <4>1, <4>3
      <3> QED BY <3>1, <3>2
    <2>4. Flattens(g, s, n + 1)
      <3>1. g = [i \in 1 .. n + 1 |-> g[i]]
        BY <2>2
      <3> QED BY <3>1, <2>3 DEF Flattens
    <2> QED BY <1>1, <2>4
  <1>4. \A n \in Nat : n \in S
    BY <1>2, <1>3, SetInduction
  <1> QED BY <1>1, <1>4

Agree(s, t, n) == \A i \in 1 .. n : s[i] = t[i]

(* Two of them agree where both are defined, if the sequences do. *)
LEMMA FlattensAgree ==
    ASSUME NEW s, NEW t, NEW f, NEW g, NEW n \in Nat, NEW m \in Nat, n <= m,
           Flattens(f, s, n), Flattens(g, t, m), Agree(s, t, n)
    PROVE  Agree(f, g, n)
  <1>1. PICK S : S = {i \in Nat : i \in 1 .. n => f[i] = g[i]}
    OBVIOUS
  <1>2. 0 \in S
    BY <1>1
  <1>3. ASSUME NEW i \in Nat, i \in S PROVE i + 1 \in S
    <2> SUFFICES ASSUME i + 1 \in 1 .. n PROVE f[i + 1] = g[i + 1]
      BY <1>1
    <2>1. i + 1 \in 1 .. m /\ (i + 1 # 1 => i \in 1 .. n) /\ (i + 1) - 1 = i
      OBVIOUS
    <2>2. f[i + 1] = IF i + 1 = 1 THEN s[i + 1] ELSE f[i] \o s[i + 1]
      BY <2>1 DEF Flattens
    <2>3. g[i + 1] = IF i + 1 = 1 THEN t[i + 1] ELSE g[i] \o t[i + 1]
      BY <2>1 DEF Flattens
    <2>4. s[i + 1] = t[i + 1] /\ (i + 1 # 1 => f[i] = g[i])
      BY <2>1, <1>1, <1>3 DEF Agree
    <2> QED BY <2>2, <2>3, <2>4
  <1>4. \A i \in Nat : i \in S
    BY <1>2, <1>3, SetInduction
  <1> QED BY <1>1, <1>4 DEF Agree

(* FlattenSeq is the last value of such a function. *)
LEMMA FlattenIs ==
    ASSUME NEW C, NEW s \in Seq(C), s # <<>>
    PROVE  \E f : Flattens(f, s, Len(s)) /\ FlattenSeq(s) = f[Len(s)]
  <1>1. Len(s) \in Nat /\ Len(s) # 0
    OBVIOUS
  <1>2. \E f : Flattens(f, s, Len(s))
    BY <1>1, FlattensExists
  <1>3. PICK f : f = CHOOSE g : g = [i \in 1 .. Len(s) |-> IF i = 1 THEN s[i] ELSE g[i - 1] \o s[i]]
    OBVIOUS
  <1>4. Flattens(f, s, Len(s))
    BY <1>2, <1>3 DEF Flattens
  <1>5. FlattenSeq(s) = f[Len(s)]
    BY <1>1, <1>3 DEF FlattenSeq
  <1> QED BY <1>4, <1>5

(* Flattening nothing gives nothing. *)
LEMMA FlattenEmpty == FlattenSeq(<<>>) = <<>>
  BY DEF FlattenSeq

(* Flattening sequences over D gives a sequence over D. *)
LEMMA FlattenType ==
    ASSUME NEW D, NEW s \in Seq(Seq(D))
    PROVE  FlattenSeq(s) \in Seq(D)
  <1>1. CASE s = <<>>
    <2>1. FlattenSeq(s) = <<>>
      BY <1>1, FlattenEmpty
    <2> QED BY <2>1
  <1>2. CASE s # <<>>
    <2>1. PICK f : Flattens(f, s, Len(s)) /\ FlattenSeq(s) = f[Len(s)]
      BY <1>2, FlattenIs
    <2>2. PICK S : S = {i \in Nat : i \in 1 .. Len(s) => f[i] \in Seq(D)}
      OBVIOUS
    <2>3. 0 \in S
      BY <2>2
    <2>4. ASSUME NEW i \in Nat, i \in S PROVE i + 1 \in S
      <3> SUFFICES ASSUME i + 1 \in 1 .. Len(s) PROVE f[i + 1] \in Seq(D)
        BY <2>2
      <3>1. (i + 1 # 1 => i \in 1 .. Len(s)) /\ (i + 1) - 1 = i /\ s[i + 1] \in Seq(D)
        OBVIOUS
      <3>2. f[i + 1] = IF i + 1 = 1 THEN s[i + 1] ELSE f[i] \o s[i + 1]
        BY <2>1, <3>1 DEF Flattens
      <3>3. i + 1 # 1 => f[i] \in Seq(D)
        BY <3>1, <2>2, <2>4
      <3>4. i + 1 # 1 => f[i] \o s[i + 1] \in Seq(D)
        BY <3>1, <3>3, ConcatProperties
      <3> QED BY <3>1, <3>2, <3>4
    <2>5. \A i \in Nat : i \in S
      BY <2>3, <2>4, SetInduction
    <2>6. Len(s) \in Nat /\ Len(s) \in 1 .. Len(s)
      BY <1>2
    <2> QED BY <2>1, <2>2, <2>5, <2>6
  <1> QED BY <1>1, <1>2

(* One more sequence at the end adds its elements at the end. *)
LEMMA FlattenAppend ==
    ASSUME NEW D, NEW s \in Seq(Seq(D)), NEW x \in Seq(D)
    PROVE  FlattenSeq(Append(s, x)) = FlattenSeq(s) \o x
  <1>1. PICK n, t : n = Len(s) /\ t = Append(s, x)
    OBVIOUS
  <1>2. /\ n \in Nat /\ t \in Seq(Seq(D)) /\ Len(t) = n + 1 /\ t[n + 1] = x
        /\ \A i \in 1 .. n : s[i] = t[i]
    BY <1>1
  <1>3. t # <<>>
    BY <1>2
  <1>4. PICK g : Flattens(g, t, n + 1) /\ FlattenSeq(t) = g[n + 1]
    BY <1>2, <1>3, FlattenIs
  <1>5. g[n + 1] = IF n + 1 = 1 THEN x ELSE g[n] \o x
    <2>1. n + 1 \in 1 .. n + 1 /\ (n + 1) - 1 = n
      BY <1>2
    <2> QED BY <2>1, <1>2, <1>4 DEF Flattens
  <1>6. CASE s = <<>>
    <2>1. FlattenSeq(s) \o x = x
      BY <1>6, FlattenEmpty
    <2>2. n + 1 = 1
      BY <1>1, <1>6
    <2> QED BY <2>1, <2>2, <1>1, <1>4, <1>5
  <1>7. CASE s # <<>>
    <2>1. n # 0 /\ n \in 1 .. n /\ n + 1 # 1 /\ n <= n + 1
      BY <1>1, <1>2, <1>7
    <2>2. PICK f : Flattens(f, s, n) /\ FlattenSeq(s) = f[n]
      BY <1>1, <1>7, FlattenIs
    <2>3. f[n] = g[n]
      <3>1. PICK m \in Nat : m = n + 1
        BY <1>2
      <3>2. n \in Nat /\ n <= m /\ Flattens(f, s, n) /\ Flattens(g, t, m)
        BY <2>1, <2>2, <1>2, <1>4, <3>1
      <3>3. Agree(s, t, n)
        BY <1>2 DEF Agree
      <3>4. Agree(f, g, n)
        BY <3>2, <3>3, FlattensAgree
      <3> QED BY <2>1, <3>4 DEF Agree
    <2> QED BY <2>1, <2>2, <2>3, <1>1, <1>4, <1>5
  <1> QED BY <1>6, <1>7

-----------------------------------------------------------------------------
(* Recursive definitions have a solution *)

(* f is defined by recursion on positions m .. n + 1 of a scan: its value  *)
(* at the end is z, and at i it is h of its value where the scan goes on.  *)
Scans(f, m, n, V, z, h, next) ==
    /\ f \in [m .. n + 1 -> V]
    /\ f[n + 1] = z
    /\ \A i \in m .. n : f[i] = h[<<i, f[next[i]]>>]

(* A recursive definition over a scan that always moves on has a solution. *)
LEMMA ScanExists ==
    ASSUME NEW n \in Nat, NEW V, NEW z \in V, NEW h \in [(1 .. n) \X V -> V], NEW next,
           \A i \in 1 .. n : next[i] \in i + 1 .. n + 1
    PROVE  \E f : Scans(f, 1, n, V, z, h, next)
  <1>1. PICK S : S = {k \in Nat : k <= n => \E f : Scans(f, (n + 1) - k, n, V, z, h, next)}
    OBVIOUS
  <1>2. 0 \in S
    <2>1. PICK f : f = [i \in n + 1 .. n + 1 |-> z]
      OBVIOUS
    <2>2. n + 1 \in n + 1 .. n + 1 /\ (n + 1) - 0 = n + 1 /\ \A i \in n + 1 .. n : FALSE
      OBVIOUS
    <2>3. Scans(f, n + 1, n, V, z, h, next)
      BY <2>1, <2>2 DEF Scans
    <2> QED BY <1>1, <2>2, <2>3
  <1>3. ASSUME NEW k \in Nat, k \in S PROVE k + 1 \in S
    <2> SUFFICES ASSUME k + 1 <= n
                 PROVE  \E f : Scans(f, (n + 1) - (k + 1), n, V, z, h, next)
      BY <1>1
    <2>1. PICK f : Scans(f, (n + 1) - k, n, V, z, h, next)
      BY <1>1, <1>3
    <2>2. PICK m \in Nat : m = n - k
      OBVIOUS
    <2>3. m \in 1 .. n /\ (n + 1) - k = m + 1 /\ (n + 1) - (k + 1) = m
      BY <2>2
    <2>4. /\ f \in [m + 1 .. n + 1 -> V] /\ f[n + 1] = z
          /\ \A i \in m + 1 .. n : f[i] = h[<<i, f[next[i]]>>]
      BY <2>1, <2>3 DEF Scans
    <2>5. /\ next[m] \in m + 1 .. n + 1
          /\ \A i \in m + 1 .. n : next[i] \in m + 1 .. n + 1 /\ i \in m + 1 .. n + 1
      BY <2>3
    <2>6. PICK v : v = h[<<m, f[next[m]]>>]
      OBVIOUS
    <2>7. v \in V
      BY <2>3, <2>4, <2>5, <2>6
    <2>8. PICK g : g = [i \in m .. n + 1 |-> IF i = m THEN v ELSE f[i]]
      OBVIOUS
    <2>9. /\ m .. n + 1 = (m + 1 .. n + 1) \cup {m} /\ m .. n = (m + 1 .. n) \cup {m}
          /\ m \notin m + 1 .. n + 1 /\ n + 1 \in m + 1 .. n + 1
      BY <2>3
    <2>10. g \in [m .. n + 1 -> V] /\ g[m] = v /\ \A i \in m + 1 .. n + 1 : g[i] = f[i]
      BY <2>4, <2>7, <2>8, <2>9
    <2>11. \A i \in m + 1 .. n : g[i] = h[<<i, g[next[i]]>>]
      BY <2>4, <2>5, <2>10
    <2>12. g[m] = h[<<m, g[next[m]]>>]
      BY <2>5, <2>6, <2>10
    <2>13. Scans(g, m, n, V, z, h, next)
      <3>1. g[n + 1] = z
        BY <2>4, <2>9, <2>10
      <3>2. \A i \in m .. n : g[i] = h[<<i, g[next[i]]>>]
        BY <2>9, <2>11, <2>12
      <3> QED BY <2>10, <3>1, <3>2 DEF Scans
    <2> QED BY <2>3, <2>13
  <1>4. \A k \in Nat : k \in S
    BY <1>2, <1>3, SetInduction
  <1>5. n \in S /\ n <= n /\ (n + 1) - n = 1
    BY <1>4
  <1> QED BY <1>1, <1>5

(* f is defined by recursion on 0 .. n: it begins with z and goes on with  *)
(* h.                                                                      *)
Grows(f, n, V, z, h) ==
    /\ f \in [0 .. n -> V]
    /\ f[0] = z
    /\ \A i \in 1 .. n : f[i] = h[<<i, f[i - 1]>>]

(* Primitive recursion has a solution. *)
LEMMA GrowthExists ==
    ASSUME NEW n \in Nat, NEW V, NEW z \in V, NEW h \in [(1 .. n) \X V -> V]
    PROVE  \E f : Grows(f, n, V, z, h)
  <1>1. PICK S : S = {k \in Nat : k <= n => \E f : Grows(f, k, V, z, h)}
    OBVIOUS
  <1>2. 0 \in S
    <2>1. PICK f : f = [i \in 0 .. 0 |-> z]
      OBVIOUS
    <2>2. 0 \in 0 .. 0 /\ \A i \in 1 .. 0 : FALSE
      OBVIOUS
    <2>3. Grows(f, 0, V, z, h)
      BY <2>1, <2>2 DEF Grows
    <2> QED BY <1>1, <2>3
  <1>3. ASSUME NEW k \in Nat, k \in S PROVE k + 1 \in S
    <2> SUFFICES ASSUME k + 1 <= n PROVE \E f : Grows(f, k + 1, V, z, h)
      BY <1>1
    <2>1. PICK f : Grows(f, k, V, z, h)
      BY <1>1, <1>3
    <2>2. /\ f \in [0 .. k -> V] /\ f[0] = z
          /\ \A i \in 1 .. k : f[i] = h[<<i, f[i - 1]>>]
      BY <2>1 DEF Grows
    <2>3. PICK v : v = h[<<k + 1, f[k]>>]
      OBVIOUS
    <2>4. k \in 0 .. k /\ k + 1 \in 1 .. n /\ f[k] \in V /\ v \in V
      BY <2>2, <2>3
    <2>5. PICK g : g = [i \in 0 .. k + 1 |-> IF i = k + 1 THEN v ELSE f[i]]
      OBVIOUS
    <2>6. /\ 0 .. k + 1 = (0 .. k) \cup {k + 1} /\ 1 .. k + 1 = (1 .. k) \cup {k + 1}
          /\ k + 1 \notin 0 .. k /\ (k + 1) - 1 = k /\ 0 \in 0 .. k
          /\ \A i \in 1 .. k : i \in 0 .. k /\ i - 1 \in 0 .. k
      OBVIOUS
    <2>7. g \in [0 .. k + 1 -> V] /\ g[k + 1] = v /\ \A i \in 0 .. k : g[i] = f[i]
      BY <2>2, <2>4, <2>5, <2>6
    <2>8. \A i \in 1 .. k : g[i] = h[<<i, g[i - 1]>>]
      BY <2>2, <2>6, <2>7
    <2>9. g[k + 1] = h[<<k + 1, g[(k + 1) - 1]>>]
      BY <2>3, <2>4, <2>6, <2>7
    <2>10. g[0] = z
      BY <2>2, <2>6, <2>7
    <2>11. \A i \in 1 .. k + 1 : g[i] = h[<<i, g[i - 1]>>]
      BY <2>6, <2>8, <2>9
    <2> QED BY <2>7, <2>10, <2>11 DEF Grows
  <1>4. \A k \in Nat : k \in S
    BY <1>2, <1>3, SetInduction
  <1>5. n \in S /\ n <= n
    BY <1>4
  <1> QED BY <1>1, <1>5

(* What a suffix of a sequence holds. *)
LEMMA SuffixAt ==
    ASSUME NEW S, NEW s \in Seq(S), NEW n \in Nat, NEW i \in DOMAIN SubSeq(s, n + 1, Len(s))
    PROVE  n + i \in n + 1 .. Len(s) /\ SubSeq(s, n + 1, Len(s))[i] = s[n + i]
  <1>1. PICK l, u : l = Len(s) /\ u = SubSeq(s, n + 1, l)
    OBVIOUS
  <1>2. l \in Nat /\ n + 1 \in Int /\ l \in Int /\ \A k \in n + 1 .. l : s[k] \in S
    BY <1>1
  <1>3. /\ u \in Seq(S) /\ Len(u) = IF n + 1 <= l THEN l - (n + 1) + 1 ELSE 0
        /\ \A k \in 1 .. l - (n + 1) + 1 : u[k] = s[(n + 1) + k - 1]
    BY <1>1, <1>2, SubSeqProperties
  <1>4. i \in 1 .. Len(u)
    BY <1>1, <1>3
  <1>5. i \in 1 .. l - (n + 1) + 1 /\ (n + 1) + i - 1 = n + i /\ n + i \in n + 1 .. l
    <2>1. PICK m : m = Len(u)
      OBVIOUS
    <2>2. m = (IF n + 1 <= l THEN l - (n + 1) + 1 ELSE 0) /\ i \in 1 .. m
      BY <1>3, <1>4, <2>1
    <2> QED BY <1>2, <2>2
  <1> QED BY <1>1, <1>3, <1>5

(* Where the elements of a concatenation are. *)
LEMMA ConcatAt ==
    ASSUME NEW S, NEW x \in Seq(S), NEW y \in Seq(S)
    PROVE  /\ x \o y \in Seq(S) /\ Len(x \o y) = Len(x) + Len(y)
           /\ \A j \in 1 .. Len(x) : (x \o y)[j] = x[j]
           /\ \A k \in 1 .. Len(y) : (x \o y)[Len(x) + k] = y[k]
  OBVIOUS

Regroups(s, t, u) == (s \o t) \o u = s \o (t \o u)

(* Concatenation is associative. *)
LEMMA Regroup ==
    ASSUME NEW D, NEW s \in Seq(D), NEW t \in Seq(D), NEW u \in Seq(D)
    PROVE  Regroups(s, t, u)
  BY ConcatAssociative DEF Regroups

(* A part of a sequence, by what is in it. *)
LEMMA PartIs ==
    ASSUME NEW M, NEW q \in Seq(M), NEW V, NEW b \in Seq(V), NEW s \in Nat,
           s + Len(b) <= Len(q), \A j \in 1 .. Len(b) : q[s + j] = b[j]
    PROVE  SubSeq(q, s + 1, s + Len(b)) = b
  <1>1. PICK n, u : n = Len(b) /\ u = SubSeq(q, s + 1, s + n)
    OBVIOUS
  <1>2. n \in Nat /\ Len(q) \in Nat
    BY <1>1
  <1>3. u = [j \in 1 .. n |-> q[s + j]]
    <2>1. (s + n) - (s + 1) + 1 = n /\ \A j \in 1 .. n : (s + 1) + j - 1 = s + j
      BY <1>2
    <2>2. u = [j \in 1 .. (s + n) - (s + 1) + 1 |-> q[(s + 1) + j - 1]]
      BY <1>1, <1>2
    <2> QED BY <2>1, <2>2
  <1>4. b = [j \in 1 .. n |-> b[j]]
    BY <1>1
  <1> QED BY <1>1, <1>3, <1>4

(* A function on 1 .. n is a sequence of length n over what it yields. *)
LEMMA MapIsSeq ==
    ASSUME NEW S, NEW n \in Nat, NEW t, t = [i \in 1 .. n |-> t[i]],
           \A i \in 1 .. n : t[i] \in S
    PROVE  t \in Seq(S) /\ Len(t) = n
  <1>1. t \in [1 .. n -> S]
    OBVIOUS
  <1> QED BY <1>1

IsMap(t, n) == t = [i \in 1 .. n |-> t[i]]

(* A function on 1 .. n + 1 is that on 1 .. n and one value more. *)
LEMMA MapGrows ==
    ASSUME NEW S, NEW n \in Nat, NEW s \in Seq(S), Len(s) = n,
           NEW t, IsMap(t, n + 1), NEW x \in S, t[n + 1] = x, Agree(s, t, n)
    PROVE  t = Append(s, x)
  <1>1. PICK u : u = Append(s, x)
    OBVIOUS
  <1>2. /\ u \in Seq(S) /\ Len(u) = n + 1 /\ u[n + 1] = x
        /\ \A i \in 1 .. n : u[i] = s[i]
    BY <1>1
  <1>3. \A i \in 1 .. n + 1 : t[i] \in S /\ t[i] = u[i]
    <2>1. \A i \in 1 .. n + 1 : i = n + 1 \/ i \in 1 .. n
      OBVIOUS
    <2>2. \A i \in 1 .. n : s[i] \in S
      OBVIOUS
    <2> QED BY <1>2, <2>1, <2>2 DEF Agree
  <1>4. t \in Seq(S) /\ Len(t) = n + 1
    <2>1. n + 1 \in Nat /\ t = [i \in 1 .. n + 1 |-> t[i]]
      BY DEF IsMap
    <2> QED BY <1>3, <2>1, MapIsSeq
  <1>5. t = u
    BY <1>2, <1>3, <1>4, SeqEqual
  <1> QED BY <1>1, <1>5

(* A sequence of texts, flattened, is a text. *)
LEMMA FlatText ==
    ASSUME NEW W, NEW n \in Nat, NEW t, IsMap(t, n), \A i \in 1 .. n : t[i] \in Seq(W)
    PROVE  t \in Seq(Seq(W)) /\ Len(t) = n /\ FlattenSeq(t) \in Seq(W)
  <1>1. PICK S : S = Seq(W)
    OBVIOUS
  <1>2. t \in Seq(S) /\ Len(t) = n
    <2>1. t = [i \in 1 .. n |-> t[i]]
      BY DEF IsMap
    <2>2. \A i \in 1 .. n : t[i] \in S
      BY <1>1
    <2> QED BY <2>1, <2>2, MapIsSeq
  <1> QED BY <1>1, <1>2, FlattenType

-----------------------------------------------------------------------------
(* Queues: what the operations on them add and remove, and that nothing is *)
(* in a queue twice.                                                       *)

Distinct(s) == \A i, j \in DOMAIN s : s[i] = s[j] => i = j

(* Erasing position i of a queue keeps the others, in order. *)
LEMMA RemoveAtProperties ==
    ASSUME NEW S, NEW s \in Seq(S), NEW i \in 1 .. Len(s)
    PROVE  /\ RemoveAt(s, i) \in Seq(S)
           /\ Len(RemoveAt(s, i)) = Len(s) - 1
           /\ \A j \in 1 .. Len(s) - 1 :
                 RemoveAt(s, i)[j] = IF j < i THEN s[j] ELSE s[j + 1]
  <1> DEFINE a == SubSeq(s, 1, i - 1)
             c == SubSeq(s, i + 1, Len(s))
  <1>1. /\ a \in Seq(S) /\ Len(a) = i - 1
        /\ \A j \in 1 .. i - 1 : a[j] = s[j]
    OBVIOUS
  <1>2. /\ c \in Seq(S) /\ Len(c) = Len(s) - i
        /\ \A j \in 1 .. Len(s) - i : c[j] = s[i + j]
    OBVIOUS
  <1>3. RemoveAt(s, i) = a \o c
    BY DEF RemoveAt
  <1> HIDE DEF a, c
  <1>4. PICK d : d = a \o c
    OBVIOUS
  <1>5. /\ d \in Seq(S) /\ Len(d) = Len(a) + Len(c)
        /\ \A j \in 1 .. Len(a) + Len(c) : d[j] = IF j <= Len(a) THEN a[j] ELSE c[j - Len(a)]
    BY <1>1, <1>2, <1>4, ConcatProperties
  <1>6. Len(d) = Len(s) - 1
    BY <1>1, <1>2, <1>5
  <1>7. ASSUME NEW j \in 1 .. Len(s) - 1
        PROVE  d[j] = IF j < i THEN s[j] ELSE s[j + 1]
    <2>1. d[j] = IF j <= i - 1 THEN a[j] ELSE c[j - (i - 1)]
      BY <1>1, <1>2, <1>5
    <2>2. CASE j < i
      BY <2>1, <2>2, <1>1
    <2>3. CASE j >= i
      <3>1. j - (i - 1) \in 1 .. Len(s) - i
        BY <2>3
      <3>2. c[j - (i - 1)] = s[i + (j - (i - 1))]
        BY <3>1, <1>2
      <3> QED BY <3>2, <2>1, <2>3
    <2> QED BY <2>2, <2>3
  <1> QED BY <1>3, <1>4, <1>5, <1>6, <1>7

(* push_back *)
LEMMA AppendQueue ==
    ASSUME NEW S, NEW s \in Seq(S), NEW x \in S
    PROVE  /\ Append(s, x) \in Seq(S)
           /\ Len(Append(s, x)) = Len(s) + 1
           /\ ToSet(Append(s, x)) = ToSet(s) \cup {x}
           /\ Distinct(s) /\ x \notin ToSet(s) => Distinct(Append(s, x))
  <1>1. PICK t : t = Append(s, x)
    OBVIOUS
  <1>2. /\ t \in Seq(S) /\ Len(t) = Len(s) + 1 /\ Len(s) \in Nat
        /\ DOMAIN t = 1 .. Len(s) + 1 /\ DOMAIN s = 1 .. Len(s)
        /\ \A i \in 1 .. Len(s) : t[i] = s[i]
        /\ t[Len(s) + 1] = x
    BY <1>1
  <1>3. ToSet(t) = ToSet(s) \cup {x}
    BY <1>2 DEF ToSet
  <1>4. ASSUME Distinct(s), x \notin ToSet(s) PROVE Distinct(t)
    BY <1>2, <1>4 DEF ToSet, Distinct
  <1> QED BY <1>1, <1>2, <1>3, <1>4

(* pop_front *)
LEMMA TailQueue ==
    ASSUME NEW S, NEW s \in Seq(S), s # <<>>
    PROVE  /\ Head(s) \in S /\ Head(s) \in ToSet(s)
           /\ Tail(s) \in Seq(S) /\ Len(Tail(s)) = Len(s) - 1
           /\ ToSet(Tail(s)) \subseteq ToSet(s)
           /\ Distinct(s) => /\ Distinct(Tail(s))
                             /\ ToSet(Tail(s)) = ToSet(s) \ {Head(s)}
  <1>1. PICK t : t = Tail(s)
    OBVIOUS
  <1>2. /\ Head(s) \in S /\ Head(s) = s[1] /\ Len(s) \in Nat /\ Len(s) > 0
        /\ t \in Seq(S) /\ Len(t) = Len(s) - 1
        /\ DOMAIN t = 1 .. Len(s) - 1 /\ DOMAIN s = 1 .. Len(s)
        /\ \A i \in 1 .. Len(s) - 1 : t[i] = s[i + 1]
    BY <1>1
  <1>3. Head(s) \in ToSet(s) /\ ToSet(t) \subseteq ToSet(s)
    BY <1>2 DEF ToSet
  <1>4. ASSUME Distinct(s) PROVE Distinct(t) /\ ToSet(t) = ToSet(s) \ {Head(s)}
    <2>1. Distinct(t)
      <3>1. ASSUME NEW i \in 1 .. Len(s) - 1, NEW j \in 1 .. Len(s) - 1, t[i] = t[j]
            PROVE  i = j
        <4>1. s[i + 1] = s[j + 1] /\ i + 1 \in DOMAIN s /\ j + 1 \in DOMAIN s
          BY <3>1, <1>2
        <4>2. i + 1 = j + 1
          BY <4>1, <1>4 DEF Distinct
        <4> QED BY <4>2
      <3> QED BY <3>1, <1>2 DEF Distinct
    <2>2. Head(s) \notin ToSet(t)
      <3>1. ASSUME NEW i \in 1 .. Len(s) - 1, t[i] = s[1] PROVE FALSE
        <4>1. s[i + 1] = s[1] /\ i + 1 \in DOMAIN s /\ 1 \in DOMAIN s /\ i + 1 # 1
          BY <3>1, <1>2
        <4> QED BY <4>1, <1>4 DEF Distinct
      <3> QED BY <3>1, <1>2 DEF ToSet
    <2>3. ASSUME NEW x \in ToSet(s), x # Head(s) PROVE x \in ToSet(t)
      <3>1. PICK i \in 1 .. Len(s) : s[i] = x
        BY <1>2 DEF ToSet
      <3>2. i - 1 \in 1 .. Len(s) - 1 /\ t[i - 1] = x
        BY <3>1, <2>3, <1>2
      <3> QED BY <3>2, <1>2 DEF ToSet
    <2> QED BY <2>1, <2>2, <2>3, <1>3
  <1> QED BY <1>1, <1>2, <1>3, <1>4

(* erase at a position *)
LEMMA EraseQueue ==
    ASSUME NEW S, NEW s \in Seq(S), NEW i \in 1 .. Len(s), Distinct(s)
    PROVE  /\ s[i] \in S /\ s[i] \in ToSet(s)
           /\ RemoveAt(s, i) \in Seq(S) /\ Len(RemoveAt(s, i)) = Len(s) - 1
           /\ Distinct(RemoveAt(s, i))
           /\ ToSet(RemoveAt(s, i)) = ToSet(s) \ {s[i]}
  <1>1. PICK t : t = RemoveAt(s, i)
    OBVIOUS
  <1>2. /\ t \in Seq(S) /\ Len(t) = Len(s) - 1
        /\ \A j \in 1 .. Len(s) - 1 : t[j] = IF j < i THEN s[j] ELSE s[j + 1]
    BY <1>1, RemoveAtProperties
  <1>3. /\ DOMAIN t = 1 .. Len(s) - 1 /\ DOMAIN s = 1 .. Len(s) /\ Len(s) \in Nat
        /\ s[i] \in S /\ s[i] \in ToSet(s)
    BY <1>2 DEF ToSet
  <1>4. Distinct(t)
    <2>1. ASSUME NEW j \in 1 .. Len(s) - 1, NEW k \in 1 .. Len(s) - 1, t[j] = t[k]
          PROVE  j = k
      <3>1. t[j] = (IF j < i THEN s[j] ELSE s[j + 1]) /\ t[k] = (IF k < i THEN s[k] ELSE s[k + 1])
        BY <1>2
      <3>2. CASE j < i /\ k < i
        BY <3>1, <3>2, <2>1, <1>3 DEF Distinct
      <3>3. CASE j < i /\ ~(k < i)
        BY <3>1, <3>3, <2>1, <1>3 DEF Distinct
      <3>4. CASE ~(j < i) /\ k < i
        BY <3>1, <3>4, <2>1, <1>3 DEF Distinct
      <3>5. CASE ~(j < i) /\ ~(k < i)
        BY <3>1, <3>5, <2>1, <1>3 DEF Distinct
      <3> QED BY <3>2, <3>3, <3>4, <3>5
    <2> QED BY <2>1, <1>3 DEF Distinct
  <1>5. ToSet(t) \subseteq ToSet(s) \ {s[i]}
    <2>1. ASSUME NEW j \in 1 .. Len(s) - 1 PROVE t[j] \in ToSet(s) \ {s[i]}
      <3>1. PICK k \in 1 .. Len(s) : k # i /\ t[j] = s[k]
        <4>1. CASE j < i
          BY <4>1, <1>2, <1>3
        <4>2. CASE ~(j < i)
          <5>1. j + 1 \in 1 .. Len(s) /\ j + 1 # i /\ t[j] = s[j + 1]
            BY <4>2, <1>2, <1>3
          <5> QED BY <5>1
        <4> QED BY <4>1, <4>2
      <3> QED BY <3>1, <1>3 DEF Distinct, ToSet
    <2> QED BY <2>1, <1>3 DEF ToSet
  <1>6. ASSUME NEW x \in ToSet(s), x # s[i] PROVE x \in ToSet(t)
    <2>1. PICK k \in 1 .. Len(s) : s[k] = x
      BY <1>3 DEF ToSet
    <2>2. CASE k < i
      <3>1. k \in 1 .. Len(s) - 1 /\ t[k] = x
        BY <2>1, <2>2, <1>2, <1>3
      <3> QED BY <3>1, <1>3 DEF ToSet
    <2>3. CASE k > i
      <3>1. k - 1 \in 1 .. Len(s) - 1 /\ t[k - 1] = x
        BY <2>1, <2>3, <1>2, <1>3
      <3> QED BY <3>1, <1>3 DEF ToSet
    <2> QED BY <2>1, <2>2, <2>3, <1>6
  <1> QED BY <1>1, <1>2, <1>3, <1>4, <1>5, <1>6

(* push_front *)
LEMMA PushFrontQueue ==
    ASSUME NEW S, NEW s \in Seq(S), NEW x \in S
    PROVE  /\ <<x>> \o s \in Seq(S)
           /\ Len(<<x>> \o s) = Len(s) + 1
           /\ ToSet(<<x>> \o s) = ToSet(s) \cup {x}
           /\ Distinct(s) /\ x \notin ToSet(s) => Distinct(<<x>> \o s)
  <1>1. PICK t : t = <<x>> \o s
    OBVIOUS
  <1>2. /\ t \in Seq(S) /\ Len(t) = Len(s) + 1 /\ Len(s) \in Nat
        /\ DOMAIN t = 1 .. Len(s) + 1 /\ DOMAIN s = 1 .. Len(s)
        /\ t[1] = x
        /\ \A i \in 2 .. Len(s) + 1 : t[i] = s[i - 1]
    BY <1>1
  <1>3. ToSet(t) = ToSet(s) \cup {x}
    <2>1. ASSUME NEW i \in 1 .. Len(s) PROVE i + 1 \in DOMAIN t /\ t[i + 1] = s[i]
      BY <1>2
    <2>2. 1 \in DOMAIN t
      BY <1>2
    <2>3. ASSUME NEW i \in DOMAIN t PROVE t[i] = x \/ (i - 1 \in DOMAIN s /\ t[i] = s[i - 1])
      BY <1>2
    <2>4. ToSet(t) \subseteq ToSet(s) \cup {x}
      BY <2>3 DEF ToSet
    <2>5. x \in ToSet(t)
      BY <2>2, <1>2 DEF ToSet
    <2>6. ASSUME NEW y \in ToSet(s) PROVE y \in ToSet(t)
      <3>1. PICK i \in 1 .. Len(s) : s[i] = y
        BY <1>2 DEF ToSet
      <3> QED BY <3>1, <2>1 DEF ToSet
    <2> QED BY <2>4, <2>5, <2>6
  <1>4. ASSUME Distinct(s), x \notin ToSet(s) PROVE Distinct(t)
    <2>1. \A i \in 2 .. Len(s) + 1 : t[i] # x
      BY <1>2, <1>4 DEF ToSet
    <2>2. ASSUME NEW i \in 2 .. Len(s) + 1, NEW j \in 2 .. Len(s) + 1, t[i] = t[j]
          PROVE  i = j
      <3>1. i - 1 \in DOMAIN s /\ j - 1 \in DOMAIN s /\ s[i - 1] = s[j - 1]
        BY <2>2, <1>2
      <3>2. i - 1 = j - 1
        BY <3>1, <1>4 DEF Distinct
      <3> QED BY <3>2, <1>2
    <2> QED BY <2>1, <2>2, <1>2 DEF Distinct
  <1> QED BY <1>1, <1>2, <1>3, <1>4

(* erase of what is looked for, if it is there *)
LEMMA RemoveFirstQueue ==
    ASSUME NEW S, NEW s \in Seq(S), NEW x, Distinct(s)
    PROVE  /\ RemoveFirst(s, x) \in Seq(S)
           /\ Len(RemoveFirst(s, x)) <= Len(s)
           /\ Distinct(RemoveFirst(s, x))
           /\ ToSet(RemoveFirst(s, x)) = ToSet(s) \ {x}
  <1>1. Len(s) \in Nat /\ DOMAIN s = 1 .. Len(s)
    OBVIOUS
  <1>2. CASE \E i \in 1 .. Len(s) : s[i] = x
    <2>1. PICK k \in 1 .. Len(s) : s[k] = x
      BY <1>2
    <2>2. {i \in 1 .. Len(s) : s[i] = x} = {k}
      BY <2>1, <1>1 DEF Distinct
    <2>3. Min({k}) = k
      BY DEF Min
    <2>4. RemoveFirst(s, x) = RemoveAt(s, k)
      BY <2>2, <2>3, <1>2 DEF RemoveFirst, SelectInSeq
    <2> QED BY <2>1, <2>4, <1>1, EraseQueue
  <1>3. CASE ~\E i \in 1 .. Len(s) : s[i] = x
    <2>1. RemoveFirst(s, x) = s
      BY <1>3 DEF RemoveFirst
    <2> QED BY <2>1, <1>1, <1>3 DEF ToSet
  <1> QED BY <1>2, <1>3

(* Moving position i to the front is a permutation. *)
LEMMA MoveToFront ==
    ASSUME NEW S, NEW s \in Seq(S), NEW i \in 1 .. Len(s)
    PROVE  LET m == <<s[i]>> \o RemoveAt(s, i)
           IN  /\ m \in Seq(S) /\ Len(m) = Len(s) /\ m[1] = s[i]
               /\ \A j \in 1 .. Len(s) : j # 1 => m[j] = IF j <= i THEN s[j - 1] ELSE s[j]
  <1>1. PICK r, n : r = RemoveAt(s, i) /\ n = Len(s)
    OBVIOUS
  <1>2. /\ n \in Nat /\ r \in Seq(S) /\ Len(r) = n - 1
        /\ \A j \in 1 .. n - 1 : r[j] = IF j < i THEN s[j] ELSE s[j + 1]
    BY <1>1, RemoveAtProperties
  <1>3. PICK m, x : x = s[i] /\ m = <<x>> \o r
    OBVIOUS
  <1>4. /\ x \in S /\ m \in Seq(S) /\ Len(m) = (n - 1) + 1 /\ m[1] = x
        /\ \A j \in 2 .. (n - 1) + 1 : m[j] = r[j - 1]
    BY <1>1, <1>2, <1>3
  <1>5. (n - 1) + 1 = n
    BY <1>2
  <1>6. ASSUME NEW j \in 1 .. n, j # 1 PROVE m[j] = IF j <= i THEN s[j - 1] ELSE s[j]
    <2>1. j \in 2 .. n /\ j - 1 \in 1 .. n - 1 /\ (j - 1) + 1 = j /\ (j - 1 < i <=> j <= i)
      BY <1>1, <1>2, <1>6
    <2> QED BY <2>1, <1>2, <1>4, <1>5
  <1> QED BY <1>1, <1>3, <1>4, <1>5, <1>6

-----------------------------------------------------------------------------
(* InOrder *)

(* What its recursive definition says of a function over 0 .. n. *)
Collects(f, S, n) ==
    f = [r \in 0 .. n |-> IF r = 0 THEN <<>>
                          ELSE IF r \in S THEN Append(f[r - 1], r) ELSE f[r - 1]]

(* There is such a function. *)
LEMMA CollectsExists ==
    ASSUME NEW S, NEW n \in Nat
    PROVE  \E f : Collects(f, S, n)
  <1> DEFINE V == Seq(Nat)
             h == [x \in (1 .. n) \X V |-> IF x[1] \in S THEN Append(x[2], x[1]) ELSE x[2]]
  <1>1. \A r \in 1 .. n : \A v \in V : Append(v, r) \in V
    OBVIOUS
  <1>2. h \in [(1 .. n) \X V -> V]
    <2>1. ASSUME NEW x \in (1 .. n) \X V
          PROVE  (IF x[1] \in S THEN Append(x[2], x[1]) ELSE x[2]) \in V
      <3>1. x[1] \in 1 .. n /\ x[2] \in V
        OBVIOUS
      <3> QED BY <3>1, <1>1
    <2> QED BY <2>1
  <1>3. <<>> \in V
    OBVIOUS
  <1>4. \A r \in 1 .. n : \A v \in V : h[<<r, v>>] = IF r \in S THEN Append(v, r) ELSE v
    OBVIOUS
  <1> HIDE DEF V, h
  <1>5. PICK g : Grows(g, n, V, <<>>, h)
    BY <1>2, <1>3, GrowthExists
  <1>6. ASSUME NEW r \in 0 .. n
        PROVE  g[r] = IF r = 0 THEN <<>> ELSE IF r \in S THEN Append(g[r - 1], r) ELSE g[r - 1]
    <2>1. CASE r = 0
      BY <2>1, <1>5 DEF Grows
    <2>2. CASE r # 0
      <3>1. r \in 1 .. n /\ r - 1 \in 0 .. n
        BY <2>2
      <3>2. g[r] = h[<<r, g[r - 1]>>] /\ g[r - 1] \in V
        BY <3>1, <1>5 DEF Grows
      <3>3. g[r] = IF r \in S THEN Append(g[r - 1], r) ELSE g[r - 1]
        BY <3>1, <3>2, <1>4
      <3> QED BY <3>3, <2>2
    <2> QED BY <2>1, <2>2
  <1>7. g = [r \in 0 .. n |-> g[r]]
    BY <1>5 DEF Grows
  <1>8. Collects(g, S, n)
    BY <1>6, <1>7 DEF Collects
  <1> QED BY <1>8

(* InOrder is its last value. *)
LEMMA InOrderIs ==
    ASSUME NEW S, NEW n \in Nat
    PROVE  \E f : Collects(f, S, n) /\ InOrder(S, n) = f[n]
  <1> DEFINE c == CHOOSE f : Collects(f, S, n)
  <1>1. Collects(c, S, n)
    BY CollectsExists
  <1>2. InOrder(S, n) = c[n]
    BY DEF InOrder, Collects
  <1> QED BY <1>1, <1>2

(* One step of the loop. *)
LEMMA InOrderStep ==
    ASSUME NEW S, NEW n \in Nat
    PROVE  /\ InOrder(S, 0) = <<>>
           /\ InOrder(S, n + 1) = IF n + 1 \in S THEN Append(InOrder(S, n), n + 1) ELSE InOrder(S, n)
  <1>1. PICK z : Collects(z, S, 0) /\ InOrder(S, 0) = z[0]
    BY InOrderIs
  <1>2. z[0] = <<>>
    BY <1>1 DEF Collects
  <1>3. PICK f : Collects(f, S, n) /\ InOrder(S, n) = f[n]
    BY InOrderIs
  <1>4. PICK g : Collects(g, S, n + 1) /\ InOrder(S, n + 1) = g[n + 1]
    BY InOrderIs
  <1>5. \A r \in 0 .. n : f[r] = IF r = 0 THEN <<>>
                                 ELSE IF r \in S THEN Append(f[r - 1], r) ELSE f[r - 1]
    BY <1>3 DEF Collects
  <1>6. \A r \in 0 .. n + 1 : g[r] = IF r = 0 THEN <<>>
                                     ELSE IF r \in S THEN Append(g[r - 1], r) ELSE g[r - 1]
    BY <1>4 DEF Collects
  <1>7. PICK T : T = {r \in Nat : r <= n => f[r] = g[r]}
    OBVIOUS
  <1>8. 0 \in T
    BY <1>5, <1>6, <1>7
  <1>9. ASSUME NEW r \in Nat, r \in T PROVE r + 1 \in T
    <2> SUFFICES ASSUME r + 1 <= n PROVE f[r + 1] = g[r + 1]
      BY <1>7
    <2>1. r + 1 \in 0 .. n /\ r + 1 \in 0 .. n + 1 /\ r + 1 # 0 /\ (r + 1) - 1 = r /\ r <= n
      OBVIOUS
    <2>2. f[r] = g[r]
      BY <2>1, <1>7, <1>9
    <2>3. f[r + 1] = IF r + 1 \in S THEN Append(f[r], r + 1) ELSE f[r]
      BY <2>1, <1>5
    <2>4. g[r + 1] = IF r + 1 \in S THEN Append(g[r], r + 1) ELSE g[r]
      BY <2>1, <1>6
    <2> QED BY <2>2, <2>3, <2>4
  <1>10. n \in T
    <2>1. \A r \in Nat : r \in T
      BY <1>8, <1>9, SetInduction
    <2> QED BY <2>1
  <1>11. f[n] = g[n]
    BY <1>7, <1>10
  <1>12. n + 1 \in 0 .. n + 1 /\ n + 1 # 0 /\ (n + 1) - 1 = n
    OBVIOUS
  <1>13. g[n + 1] = IF n + 1 \in S THEN Append(g[n], n + 1) ELSE g[n]
    BY <1>6, <1>12
  <1> QED BY <1>1, <1>2, <1>3, <1>4, <1>11, <1>13

(* InOrder yields numbers. *)
LEMMA InOrderType ==
    ASSUME NEW S, NEW n \in Nat
    PROVE  InOrder(S, n) \in Seq(Nat)
  <1>1. PICK T : T = {r \in Nat : InOrder(S, r) \in Seq(Nat)}
    OBVIOUS
  <1>2. 0 \in T
    <2>1. InOrder(S, 0) = <<>>
      BY InOrderStep
    <2>2. InOrder(S, 0) \in Seq(Nat)
      <3>1. <<>> \in Seq(Nat)
        OBVIOUS
      <3> QED BY <2>1, <3>1, Zenon
    <2> QED BY <2>2, <1>1
  <1>3. ASSUME NEW r \in Nat, r \in T PROVE r + 1 \in T
    <2>1. InOrder(S, r) \in Seq(Nat)
      BY <1>1, <1>3
    <2>2. InOrder(S, r + 1) = IF r + 1 \in S THEN Append(InOrder(S, r), r + 1) ELSE InOrder(S, r)
      BY InOrderStep
    <2>3. PICK q, x : q = InOrder(S, r) /\ x = r + 1
      OBVIOUS
    <2>4. q \in Seq(Nat) /\ Append(q, x) \in Seq(Nat)
      BY <2>1, <2>3
    <2>5. InOrder(S, r + 1) \in Seq(Nat)
      BY <2>2, <2>3, <2>4
    <2> QED BY <2>5, <1>1
  <1>4. \A r \in Nat : r \in T
    BY <1>2, <1>3, SetInduction
  <1> QED BY <1>1, <1>4

(* Each entry is larger than those before it. *)
Rising(q) == \A i, j \in DOMAIN q : i < j => q[i] < q[j]

(* q lists the members of S, each once and in ascending order. *)
Lists(q, S, n) ==
    q \in Seq(1 .. n) /\ Distinct(q) /\ Rising(q) /\ ToSet(q) = S /\ Len(q) <= n

(* InOrder does. *)
LEMMA InOrderLists ==
    ASSUME NEW n \in Nat, NEW S \in SUBSET (1 .. n)
    PROVE  Lists(InOrder(S, n), S, n)
  <1>1. \A i \in S : i \in Nat /\ 1 <= i /\ i <= n
    <2>1. \A i \in S : i \in 1 .. n
      OBVIOUS
    <2> QED BY <2>1
  <1> DEFINE Good(r) == /\ InOrder(S, r) \in Seq(1 .. n) /\ Distinct(InOrder(S, r))
                        /\ Rising(InOrder(S, r))
                        /\ ToSet(InOrder(S, r)) = {i \in S : i <= r} /\ Len(InOrder(S, r)) <= r
  <1>2. PICK T : T = {r \in Nat : r <= n => Good(r)}
    OBVIOUS
  <1>3. 0 \in T
    <2>1. InOrder(S, 0) = <<>>
      BY InOrderStep
    <2>2. <<>> \in Seq(1 .. n) /\ Distinct(<<>>) /\ Rising(<<>>) /\ ToSet(<<>>) = {} /\ Len(<<>>) = 0
      BY DEF Distinct, Rising, ToSet
    <2>3. {i \in S : i <= 0} = {}
      <3>1. \A i \in S : ~(i <= 0)
        BY <1>1
      <3> QED BY <3>1
    <2>4. InOrder(S, 0) \in Seq(1 .. n) /\ Distinct(InOrder(S, 0)) /\ Rising(InOrder(S, 0))
      BY <2>1, <2>2
    <2>5. ToSet(InOrder(S, 0)) = {i \in S : i <= 0} /\ Len(InOrder(S, 0)) = 0
      BY <2>1, <2>2, <2>3, Zenon
    <2>6. Good(0)
      BY <2>4, <2>5
    <2> QED BY <2>6, <1>2
  <1>4. ASSUME NEW r \in Nat, r \in T PROVE r + 1 \in T
    <2> SUFFICES ASSUME r + 1 <= n PROVE Good(r + 1)
      BY <1>2
    <2>1. r <= n /\ r + 1 \in 1 .. n
      OBVIOUS
    <2>2. Good(r)
      BY <2>1, <1>2, <1>4
    <2>3. PICK s, t, x : s = InOrder(S, r) /\ t = InOrder(S, r + 1) /\ x = r + 1
      OBVIOUS
    <2>4. t = IF x \in S THEN Append(s, x) ELSE s
      BY <2>3, InOrderStep
    <2>5. /\ s \in Seq(1 .. n) /\ Distinct(s) /\ Rising(s) /\ ToSet(s) = {i \in S : i <= r}
          /\ Len(s) <= r /\ Len(s) \in Nat
      BY <2>2, <2>3
    <2>6. \A i \in S : i <= r + 1 <=> i <= r \/ i = r + 1
      BY <1>1
    <2>7. CASE x \in S
      <3>1. x \in 1 .. n /\ x \notin ToSet(s)
        BY <2>1, <2>3, <2>5
      <3>2. /\ t \in Seq(1 .. n) /\ Len(t) = Len(s) + 1 /\ ToSet(t) = ToSet(s) \cup {x}
            /\ Distinct(t)
        BY <2>4, <2>5, <2>7, <3>1, AppendQueue
      <3>3. {i \in S : i <= r + 1} = {i \in S : i <= r} \cup {r + 1}
        BY <2>3, <2>6, <2>7, Zenon
      <3>4. Rising(t)
        <4>1. PICK l : l = Len(s)
          OBVIOUS
        <4>2. l \in Nat /\ DOMAIN s = 1 .. l /\ DOMAIN t = 1 .. l + 1
          BY <4>1, <2>5, <3>2
        <4>3. t[l + 1] = x /\ \A i \in 1 .. l : t[i] = s[i]
          BY <4>1, <2>4, <2>5, <2>7
        <4>4. \A i \in 1 .. l : s[i] \in Nat /\ s[i] <= r
          <5>1. \A i \in 1 .. l : s[i] \in ToSet(s)
            BY <4>2 DEF ToSet
          <5> QED BY <5>1, <1>1, <2>5
        <4> SUFFICES ASSUME NEW i \in 1 .. l + 1, NEW j \in 1 .. l + 1, i < j PROVE t[i] < t[j]
          BY <4>2 DEF Rising
        <4>5. i \in 1 .. l
          BY <4>2
        <4>6. CASE j = l + 1
          BY <4>3, <4>4, <4>5, <4>6, <2>3
        <4>7. CASE j # l + 1
          <5>1. j \in 1 .. l
            BY <4>2, <4>7
          <5> QED BY <5>1, <4>2, <4>3, <4>5, <2>5 DEF Rising
        <4> QED BY <4>6, <4>7
      <3>5. Len(t) <= r + 1
        BY <3>2, <2>5
      <3> QED BY <3>2, <3>3, <3>4, <3>5, <2>3, <2>5
    <2>8. CASE x \notin S
      <3>1. {i \in S : i <= r + 1} = {i \in S : i <= r}
        BY <2>3, <2>6, <2>8, Zenon
      <3>2. Len(s) <= r + 1
        BY <2>5
      <3> QED BY <3>1, <3>2, <2>3, <2>4, <2>5, <2>8
    <2> QED BY <2>7, <2>8
  <1>5. \A r \in Nat : r \in T
    BY <1>3, <1>4, SetInduction
  <1>6. Good(n)
    BY <1>2, <1>5
  <1>7. {i \in S : i <= n} = S
    BY <1>1
  <1> QED BY <1>6, <1>7 DEF Lists

(* There is one way to list a set. *)
LEMMA RisingUnique ==
    ASSUME NEW q \in Seq(Nat), NEW s \in Seq(Nat), Rising(q), Rising(s), ToSet(q) = ToSet(s)
    PROVE  q = s
  <1>1. PICK m, l : m = Len(q) /\ l = Len(s)
    OBVIOUS
  <1>2. /\ m \in Nat /\ l \in Nat /\ DOMAIN q = 1 .. m /\ DOMAIN s = 1 .. l
        /\ \A i \in 1 .. m : q[i] \in Nat
        /\ \A i \in 1 .. l : s[i] \in Nat
    BY <1>1
  <1>3. /\ \A i \in 1 .. m : \E j \in 1 .. l : q[i] = s[j]
        /\ \A j \in 1 .. l : \E i \in 1 .. m : s[j] = q[i]
    BY <1>2 DEF ToSet
  <1>4. /\ \A i, j \in 1 .. m : i < j => q[i] < q[j]
        /\ \A i, j \in 1 .. l : i < j => s[i] < s[j]
    BY <1>2 DEF Rising
  <1>5. PICK T : T = {n \in Nat : \A i \in 1 .. n : (i <= m \/ i <= l) => i <= m /\ i <= l /\ q[i] = s[i]}
    OBVIOUS
  <1>6. 0 \in T
    BY <1>5
  <1>7. ASSUME NEW n \in Nat, n \in T PROVE n + 1 \in T
    <2>0. \A i \in 1 .. n : (i <= m \/ i <= l) => i <= m /\ i <= l /\ q[i] = s[i]
      BY <1>5, <1>7
    <2>1. PICK x : x = n + 1
      OBVIOUS
    <2>2. x \in Nat /\ x >= 1 /\ \A i \in 1 .. n : i < x
      BY <2>1
    <2>3. \A i \in 1 .. n + 1 : i \in 1 .. n \/ i = x
      BY <2>1
    <2>4. ASSUME x <= m PROVE \E j \in 1 .. l : q[x] = s[j] /\ j >= x
      <3>1. x \in 1 .. m
        BY <2>2, <2>4, <1>2
      <3>2. PICK j \in 1 .. l : q[x] = s[j]
        BY <3>1, <1>3
      <3>3. CASE j < x
        <4>1. j \in 1 .. n
          BY <3>3, <2>1, <1>2
        <4>2. j \in 1 .. m /\ q[j] = s[j]
          BY <4>1, <2>0, <1>2
        <4>3. q[j] < q[x] /\ q[j] \in Nat /\ q[x] \in Nat
          BY <4>2, <3>1, <3>3, <1>2, <1>4
        <4> QED BY <4>2, <4>3, <3>2
      <3> QED BY <3>2, <3>3, <2>2, <1>2
    <2>5. ASSUME x <= l PROVE \E j \in 1 .. m : s[x] = q[j] /\ j >= x
      <3>1. x \in 1 .. l
        BY <2>2, <2>5, <1>2
      <3>2. PICK j \in 1 .. m : s[x] = q[j]
        BY <3>1, <1>3
      <3>3. CASE j < x
        <4>1. j \in 1 .. n
          BY <3>3, <2>1, <1>2
        <4>2. j \in 1 .. l /\ q[j] = s[j]
          BY <4>1, <2>0, <1>2
        <4>3. s[j] < s[x] /\ s[j] \in Nat /\ s[x] \in Nat
          BY <4>2, <3>1, <3>3, <1>2, <1>4
        <4> QED BY <4>2, <4>3, <3>2
      <3> QED BY <3>2, <3>3, <2>2, <1>2
    <2>6. x <= m <=> x <= l
      BY <2>2, <2>4, <2>5, <1>2
    <2>7. ASSUME x <= m, x <= l PROVE q[x] = s[x]
      <3>1. x \in 1 .. m /\ x \in 1 .. l
        BY <2>2, <2>7, <1>2
      <3>2. PICK j \in 1 .. l : q[x] = s[j] /\ j >= x
        BY <2>4, <2>7
      <3>3. PICK k \in 1 .. m : s[x] = q[k] /\ k >= x
        BY <2>5, <2>7
      <3>4. s[x] <= s[j]
        BY <3>1, <3>2, <1>2, <1>4
      <3>5. q[x] <= q[k]
        BY <3>1, <3>3, <1>2, <1>4
      <3> QED BY <3>1, <3>2, <3>3, <3>4, <3>5, <1>2
    <2> QED BY <2>0, <2>1, <2>3, <2>6, <2>7, <1>5
  <1>8. \A n \in Nat : n \in T
    BY <1>6, <1>7, SetInduction
  <1>9. m = l
    <2>1. m \in T /\ l \in T
      BY <1>2, <1>8
    <2>2. m # 0 => m <= l
      <3>1. m # 0 => m \in 1 .. m
        BY <1>2
      <3> QED BY <3>1, <2>1, <1>2, <1>5
    <2>3. l # 0 => l <= m
      <3>1. l # 0 => l \in 1 .. l
        BY <1>2
      <3> QED BY <3>1, <2>1, <1>2, <1>5
    <2> QED BY <2>2, <2>3, <1>2
  <1>10. \A i \in 1 .. m : q[i] = s[i]
    <2>1. m \in T
      BY <1>2, <1>8
    <2> QED BY <2>1, <1>2, <1>5
  <1> QED BY <1>1, <1>2, <1>9, <1>10
=============================================================================
