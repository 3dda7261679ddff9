------------------------ MODULE ModelRuntimeProofs ------------------------
(***************************************************************************)
(* For every size of the buffers, every capacity of the graph cache and    *)
(* every sequence of batches, the graph cache is an LRU cache of live      *)
(* graphs, and a step computes its own batch.                              *)
(***************************************************************************)
EXTENDS ModelRuntime, SequenceFacts, FiniteSetTheorems

-----------------------------------------------------------------------------
(* The inductive invariant *)

CacheTypes ==
    \E K : recent \in Seq(K) /\ entries \in Seq([key : K, exec : Handle])

(* The cache is what was used last, as far as it reaches. *)
Reach(l) == IF l < MaxEntries THEN l ELSE MaxEntries
HoldsRecent ==
    /\ Distinct(recent)
    /\ Len(entries) = Reach(Len(recent))
    /\ \A i \in 1 .. Len(entries) : entries[i].key = recent[i]

(* Every entry has a graph of its own, and every graph an entry. *)
GraphsOwned ==
    /\ \A i, j \in 1 .. Len(entries) : entries[i].exec = entries[j].exec => i = j
    /\ \A h \in Handle : graphs[h] # Destroyed <=> \E i \in 1 .. Len(entries) : entries[i].exec = h
    /\ \A i \in 1 .. Len(entries) : Key(graphs[entries[i].exec]) = entries[i].key

CacheInv == CacheTypes /\ HoldsRecent /\ GraphsOwned

-----------------------------------------------------------------------------

(* What is where once x is in front of s. *)
LEMMA PushFrontIs ==
    ASSUME NEW S, NEW s \in Seq(S), NEW x \in S
    PROVE  /\ <<x>> \o s \in Seq(S) /\ Len(<<x>> \o s) = Len(s) + 1 /\ (<<x>> \o s)[1] = x
           /\ \A j \in 2 .. Len(s) + 1 : (<<x>> \o s)[j] = s[j - 1]
  OBVIOUS

(* The graph of an entry. *)
LEMMA EntryFields ==
    ASSUME NEW K, entries \in Seq([key : K, exec : Handle])
    PROVE  \A i \in 1 .. Len(entries) : entries[i].exec \in Handle
  <1>1. PICK E : E = [key : K, exec : Handle]
    OBVIOUS
  <1>2. \A i \in 1 .. Len(entries) : entries[i] \in E
    <2>1. entries \in Seq(E)
      BY <1>1
    <2> QED BY <2>1
  <1>3. \A e \in E : e.exec \in Handle
    BY <1>1
  <1> QED BY <1>2, <1>3

(* A handle is free for the graph that is captured before any is evicted. *)
LEMMA HandleIsFree ==
    ASSUME CacheInv
    PROVE  LET new == Min({h \in Handle : graphs[h] = Destroyed})
           IN  new \in Handle /\ graphs[new] = Destroyed
  <1>1. PICK n : n = Len(entries)
    OBVIOUS
  <1>2. n \in Nat /\ MaxEntries \in Nat /\ n <= MaxEntries
    BY <1>1, RuntimeAssumption DEF CacheInv, CacheTypes, HoldsRecent, Reach
  <1>3. PICK f, T : f = [i \in 1 .. n |-> entries[i].exec] /\ T = {entries[i].exec : i \in 1 .. n}
    OBVIOUS
  <1>4. f \in Surjection(1 .. n, T)
    BY <1>3 DEF Surjection
  <1>5. IsFiniteSet(1 .. n) /\ Cardinality(1 .. n) = n
    BY <1>2, FS_Interval
  <1>6. IsFiniteSet(T) /\ Cardinality(T) <= n
    BY <1>4, <1>5, FS_Surjection
  <1>7. IsFiniteSet(Handle) /\ Cardinality(Handle) = MaxEntries + 1
    BY <1>2, FS_Interval DEF Handle
  <1>8. PICK F : F = {h \in Handle : graphs[h] = Destroyed}
    OBVIOUS
  <1>9. F # {}
    <2>1. SUFFICES ASSUME F = {} PROVE FALSE
      OBVIOUS
    <2>2. Handle \subseteq T
      BY <1>1, <1>3, <1>8, <2>1 DEF CacheInv, GraphsOwned
    <2>3. Cardinality(Handle) <= Cardinality(T)
      BY <2>2, <1>6, FS_Subset
    <2>4. Cardinality(T) \in Nat
      BY <1>6, FS_CardinalityType
    <2> QED BY <2>3, <2>4, <1>2, <1>6, <1>7
  <1>10. F \in SUBSET Nat
    BY <1>2, <1>8 DEF Handle
  <1>11. Min(F) \in F
    BY <1>9, <1>10, MinNat
  <1> QED BY <1>8, <1>11

(* A hit moves to the front of the cache and of the shapes that were used. *)
LEMMA ReplayKeeps ==
    ASSUME CacheInv, NEW k, Hits(k) # {}, Replay(k), recent' = <<k>> \o RemoveFirst(recent, k)
    PROVE  CacheInv'
  <1>1. PICK K : recent \in Seq(K) /\ entries \in Seq([key : K, exec : Handle])
    BY DEF CacheInv, CacheTypes
  <1>2. PICK n, l : n = Len(entries) /\ l = Len(recent)
    OBVIOUS
  <1>3. n \in Nat /\ l \in Nat /\ n <= l /\ DOMAIN entries = 1 .. n /\ DOMAIN recent = 1 .. l
    BY <1>1, <1>2, RuntimeAssumption DEF CacheInv, HoldsRecent, Reach
  <1>4. /\ Distinct(recent)
        /\ \A i \in 1 .. n : entries[i].key = recent[i]
    BY <1>2 DEF CacheInv, HoldsRecent
  <1>5. PICK i \in 1 .. n : entries[i].key = k
    BY <1>3 DEF Hits
  <1>6. i \in 1 .. l /\ recent[i] = k
    BY <1>3, <1>4, <1>5
  <1>7. \A j \in 1 .. l : recent[j] = k => j = i
    BY <1>3, <1>4, <1>6 DEF Distinct
  <1>8. Hits(k) = {i}
    BY <1>3, <1>4, <1>5, <1>7 DEF Hits
  <1>9. Min({i}) = i
    BY DEF Min
  <1>10. RemoveFirst(recent, k) = RemoveAt(recent, i)
    <2>1. {j \in 1 .. Len(recent) : recent[j] = k} = {i}
      BY <1>2, <1>6, <1>7
    <2> QED BY <2>1, <1>2, <1>6, <1>9 DEF RemoveFirst, SelectInSeq
  <1>11. /\ entries' = <<entries[i]>> \o RemoveAt(entries, i) /\ graphs' = graphs
         /\ recent' = <<recent[i]>> \o RemoveAt(recent, i)
    BY <1>6, <1>8, <1>9, <1>10 DEF Replay
  <1>12. /\ entries' \in Seq([key : K, exec : Handle]) /\ Len(entries') = n
         /\ entries'[1] = entries[i]
         /\ \A j \in 1 .. n : j # 1 => entries'[j] = IF j <= i THEN entries[j - 1] ELSE entries[j]
    BY <1>1, <1>2, <1>5, <1>11, MoveToFront
  <1>13. /\ recent' \in Seq(K) /\ Len(recent') = l
         /\ recent'[1] = recent[i]
         /\ \A j \in 1 .. l : j # 1 => recent'[j] = IF j <= i THEN recent[j - 1] ELSE recent[j]
    <2>1. recent \in Seq(K) /\ i \in 1 .. Len(recent)
      BY <1>1, <1>2, <1>6
    <2>2. PICK m : m = <<recent[i]>> \o RemoveAt(recent, i)
      OBVIOUS
    <2>3. /\ m \in Seq(K) /\ Len(m) = Len(recent) /\ m[1] = recent[i]
          /\ \A j \in 1 .. Len(recent) : j # 1 => m[j] = IF j <= i THEN recent[j - 1] ELSE recent[j]
      BY <2>1, <2>2, MoveToFront
    <2> QED BY <2>2, <2>3, <1>2, <1>11
  <1> DEFINE from(j) == IF j = 1 THEN i ELSE IF j <= i THEN j - 1 ELSE j
  <1>14. /\ \A j \in 1 .. n : from(j) \in 1 .. n /\ entries'[j] = entries[from(j)]
         /\ \A j \in 1 .. l : from(j) \in 1 .. l /\ recent'[j] = recent[from(j)]
    BY <1>3, <1>5, <1>6, <1>12, <1>13
  <1>15. \A j, m \in Nat : from(j) = from(m) /\ j # 0 /\ m # 0 => j = m
    BY <1>3
  <1>16. \A m \in 1 .. n : \E j \in 1 .. n : from(j) = m
    <2> SUFFICES ASSUME NEW m \in 1 .. n PROVE \E j \in 1 .. n : from(j) = m
      OBVIOUS
    <2>1. CASE m < i
      <3>1. m + 1 \in 1 .. n /\ from(m + 1) = m
        BY <2>1, <1>3
      <3> QED BY <3>1
    <2>2. CASE m = i
      <3>1. 1 \in 1 .. n /\ from(1) = m
        BY <2>2, <1>3
      <3> QED BY <3>1
    <2>3. CASE m > i
      <3>1. from(m) = m
        BY <2>3, <1>3
      <3> QED BY <3>1
    <2> QED BY <2>1, <2>2, <2>3, <1>3
  <1> HIDE DEF from
  <1>17. CacheTypes'
    BY <1>12, <1>13 DEF CacheTypes, Handle
  <1>18. HoldsRecent'
    <2>1. DOMAIN recent' = 1 .. l
      BY <1>13
    <2>2. Distinct(recent')
      <3> SUFFICES ASSUME NEW j \in 1 .. l, NEW m \in 1 .. l, recent'[j] = recent'[m] PROVE j = m
        BY <2>1 DEF Distinct
      <3>0. from(j) \in 1 .. l /\ from(m) \in 1 .. l /\ recent[from(j)] = recent[from(m)]
        BY <1>14
      <3>1. from(j) = from(m)
        BY <3>0, <1>3, <1>4 DEF Distinct
      <3>2. j \in Nat /\ m \in Nat /\ j # 0 /\ m # 0
        BY <1>3
      <3> QED BY <3>1, <3>2, <1>15
    <2>3. \A j \in 1 .. n : j \in 1 .. l
      BY <1>3
    <2>4. \A j \in 1 .. n : entries'[j].key = recent'[j]
      <3> SUFFICES ASSUME NEW j \in 1 .. n PROVE entries'[j].key = recent'[j]
        OBVIOUS
      <3>1. from(j) \in 1 .. n /\ entries'[j] = entries[from(j)] /\ recent'[j] = recent[from(j)]
        BY <2>3, <1>14
      <3> QED BY <3>1, <1>4
    <2> QED BY <2>2, <2>4, <1>2, <1>12, <1>13 DEF HoldsRecent, CacheInv
  <1>19. GraphsOwned'
    <2>0. /\ \A a, b \in 1 .. n : entries[a].exec = entries[b].exec => a = b
          /\ \A h \in Handle : graphs[h] # Destroyed <=> \E a \in 1 .. n : entries[a].exec = h
          /\ \A a \in 1 .. n : Key(graphs[entries[a].exec]) = entries[a].key
      BY <1>2 DEF CacheInv, GraphsOwned
    <2>1. ASSUME NEW j \in 1 .. n, NEW m \in 1 .. n, entries'[j].exec = entries'[m].exec
          PROVE  j = m
      <3>0. /\ from(j) \in 1 .. n /\ from(m) \in 1 .. n
            /\ entries'[j] = entries[from(j)] /\ entries'[m] = entries[from(m)]
        BY <1>14
      <3>1. from(j) = from(m)
        BY <2>0, <2>1, <3>0
      <3>2. j \in Nat /\ m \in Nat /\ j # 0 /\ m # 0
        BY <1>3
      <3> QED BY <3>1, <3>2, <1>15
    <2>2. ASSUME NEW h \in Handle
          PROVE  graphs[h] # Destroyed <=> \E j \in 1 .. n : entries'[j].exec = h
      <3>1. ASSUME NEW a \in 1 .. n, entries[a].exec = h PROVE \E j \in 1 .. n : entries'[j].exec = h
        <4>1. PICK j \in 1 .. n : from(j) = a
          BY <1>16
        <4> QED BY <4>1, <3>1, <1>14
      <3>2. ASSUME NEW j \in 1 .. n, entries'[j].exec = h PROVE \E a \in 1 .. n : entries[a].exec = h
        BY <3>2, <1>14
      <3> QED BY <3>1, <3>2, <2>0
    <2>3. \A j \in 1 .. n : Key(graphs[entries'[j].exec]) = entries'[j].key
      BY <2>0, <1>14
    <2> QED BY <2>1, <2>2, <2>3, <1>11, <1>12 DEF GraphsOwned, Handle, Destroyed, Key
  <1> QED BY <1>17, <1>18, <1>19 DEF CacheInv

(* Shape k is none of the first n. *)
NotAmong(k, s, n) == \A i \in 1 .. n : s[i] # k

OlderKept(K, s, k, n, r, c) ==
    /\ r \in Seq(K) /\ Distinct(r) /\ k \notin ToSet(r)
    /\ c \in 0 .. n /\ c < MaxEntries
    /\ 1 + c = Reach(1 + Len(r))
    /\ \A j \in 1 .. c : r[j] = s[j]

(* What a new shape leaves of the shapes used before, as far as the cache  *)
(* reaches with one place taken.                                           *)
LEMMA OlderShapes ==
    ASSUME NEW K, NEW s \in Seq(K), Distinct(s), NEW k, NEW n \in Nat,
           n = Reach(Len(s)),
           NotAmong(k, s, n)
    PROVE  OlderKept(K, s, k, n, RemoveFirst(s, k), Min({n, MaxEntries - 1}))
  <1>1. PICK l, r, c : l = Len(s) /\ r = RemoveFirst(s, k) /\ c = Min({n, MaxEntries - 1})
    OBVIOUS
  <1>2. MaxEntries \in Nat /\ MaxEntries # 0 /\ l \in Nat
    BY <1>1, RuntimeAssumption
  <1>3. c \in Nat /\ c <= n /\ c <= MaxEntries - 1 /\ (c = n \/ c = MaxEntries - 1)
    <2>1. PICK T : T = {n, MaxEntries - 1}
      OBVIOUS
    <2>2. T \in SUBSET Nat /\ T # {}
      BY <2>1, <1>2
    <2>3. Min(T) \in T /\ \A y \in T : Min(T) <= y
      BY <2>2, MinNat
    <2> QED BY <1>1, <2>1, <2>2, <2>3
  <1>4. r \in Seq(K) /\ Distinct(r) /\ k \notin ToSet(r)
    BY <1>1, RemoveFirstQueue
  <1>5. CASE \E i \in 1 .. l : s[i] = k
    <2>1. PICK i \in 1 .. l : s[i] = k
      BY <1>5
    <2>2. {j \in 1 .. Len(s) : s[j] = k} = {i}
      BY <1>1, <2>1 DEF Distinct
    <2>3. Min({i}) = i
      BY DEF Min
    <2>4. r = RemoveAt(s, i)
      BY <1>1, <2>1, <2>2, <2>3 DEF RemoveFirst, SelectInSeq
    <2>5. Len(r) = l - 1 /\ \A j \in 1 .. l - 1 : r[j] = IF j < i THEN s[j] ELSE s[j + 1]
      BY <1>1, <2>1, <2>4, RemoveAtProperties
    <2>6. i > n
      BY <2>1, <1>2 DEF NotAmong
    <2>7. n = MaxEntries /\ l > MaxEntries
      BY <2>6, <2>1, <1>1, <1>2 DEF Reach
    <2>8. c = MaxEntries - 1
      BY <2>7, <1>2, <1>3
    <2>9. ~(1 + Len(r) < MaxEntries) /\ 1 + c = MaxEntries
      BY <2>5, <2>7, <2>8, <1>2
    <2>10. \A j \in 1 .. c : j \in 1 .. l - 1 /\ j < i
      BY <2>1, <2>6, <2>7, <2>8, <1>2
    <2>11. \A j \in 1 .. c : r[j] = s[j]
      BY <2>5, <2>10
    <2>12. c \in 0 .. n /\ c < MaxEntries
      BY <1>2, <1>3
    <2>13. 1 + c = Reach(1 + Len(r))
      BY <2>9 DEF Reach
    <2> QED BY <1>1, <1>4, <2>11, <2>12, <2>13 DEF OlderKept
  <1>6. CASE ~\E i \in 1 .. l : s[i] = k
    <2>1. r = s
      BY <1>1, <1>6 DEF RemoveFirst
    <2>2. 1 + c = Reach(1 + l)
      BY <1>1, <1>2, <1>3 DEF Reach
    <2> QED BY <1>1, <1>2, <1>3, <1>4, <2>1, <2>2 DEF OlderKept
  <1> QED BY <1>5, <1>6

(* A step of decodes of sizes z, whose shape k is not in the cache. *)
Captures(k, z) ==
    /\ z = Sizes /\ z.decode > 0 /\ k = Key(z) /\ Hits(k) = {}
    /\ Capture(k) /\ recent' = <<k>> \o RemoveFirst(recent, k)

(* A new graph goes to the front; the one it drives out is destroyed. *)
LEMMA CaptureKeeps ==
    ASSUME CacheInv, NEW z, NEW k, Captures(k, z)
    PROVE  CacheInv'
  <1>1. PICK K : recent \in Seq(K) /\ entries \in Seq([key : K, exec : Handle])
    BY DEF CacheInv, CacheTypes
  <1>2. PICK n : n = Len(entries)
    OBVIOUS
  <1>3. /\ n \in Nat /\ DOMAIN entries = 1 .. n
        /\ Distinct(recent) /\ n = Reach(Len(recent))
        /\ \A i \in 1 .. n : entries[i].key = recent[i]
    BY <1>1, <1>2 DEF CacheInv, HoldsRecent
  <1>4. \A i \in 1 .. n : recent[i] # k
    BY <1>3 DEF Hits, Captures
  <1>5. PICK r, c : r = RemoveFirst(recent, k) /\ c = Min({n, MaxEntries - 1})
    OBVIOUS
  <1>6. /\ r \in Seq(K) /\ Distinct(r) /\ k \notin ToSet(r)
        /\ c \in 0 .. n /\ c < MaxEntries
        /\ 1 + c = Reach(1 + Len(r))
        /\ \A j \in 1 .. c : r[j] = recent[j]
    <2>1. recent \in Seq(K) /\ Distinct(recent) /\ n \in Nat /\ n = Reach(Len(recent))
      BY <1>1, <1>3
    <2>2. NotAmong(k, recent, n)
      BY <1>4 DEF NotAmong
    <2>3. OlderKept(K, recent, k, n, RemoveFirst(recent, k), Min({n, MaxEntries - 1}))
      BY <2>1, <2>2, OlderShapes
    <2> QED BY <2>3, <1>5 DEF OlderKept
  <1>7. PICK new : new = Min({h \in Handle : graphs[h] = Destroyed})
    OBVIOUS
  <1>8. new \in Handle /\ graphs[new] = Destroyed
    BY <1>7, HandleIsFree
  <1>9. PICK kept : kept = Kept
    OBVIOUS
  <1>10. /\ kept \in Seq([key : K, exec : Handle]) /\ Len(kept) = c
         /\ \A j \in 1 .. c : kept[j] = entries[j]
    <2>1. kept = SubSeq(entries, 1, c)
      BY <1>2, <1>5, <1>9 DEF Kept
    <2>2. c \in Nat /\ c <= n
      BY <1>3, <1>6
    <2>3. PICK E : E = [key : K, exec : Handle]
      OBVIOUS
    <2>4. entries \in Seq(E)
      BY <1>1, <2>3
    <2>5. kept \in Seq(E) /\ Len(kept) = c /\ \A j \in 1 .. c : kept[j] = entries[j]
      BY <1>2, <2>1, <2>2, <2>4
    <2> QED BY <2>3, <2>5
  <1>11. PICK e : e = [key |-> k, exec |-> new]
    OBVIOUS
  <1>12. PICK L : L = K \cup {k}
    OBVIOUS
  <1>13. e \in [key : L, exec : Handle] /\ e.key = k /\ e.exec = new
    BY <1>8, <1>11, <1>12
  <1>14. kept \in Seq([key : L, exec : Handle]) /\ r \in Seq(L) /\ k \in L
    <2>1. K \subseteq L /\ k \in L
      BY <1>12
    <2>2. [key : K, exec : Handle] \subseteq [key : L, exec : Handle]
      BY <2>1
    <2>3. PICK E, F : E = [key : K, exec : Handle] /\ F = [key : L, exec : Handle]
      OBVIOUS
    <2>4. kept \in Seq(E) /\ E \subseteq F
      BY <1>10, <2>2, <2>3
    <2>5. kept \in Seq(F)
      BY <2>4
    <2>6. r \in Seq(L)
      BY <1>6, <2>1
    <2> QED BY <2>1, <2>3, <2>5, <2>6
  <1>15. entries' = <<e>> \o kept /\ recent' = <<k>> \o r
    BY <1>5, <1>7, <1>9, <1>11 DEF Capture, Captures
  <1>16. /\ entries' \in Seq([key : L, exec : Handle]) /\ Len(entries') = c + 1 /\ entries'[1] = e
         /\ \A j \in 2 .. c + 1 : entries'[j] = kept[j - 1]
    BY <1>10, <1>13, <1>14, <1>15
  <1>17. /\ recent' \in Seq(L) /\ Len(recent') = Len(r) + 1 /\ recent'[1] = k
         /\ \A j \in 2 .. Len(r) + 1 : recent'[j] = r[j - 1]
    <2>1. r \in Seq(L) /\ k \in L /\ recent' = <<k>> \o r
      BY <1>14, <1>15
    <2>2. PICK t : t = recent'
      OBVIOUS
    <2>3. /\ <<k>> \o r \in Seq(L) /\ Len(<<k>> \o r) = Len(r) + 1 /\ (<<k>> \o r)[1] = k
          /\ \A j \in 2 .. Len(r) + 1 : (<<k>> \o r)[j] = r[j - 1]
      BY <2>1, PushFrontIs
    <2>4. t = <<k>> \o r
      BY <2>1, <2>2
    <2>5. /\ t \in Seq(L) /\ Len(t) = Len(r) + 1 /\ t[1] = k
          /\ \A j \in 2 .. Len(r) + 1 : t[j] = r[j - 1]
      BY <2>3, <2>4, Zenon
    <2> QED BY <2>2, <2>5
  <1>18. Distinct(recent')
    <2>1. r \in Seq(L) /\ k \in L /\ recent' = <<k>> \o r
      BY <1>14, <1>15
    <2> QED BY <2>1, <1>6, PushFrontQueue, Zenon
  <1>19. c \in Nat /\ Len(r) \in Nat /\ c <= Len(r)
    <2>1. MaxEntries \in Nat /\ c \in Nat /\ Len(r) \in Nat
      BY <1>3, <1>6, RuntimeAssumption
    <2> QED BY <2>1, <1>6 DEF Reach
  <1>20. \A j \in 2 .. c + 1 : j - 1 \in 1 .. c /\ j - 1 \in 1 .. n /\ j \in 2 .. Len(r) + 1
    BY <1>3, <1>6, <1>19
  <1>21. \A j \in 1 .. c + 1 : j = 1 \/ j \in 2 .. c + 1
    BY <1>19
  <1>22. \A j \in 2 .. c + 1 : entries'[j] = entries[j - 1]
    BY <1>10, <1>16, <1>20
  <1>23. CacheTypes'
    BY <1>16, <1>17 DEF CacheTypes, Handle
  <1>24. HoldsRecent'
    <2>1. \A j \in 2 .. c + 1 : entries'[j].key = recent'[j]
      BY <1>3, <1>6, <1>17, <1>20, <1>22
    <2>2. entries'[1].key = recent'[1]
      BY <1>13, <1>16, <1>17
    <2>3. \A j \in 1 .. c + 1 : entries'[j].key = recent'[j]
      BY <2>1, <2>2, <1>21
    <2>4. c + 1 = Reach(Len(r) + 1)
      BY <1>6, <1>19
    <2> QED BY <2>3, <2>4, <1>16, <1>17, <1>18 DEF HoldsRecent
  <1>25. /\ \A a, b \in 1 .. n : entries[a].exec = entries[b].exec => a = b
         /\ \A h \in Handle : graphs[h] # Destroyed <=> \E a \in 1 .. n : entries[a].exec = h
         /\ \A a \in 1 .. n : Key(graphs[entries[a].exec]) = entries[a].key
         /\ \A a \in 1 .. n : entries[a].exec \in Handle
    <2>1. \A a \in 1 .. n : entries[a].exec \in Handle
      BY <1>1, <1>2, EntryFields
    <2> QED BY <1>2, <2>1 DEF CacheInv, GraphsOwned
  <1>26. \A a \in 1 .. n : entries[a].exec # new
    BY <1>8, <1>25
  <1>27. z # Destroyed /\ Key(z) = k
    BY DEF Destroyed, Captures
  <1>28. \A h \in Handle : graphs'[h] =
            IF h = new THEN z
            ELSE IF \E x \in ToSet(entries) \ ToSet(kept) : x.exec = h THEN Destroyed
            ELSE graphs[h]
    BY <1>7, <1>9 DEF Capture, Captures
  <1>29. \A a \in 1 .. c : a \in 1 .. n
    BY <1>3, <1>6
  <1>30. DOMAIN kept = 1 .. c
    BY <1>10, <1>19
  <1>31. ASSUME NEW a \in 1 .. n
         PROVE  (\E x \in ToSet(entries) \ ToSet(kept) : x.exec = entries[a].exec) <=> a \notin 1 .. c
    <2>1. ASSUME a \notin 1 .. c PROVE entries[a] \in ToSet(entries) \ ToSet(kept)
      <3>1. entries[a] \in ToSet(entries)
        BY <1>3 DEF ToSet
      <3>2. ASSUME NEW j \in 1 .. c PROVE kept[j] # entries[a]
        BY <3>2, <2>1, <1>10, <1>25, <1>29
      <3> QED BY <3>1, <3>2, <1>30 DEF ToSet
    <2>2. ASSUME a \in 1 .. c, NEW x \in ToSet(entries) \ ToSet(kept), x.exec = entries[a].exec
          PROVE  FALSE
      <3>1. PICK b \in 1 .. n : x = entries[b]
        BY <1>3 DEF ToSet
      <3>2. b = a
        BY <3>1, <2>2, <1>25
      <3>3. x = kept[a]
        BY <3>1, <3>2, <2>2, <1>10
      <3> QED BY <3>3, <2>2, <1>30 DEF ToSet
    <2> QED BY <2>1, <2>2
  <1>32. GraphsOwned'
    <2>1. ASSUME NEW i \in 1 .. c + 1, NEW j \in 1 .. c + 1, entries'[i].exec = entries'[j].exec
          PROVE  i = j
      <3>1. CASE i = 1
        BY <3>1, <2>1, <1>13, <1>16, <1>20, <1>21, <1>22, <1>26
      <3>2. CASE j = 1
        BY <3>2, <2>1, <1>13, <1>16, <1>20, <1>21, <1>22, <1>26
      <3>3. CASE i # 1 /\ j # 1
        <4>1. i \in 2 .. c + 1 /\ j \in 2 .. c + 1
          BY <3>3, <1>21
        <4>2. entries[i - 1].exec = entries[j - 1].exec /\ i - 1 \in 1 .. n /\ j - 1 \in 1 .. n
          BY <4>1, <2>1, <1>20, <1>22
        <4>3. i - 1 = j - 1
          BY <4>2, <1>25
        <4> QED BY <4>3
      <3> QED BY <3>1, <3>2, <3>3
    <2>2. ASSUME NEW h \in Handle, h # new
          PROVE  graphs'[h] # Destroyed <=> \E a \in 1 .. c : entries[a].exec = h
      <3>1. CASE \E a \in 1 .. n : entries[a].exec = h
        <4>1. PICK a \in 1 .. n : entries[a].exec = h
          BY <3>1
        <4>2. graphs[h] # Destroyed
          BY <4>1, <1>25
        <4>3. graphs'[h] # Destroyed <=> a \in 1 .. c
          BY <4>1, <4>2, <2>2, <1>28, <1>31
        <4>4. (\E b \in 1 .. c : entries[b].exec = h) <=> a \in 1 .. c
          BY <4>1, <1>25, <1>29
        <4> QED BY <4>3, <4>4
      <3>2. CASE ~\E a \in 1 .. n : entries[a].exec = h
        <4>1. graphs[h] = Destroyed
          BY <3>2, <1>25
        <4> QED BY <4>1, <3>2, <2>2, <1>28, <1>29
      <3> QED BY <3>1, <3>2
    <2>3. ASSUME NEW a \in 1 .. c PROVE a + 1 \in 2 .. c + 1 /\ entries'[a + 1] = entries[a]
      <3>1. a + 1 \in 2 .. c + 1 /\ (a + 1) - 1 = a
        BY <1>19
      <3> QED BY <3>1, <1>22
    <2>4. ASSUME NEW h \in Handle
          PROVE  graphs'[h] # Destroyed <=> \E j \in 1 .. c + 1 : entries'[j].exec = h
      <3>1. CASE h = new
        <4>1. 1 \in 1 .. c + 1 /\ entries'[1].exec = new
          BY <1>13, <1>16, <1>19
        <4> QED BY <4>1, <3>1, <1>27, <1>28
      <3>2. CASE h # new
        <4>1. ASSUME NEW a \in 1 .. c, entries[a].exec = h
              PROVE  \E j \in 1 .. c + 1 : entries'[j].exec = h
          <5>1. a + 1 \in 1 .. c + 1
            BY <1>19
          <5> QED BY <5>1, <4>1, <2>3
        <4>2. ASSUME NEW j \in 1 .. c + 1, entries'[j].exec = h
              PROVE  \E a \in 1 .. c : entries[a].exec = h
          <5>1. j \in 2 .. c + 1
            BY <4>2, <3>2, <1>13, <1>16, <1>21
          <5> QED BY <5>1, <4>2, <1>20, <1>22
        <4> QED BY <4>1, <4>2, <3>2, <2>2
      <3> QED BY <3>1, <3>2
    <2>5. ASSUME NEW j \in 1 .. c + 1 PROVE Key(graphs'[entries'[j].exec]) = entries'[j].key
      <3>1. CASE j = 1
        BY <3>1, <1>8, <1>13, <1>16, <1>27, <1>28
      <3>2. CASE j \in 2 .. c + 1
        <4>1. PICK a : a = j - 1
          OBVIOUS
        <4>2. a \in 1 .. c /\ a \in 1 .. n /\ entries'[j] = entries[a]
          BY <3>2, <4>1, <1>20, <1>22
        <4>3. graphs'[entries[a].exec] = graphs[entries[a].exec]
          BY <4>2, <1>25, <1>26, <1>28, <1>31
        <4> QED BY <4>2, <4>3, <1>25
      <3> QED BY <3>1, <3>2, <1>21
    <2> QED BY <2>1, <2>4, <2>5, <1>16 DEF GraphsOwned, Handle, Destroyed, Key
  <1> QED BY <1>23, <1>24, <1>32 DEF CacheInv

(* The graph cache's invariant holds. *)
LEMMA CacheInvariant == Spec => []CacheInv
  <1>1. Init => CacheInv
    <2> SUFFICES ASSUME Init PROVE CacheInv
      OBVIOUS
    <2>1. entries = <<>> /\ recent = <<>> /\ \A h \in Handle : graphs[h] = Destroyed
      BY DEF Init
    <2>2. MaxEntries \in Nat /\ 0 < MaxEntries
      BY RuntimeAssumption
    <2>3. <<>> \in Seq({}) /\ <<>> \in Seq([key : {}, exec : Handle])
      OBVIOUS
    <2>4. CacheTypes
      BY <2>1, <2>3 DEF CacheTypes
    <2>5. HoldsRecent
      BY <2>1, <2>2 DEF HoldsRecent, Distinct, Reach
    <2>6. GraphsOwned
      BY <2>1 DEF GraphsOwned
    <2> QED BY <2>4, <2>5, <2>6 DEF CacheInv
  <1>2. CacheInv /\ [Next]_vars => CacheInv'
    <2> SUFFICES ASSUME CacheInv, [Next]_vars PROVE CacheInv'
      OBVIOUS
    <2>1. CASE UNCHANGED <<entries, graphs, recent>>
      BY <2>1 DEF CacheInv, CacheTypes, HoldsRecent, GraphsOwned, Key, Handle, Destroyed, Distinct
    <2>2. CASE Next
      <3>1. RunLayers
        BY <2>2 DEF Next, Forward
      <3>2. CASE Graphable
        <4>1. PICK z, k : z = Sizes /\ k = Key(z)
          OBVIOUS
        <4>2. z.decode > 0
          BY <3>2, <4>1 DEF Graphable
        <4>3. /\ IF Hits(k) # {} THEN Replay(k) ELSE Capture(k)
              /\ recent' = <<k>> \o RemoveFirst(recent, k)
          BY <3>1, <3>2, <4>1 DEF RunLayers
        <4>4. CASE Hits(k) # {}
          BY <4>3, <4>4, ReplayKeeps
        <4>5. CASE Hits(k) = {}
          <5>1. Captures(k, z)
            BY <4>1, <4>2, <4>3, <4>5 DEF Captures
          <5> QED BY <5>1, CaptureKeeps
        <4> QED BY <4>4, <4>5
      <3>3. CASE ~Graphable
        BY <3>1, <3>3, <2>1 DEF RunLayers
      <3> QED BY <3>2, <3>3
    <2>3. CASE UNCHANGED vars
      BY <2>3, <2>1 DEF vars
    <2> QED BY <2>2, <2>3
  <1> QED BY <1>1, <1>2, PTL DEF Spec

(* GraphsAreRecent, for every capacity and every sequence of batches. *)
THEOREM GraphCacheIsLru == Spec => []GraphsAreRecent
  <1>1. CacheInv => GraphsAreRecent
    <2> SUFFICES ASSUME CacheInv PROVE GraphsAreRecent
      OBVIOUS
    <2>1. PICK K : recent \in Seq(K) /\ entries \in Seq([key : K, exec : Handle])
      BY DEF CacheInv, CacheTypes
    <2>2. PICK n, l : n = Len(entries) /\ l = Len(recent)
      OBVIOUS
    <2>3. /\ n \in Nat /\ l \in Nat /\ MaxEntries \in Nat /\ DOMAIN entries = 1 .. n
          /\ n = Reach(l)
      BY <2>1, <2>2, RuntimeAssumption DEF CacheInv, HoldsRecent
    <2>4. Min({MaxEntries, l}) = n
      BY <2>3 DEF Min, Reach
    <2>5. SubSeq(recent, 1, n) = [i \in 1 .. n |-> entries[i].key]
      <3>1. n <= l /\ \A i \in 1 .. n : entries[i].key = recent[i]
        BY <2>2, <2>3 DEF CacheInv, HoldsRecent, Reach
      <3>2. SubSeq(recent, 1, n) = [i \in 1 .. n |-> recent[i]]
        BY <3>1, <2>1, <2>2, <2>3
      <3> QED BY <3>1, <3>2
    <2>6. {h \in Handle : graphs[h] # Destroyed} = {entries[i].exec : i \in 1 .. n}
      <3>1. \A i \in 1 .. n : entries[i].exec \in Handle
        BY <2>1, <2>2, EntryFields
      <3>2. \A h \in Handle : graphs[h] # Destroyed <=> \E i \in 1 .. n : entries[i].exec = h
        BY <2>2 DEF CacheInv, GraphsOwned
      <3> QED BY <3>1, <3>2
    <2> QED BY <2>2, <2>3, <2>4, <2>5, <2>6 DEF GraphsAreRecent, CacheInv, GraphsOwned
  <1> QED BY <1>1, CacheInvariant, PTL

-----------------------------------------------------------------------------
(* The rows of a batch *)

Row == [req : Nat, pos : Nat]

(* What RuntimeAssumption says of a request in a batch. *)
LEMMA RequestFields ==
    ASSUME NEW b \in Seq(Requests), NEW r \in 1 .. Len(b)
    PROVE  /\ b[r] \in Requests /\ b[r].start \in Nat /\ b[r].n \in Nat /\ b[r].n >= 1
           /\ b[r].blocks \in Seq(Int)
           /\ Len(b[r].blocks) = (b[r].start + b[r].n + BlockSize - 1) \div BlockSize
           /\ Len(b[r].blocks) <= MaxBlocks
  <1>1. b[r] \in Requests
    OBVIOUS
  <1> QED BY <1>1, RuntimeAssumption

(* The rows of one request. *)
LEMMA ChunkIs ==
    ASSUME NEW b \in Seq(Requests), NEW r \in 1 .. Len(b)
    PROVE  /\ Chunk(b[r], r) \in Seq(Row) /\ Len(Chunk(b[r], r)) = b[r].n
           /\ \A k \in 1 .. b[r].n :
                 Chunk(b[r], r)[k] = [req |-> r, pos |-> b[r].start + k - 1]
  <1>1. PICK e, c : e = b[r] /\ c = Chunk(e, r)
    OBVIOUS
  <1>2. e.start \in Nat /\ e.n \in Nat /\ r \in Nat
    BY <1>1, RequestFields
  <1>3. c = [k \in 1 .. e.n |-> [req |-> r, pos |-> e.start + k - 1]]
    BY <1>1 DEF Chunk
  <1>4. \A k \in 1 .. e.n : c[k] = [req |-> r, pos |-> e.start + k - 1] /\ c[k] \in Row
    BY <1>2, <1>3 DEF Row
  <1>5. c = [k \in 1 .. e.n |-> c[k]]
    BY <1>3
  <1>6. c \in Seq(Row) /\ Len(c) = e.n
    <2>1. PICK n : n = e.n
      OBVIOUS
    <2>2. n \in Nat /\ c = [k \in 1 .. n |-> c[k]] /\ \A k \in 1 .. n : c[k] \in Row
      BY <2>1, <1>2, <1>4, <1>5
    <2> QED BY <2>1, <2>2, MapIsSeq
  <1> QED BY <1>1, <1>4, <1>6

(* A part of a batch is one. *)
LEMMA FirstRequests ==
    ASSUME NEW b \in Seq(Requests), NEW r \in 0 .. Len(b)
    PROVE  /\ SubSeq(b, 1, r) \in Seq(Requests) /\ Len(SubSeq(b, 1, r)) = r
           /\ \A i \in 1 .. r : SubSeq(b, 1, r)[i] = b[i]
  OBVIOUS

(* Its chunks. *)
LEMMA ChunksAre ==
    ASSUME NEW b \in Seq(Requests)
    PROVE  LET s == [r \in DOMAIN b |-> Chunk(b[r], r)]
           IN  /\ s \in Seq(Seq(Row)) /\ Len(s) = Len(b) /\ IsMap(s, Len(b))
               /\ \A r \in 1 .. Len(b) : s[r] = Chunk(b[r], r)
  <1>1. PICK s, n : s = [r \in DOMAIN b |-> Chunk(b[r], r)] /\ n = Len(b)
    OBVIOUS
  <1>2. n \in Nat /\ DOMAIN b = 1 .. n
    BY <1>1
  <1>3. \A r \in 1 .. n : s[r] = Chunk(b[r], r)
    BY <1>1, <1>2
  <1>4. \A r \in 1 .. n : s[r] \in Seq(Row)
    BY <1>1, <1>3, ChunkIs
  <1>5. s = [r \in 1 .. n |-> s[r]]
    BY <1>1, <1>2
  <1>6. s \in Seq(Seq(Row)) /\ Len(s) = n
    BY <1>2, <1>4, <1>5, MapIsSeq
  <1> QED BY <1>1, <1>3, <1>5, <1>6 DEF IsMap

(* A request adds its rows to those of the requests before it. *)
LEMMA RowsGrow ==
    ASSUME NEW b \in Seq(Requests), NEW r \in 1 .. Len(b)
    PROVE  FlatRows(SubSeq(b, 1, r)) = FlatRows(SubSeq(b, 1, r - 1)) \o Chunk(b[r], r)
  <1>1. PICK u, v, p : u = SubSeq(b, 1, p) /\ v = SubSeq(b, 1, r) /\ p = r - 1
    OBVIOUS
  <1>2. p \in 0 .. Len(b) /\ r \in 0 .. Len(b) /\ p \in Nat /\ r = p + 1
    BY <1>1
  <1>3. /\ u \in Seq(Requests) /\ Len(u) = p /\ v \in Seq(Requests) /\ Len(v) = p + 1
        /\ \A i \in 1 .. p : u[i] = b[i]
        /\ \A i \in 1 .. p + 1 : v[i] = b[i]
    BY <1>1, <1>2, FirstRequests
  <1>4. PICK s, t : s = [i \in DOMAIN u |-> Chunk(u[i], i)] /\ t = [i \in DOMAIN v |-> Chunk(v[i], i)]
    OBVIOUS
  <1>5. /\ s \in Seq(Seq(Row)) /\ Len(s) = p
        /\ \A i \in 1 .. p : s[i] = Chunk(u[i], i)
    BY <1>3, <1>4, ChunksAre
  <1>6. IsMap(t, p + 1) /\ \A i \in 1 .. p + 1 : t[i] = Chunk(v[i], i)
    BY <1>3, <1>4, ChunksAre
  <1>7. \A i \in 1 .. p : i \in 1 .. p + 1
    BY <1>2
  <1>8. Agree(s, t, p)
    BY <1>3, <1>5, <1>6, <1>7 DEF Agree
  <1>9. PICK x : x = Chunk(b[r], r)
    OBVIOUS
  <1>10. x \in Seq(Row) /\ t[p + 1] = x
    BY <1>2, <1>3, <1>6, <1>9, ChunkIs
  <1>11. t = Append(s, x)
    BY <1>2, <1>5, <1>6, <1>8, <1>10, MapGrows
  <1>12. FlattenSeq(t) = FlattenSeq(s) \o x
    BY <1>5, <1>10, <1>11, FlattenAppend
  <1> QED BY <1>1, <1>4, <1>9, <1>12 DEF FlatRows

(* Where the rows of a request are: acc[r] is the number of rows up to it. *)
Laid(b, acc) ==
    /\ acc \in [0 .. Len(b) -> Nat] /\ acc[0] = 0
    /\ \A r \in 1 .. Len(b) : acc[r] = acc[r - 1] + b[r].n /\ RowsTo(b, r) = acc[r]
    /\ Len(FlatRows(b)) = acc[Len(b)] /\ DOMAIN FlatRows(b) = 1 .. acc[Len(b)]
    /\ \A r \in 1 .. Len(b) : \A k \in 1 .. b[r].n :
          FlatRows(b)[acc[r - 1] + k] = [req |-> r, pos |-> b[r].start + k - 1]

(* The rows of the requests follow each other. *)
LEMMA Layout ==
    ASSUME NEW b \in Seq(Requests)
    PROVE  \E acc : Laid(b, acc)
  <1>1. PICK m : m = Len(b)
    OBVIOUS
  <1>2. m \in Nat
    BY <1>1
  <1>3. PICK g : g = [r \in 0 .. m |-> FlatRows(SubSeq(b, 1, r))]
    OBVIOUS
  <1>4. \A r \in 0 .. m : g[r] \in Seq(Row)
    <2> SUFFICES ASSUME NEW r \in 0 .. m PROVE g[r] \in Seq(Row)
      OBVIOUS
    <2>1. PICK u : u = SubSeq(b, 1, r)
      OBVIOUS
    <2>2. u \in Seq(Requests)
      BY <2>1, <1>1, FirstRequests
    <2>3. PICK s : s = [i \in DOMAIN u |-> Chunk(u[i], i)]
      OBVIOUS
    <2>4. s \in Seq(Seq(Row))
      BY <2>2, <2>3, ChunksAre
    <2>5. FlattenSeq(s) \in Seq(Row)
      BY <2>4, FlattenType
    <2> QED BY <1>3, <2>1, <2>3, <2>5 DEF FlatRows
  <1>5. g[0] = <<>>
    <2>1. PICK u : u = SubSeq(b, 1, 0)
      OBVIOUS
    <2>2. u \in Seq(Requests) /\ Len(u) = 0
      BY <2>1, <1>1, <1>2, FirstRequests
    <2>3. u = <<>>
      BY <2>2
    <2>4. [i \in DOMAIN u |-> Chunk(u[i], i)] = <<>>
      BY <2>3
    <2>5. FlatRows(u) = <<>>
      BY <2>4, FlattenEmpty DEF FlatRows
    <2>6. 0 \in 0 .. m
      BY <1>2
    <2> QED BY <1>3, <2>1, <2>5, <2>6
  <1>6. \A r \in 1 .. m : r \in 0 .. m /\ r - 1 \in 0 .. m
    BY <1>2
  <1>7. \A r \in 1 .. m : g[r] = g[r - 1] \o Chunk(b[r], r)
    BY <1>1, <1>3, <1>6, RowsGrow
  <1>8. PICK acc : acc = [r \in 0 .. m |-> Len(g[r])]
    OBVIOUS
  <1>9. acc \in [0 .. m -> Nat] /\ acc[0] = 0 /\ \A r \in 0 .. m : acc[r] = Len(g[r]) /\ acc[r] \in Nat
    BY <1>2, <1>4, <1>5, <1>8
  <1>10. \A r \in 1 .. m : acc[r] = acc[r - 1] + b[r].n
    <2> SUFFICES ASSUME NEW r \in 1 .. m PROVE acc[r] = acc[r - 1] + b[r].n
      OBVIOUS
    <2>1. PICK x, y : x = g[r - 1] /\ y = Chunk(b[r], r)
      OBVIOUS
    <2>2. x \in Seq(Row) /\ y \in Seq(Row) /\ Len(y) = b[r].n
      BY <2>1, <1>1, <1>4, <1>6, ChunkIs
    <2>3. Len(x \o y) = Len(x) + Len(y)
      BY <2>2
    <2> QED BY <2>1, <2>2, <2>3, <1>6, <1>7, <1>9
  <1> DEFINE At(i, r, k) == acc[i] <= acc[r]
                            /\ g[r][acc[i - 1] + k] = [req |-> i, pos |-> b[i].start + k - 1]
  <1>11. PICK S : S = {r \in Nat : r <= m => \A i \in 1 .. r : \A k \in 1 .. b[i].n : At(i, r, k)}
    OBVIOUS
  <1>12. 0 \in S
    BY <1>11
  <1>13. ASSUME NEW p \in Nat, p \in S PROVE p + 1 \in S
    <2> SUFFICES ASSUME p + 1 <= m, NEW i \in 1 .. p + 1, NEW k \in 1 .. b[i].n
                 PROVE  At(i, p + 1, k)
      BY <1>11
    <2>1. p + 1 \in 1 .. m /\ p \in 0 .. m /\ p + 1 \in 0 .. m /\ i \in 1 .. m /\ i - 1 \in 0 .. m
          /\ (p + 1) - 1 = p
      BY <1>2
    <2>2. PICK x, y : x = g[p] /\ y = Chunk(b[p + 1], p + 1)
      OBVIOUS
    <2>3. /\ x \in Seq(Row) /\ y \in Seq(Row) /\ g[p + 1] = x \o y
          /\ Len(x) = acc[p] /\ Len(y) = b[p + 1].n
      BY <2>1, <2>2, <1>1, <1>4, <1>7, <1>9, ChunkIs
    <2>4. /\ b[i].n \in Nat /\ b[p + 1].n \in Nat /\ acc[p + 1] = acc[p] + b[p + 1].n
          /\ acc[i] = acc[i - 1] + b[i].n
          /\ acc[p] \in Nat /\ acc[i] \in Nat /\ acc[i - 1] \in Nat
      BY <2>1, <1>1, <1>9, <1>10, RequestFields
    <2>5. CASE i = p + 1
      <3>1. acc[i - 1] + k = Len(x) + k /\ k \in 1 .. Len(y)
        BY <2>1, <2>3, <2>5
      <3>2. (x \o y)[Len(x) + k] = y[k]
        <4>1. x \in Seq(Row) /\ y \in Seq(Row)
          BY <2>3
        <4> QED BY <4>1, <3>1, ConcatAt
      <3>3. y[k] = [req |-> i, pos |-> b[i].start + k - 1]
        BY <2>1, <2>2, <2>5, <1>1, ChunkIs
      <3>4. g[p + 1][acc[i - 1] + k] = y[k]
        BY <3>1, <3>2, <2>3
      <3>5. acc[i] <= acc[p + 1]
        BY <2>4, <2>5
      <3> QED BY <3>3, <3>4, <3>5
    <2>6. CASE i # p + 1
      <3>1. i \in 1 .. p /\ p <= m
        BY <2>1, <2>6, <1>2
      <3>2. At(i, p, k)
        BY <3>1, <1>11, <1>13
      <3>3. PICK j : j = acc[i - 1] + k
        OBVIOUS
      <3>4. j \in 1 .. Len(x)
        <4>1. PICK a, n : a = acc[i - 1] /\ n = b[i].n
          OBVIOUS
        <4>2. a \in Nat /\ n \in Nat /\ k \in 1 .. n /\ acc[i] = a + n /\ acc[i] <= acc[p]
          BY <4>1, <3>2, <2>4
        <4>3. j = a + k /\ Len(x) = acc[p] /\ acc[p] \in Nat
          BY <4>1, <3>3, <2>3, <2>4
        <4> QED BY <4>2, <4>3
      <3>5. (x \o y)[j] = x[j]
        <4>1. x \in Seq(Row) /\ y \in Seq(Row)
          BY <2>3
        <4> QED BY <4>1, <3>4, ConcatAt
      <3>6. acc[i] <= acc[p + 1]
        BY <3>2, <2>4
      <3> QED BY <3>2, <3>3, <3>5, <3>6, <2>2, <2>3
    <2> QED BY <2>5, <2>6
  <1>14. \A p \in Nat : p \in S
    BY <1>12, <1>13, SetInduction
  <1>15. \A i \in 1 .. m : \A k \in 1 .. b[i].n : At(i, m, k)
    BY <1>2, <1>11, <1>14
  <1>16. g[m] = FlatRows(b)
    <2>1. m \in 0 .. m
      BY <1>2
    <2>2. SubSeq(b, 1, m) = b
      BY <1>1
    <2> QED BY <2>1, <2>2, <1>3
  <1>17. \A r \in 1 .. m : RowsTo(b, r) = acc[r]
    BY <1>3, <1>6, <1>9 DEF RowsTo
  <1>18. Len(FlatRows(b)) = acc[m] /\ DOMAIN FlatRows(b) = 1 .. acc[m]
    <2>1. m \in 0 .. m
      BY <1>2
    <2> QED BY <2>1, <1>4, <1>9, <1>16
  <1> QED BY <1>1, <1>9, <1>10, <1>15, <1>16, <1>17, <1>18 DEF Laid

(* Row t is one of request r. *)
Within(acc, r, t) == t \in acc[r - 1] + 1 .. acc[r]

(* Every row is of one request. *)
LEMMA Segments ==
    ASSUME NEW b \in Seq(Requests), NEW acc, Laid(b, acc)
    PROVE  /\ \A t \in 1 .. acc[Len(b)] : \E r \in 1 .. Len(b) : Within(acc, r, t)
           /\ \A r \in 1 .. Len(b) : \A t : Within(acc, r, t) =>
                 /\ t \in 1 .. acc[Len(b)] /\ t - acc[r - 1] \in 1 .. b[r].n
                 /\ FlatRows(b)[t] = [req |-> r, pos |-> b[r].start + (t - acc[r - 1]) - 1]
  <1>1. PICK m : m = Len(b)
    OBVIOUS
  <1>2. m \in Nat /\ \A r \in 1 .. m : r - 1 \in 0 .. m /\ r \in 0 .. m
    BY <1>1
  <1>3. /\ \A r \in 0 .. m : acc[r] \in Nat
        /\ acc[0] = 0 /\ \A r \in 1 .. m : acc[r] = acc[r - 1] + b[r].n
    BY <1>1 DEF Laid
  <1>4. \A r \in 1 .. m : b[r].n \in Nat
    BY <1>1, RequestFields
  <1>5. PICK S : S = {p \in Nat : p <= m => \A t \in 1 .. acc[p] : \E r \in 1 .. m : Within(acc, r, t)}
    OBVIOUS
  <1>6. 0 \in S
    BY <1>3, <1>5
  <1>7. ASSUME NEW p \in Nat, p \in S PROVE p + 1 \in S
    <2> SUFFICES ASSUME p + 1 <= m, NEW t \in 1 .. acc[p + 1]
                 PROVE  \E r \in 1 .. m : Within(acc, r, t)
      BY <1>5
    <2>1. p + 1 \in 1 .. m /\ p <= m /\ p \in 0 .. m /\ (p + 1) - 1 = p /\ p + 1 \in 0 .. m
      BY <1>2
    <2>2. acc[p] \in Nat /\ acc[p + 1] \in Nat
      BY <2>1, <1>3
    <2>3. CASE t <= acc[p]
      <3>1. t \in 1 .. acc[p]
        BY <2>2, <2>3
      <3> QED BY <3>1, <2>1, <1>5, <1>7
    <2>4. CASE ~(t <= acc[p])
      <3>1. t \in acc[p] + 1 .. acc[p + 1]
        BY <2>2, <2>4
      <3>2. Within(acc, p + 1, t)
        BY <3>1, <2>1 DEF Within
      <3> QED BY <3>2, <2>1
    <2> QED BY <2>3, <2>4
  <1>8. \A p \in Nat : p \in S
    BY <1>6, <1>7, SetInduction
  <1>9. \A t \in 1 .. acc[m] : \E r \in 1 .. m : Within(acc, r, t)
    BY <1>2, <1>5, <1>8
  <1>10. ASSUME NEW r \in 1 .. m PROVE acc[r] <= acc[m]
    <2>1. PICK T : T = {d \in Nat : r + d <= m => acc[r] <= acc[r + d]}
      OBVIOUS
    <2>2. 0 \in T
      BY <2>1, <1>2, <1>3
    <2>3. ASSUME NEW d \in Nat, d \in T PROVE d + 1 \in T
      <3> SUFFICES ASSUME r + (d + 1) <= m PROVE acc[r] <= acc[r + (d + 1)]
        BY <2>1
      <3>1. PICK q : q = r + d
        OBVIOUS
      <3>2. q \in Nat /\ q + 1 \in 1 .. m /\ q \in 0 .. m /\ q <= m /\ (q + 1) - 1 = q /\ r + (d + 1) = q + 1
        BY <3>1, <1>2
      <3>3. acc[r] <= acc[q]
        BY <3>1, <3>2, <2>1, <2>3
      <3>4. acc[q + 1] = acc[q] + b[q + 1].n
        BY <3>2, <1>3
      <3>5. acc[r] \in Nat /\ acc[q] \in Nat /\ b[q + 1].n \in Nat
        BY <3>2, <1>2, <1>3, <1>4
      <3> QED BY <3>2, <3>3, <3>4, <3>5
    <2>4. \A d \in Nat : d \in T
      BY <2>2, <2>3, SetInduction
    <2>5. PICK d : d = m - r
      OBVIOUS
    <2>6. d \in Nat /\ r + d = m
      BY <2>5, <1>2
    <2>7. d \in T
      BY <2>4, <2>6
    <2> QED BY <2>1, <2>6, <2>7, <1>2
  <1>11. ASSUME NEW r \in 1 .. m, NEW t, Within(acc, r, t)
         PROVE  /\ t \in 1 .. acc[m] /\ t - acc[r - 1] \in 1 .. b[r].n
                /\ FlatRows(b)[t] = [req |-> r, pos |-> b[r].start + (t - acc[r - 1]) - 1]
    <2>1. acc[r] \in Nat /\ acc[r - 1] \in Nat /\ acc[m] \in Nat /\ acc[r] = acc[r - 1] + b[r].n
      BY <1>2, <1>3
    <2>2. t \in 1 .. acc[m]
      BY <2>1, <1>10, <1>11 DEF Within
    <2>3. PICK k : k = t - acc[r - 1]
      OBVIOUS
    <2>4. k \in 1 .. b[r].n /\ acc[r - 1] + k = t
      BY <2>1, <2>3, <1>4, <1>11 DEF Within
    <2>5. FlatRows(b)[acc[r - 1] + k] = [req |-> r, pos |-> b[r].start + k - 1]
      BY <2>4, <1>1 DEF Laid
    <2> QED BY <2>2, <2>3, <2>4, <2>5
  <1> QED BY <1>1, <1>9, <1>11

(* No row is of two. *)
LEMMA OneRequest ==
    ASSUME NEW b \in Seq(Requests), NEW acc, Laid(b, acc), NEW t,
           NEW r \in 1 .. Len(b), NEW q \in 1 .. Len(b), Within(acc, r, t), Within(acc, q, t)
    PROVE  r = q
  <1>1. PICK f : f = FlatRows(b)[t]
    OBVIOUS
  <1>2. f = [req |-> r, pos |-> b[r].start + (t - acc[r - 1]) - 1]
    BY <1>1, Segments
  <1>3. f = [req |-> q, pos |-> b[q].start + (t - acc[q - 1]) - 1]
    BY <1>1, Segments
  <1>4. f.req = r
    BY <1>2
  <1>5. f.req = q
    BY <1>3
  <1> QED BY <1>4, <1>5

(* The rows found under request r are its rows. *)
LEMMA RowsCounted ==
    ASSUME NEW b \in Seq(Requests), NEW acc, Laid(b, acc), NEW r \in 1 .. Len(b)
    PROVE  Cardinality({t \in 1 .. acc[Len(b)] : FlatRows(b)[t].req = r}) = b[r].n
  <1>1. PICK T : T = {t \in 1 .. acc[Len(b)] : FlatRows(b)[t].req = r}
    OBVIOUS
  <1>2. ASSUME NEW t \in T PROVE Within(acc, r, t)
    <2>1. PICK q \in 1 .. Len(b) : Within(acc, q, t)
      BY <1>1, Segments
    <2>2. PICK f : f = FlatRows(b)[t]
      OBVIOUS
    <2>3. f = [req |-> q, pos |-> b[q].start + (t - acc[q - 1]) - 1]
      BY <2>1, <2>2, Segments
    <2>4. f.req = q
      BY <2>3
    <2>5. f.req = r
      BY <2>2, <1>1
    <2> QED BY <2>1, <2>4, <2>5
  <1>3. ASSUME NEW t, Within(acc, r, t) PROVE t \in T
    <2>1. PICK f : f = FlatRows(b)[t]
      OBVIOUS
    <2>2. t \in 1 .. acc[Len(b)] /\ f = [req |-> r, pos |-> b[r].start + (t - acc[r - 1]) - 1]
      BY <2>1, <1>3, Segments
    <2>3. f.req = r
      BY <2>2
    <2> QED BY <2>1, <2>2, <2>3, <1>1
  <1>4. PICK lo, hi : lo = acc[r - 1] + 1 /\ hi = acc[r]
    OBVIOUS
  <1>5. acc[r - 1] \in Nat /\ acc[r] \in Nat /\ acc[r] = acc[r - 1] + b[r].n /\ b[r].n \in Nat /\ b[r].n >= 1
    <2>1. r - 1 \in 0 .. Len(b) /\ r \in 0 .. Len(b)
      OBVIOUS
    <2> QED BY <2>1, RequestFields DEF Laid
  <1>6. T = lo .. hi
    BY <1>2, <1>3, <1>4 DEF Within
  <1>7. lo \in Int /\ hi \in Int /\ lo <= hi /\ hi - lo + 1 = b[r].n
    <2>1. PICK a, n : a = acc[r - 1] /\ n = b[r].n
      OBVIOUS
    <2>2. a \in Nat /\ n \in Nat /\ n >= 1 /\ lo = a + 1 /\ hi = a + n
      BY <2>1, <1>4, <1>5
    <2>3. lo \in Int /\ hi \in Int /\ lo <= hi /\ hi - lo + 1 = n
      BY <2>2
    <2> QED BY <2>1, <2>3
  <1>8. Cardinality(lo .. hi) = hi - lo + 1
    BY <1>7, FS_Interval
  <1> QED BY <1>1, <1>6, <1>7, <1>8

(* The lengths of the requests. *)
Lengths(lens, b) == lens = [r \in 1 .. Len(b) |-> b[r].n]

(* The prefix sums are where the requests begin. *)
LEMMA StartsAre ==
    ASSUME NEW b \in Seq(Requests), NEW acc, Laid(b, acc),
           NEW lens, Lengths(lens, b)
    PROVE  /\ DOMAIN Starts(lens) = 1 .. Len(b)
           /\ \A r \in 1 .. Len(b) : Starts(lens)[r] = acc[r - 1] + 1
  <1>1. PICK m : m = Len(b)
    OBVIOUS
  <1>2. m \in Nat /\ Len(lens) = m /\ \A r \in 1 .. m : lens[r] = b[r].n
    <2>1. \A r \in 1 .. m : lens[r] = b[r].n /\ lens[r] \in Nat
      BY <1>1, RequestFields DEF Lengths
    <2>2. m \in Nat /\ lens = [r \in 1 .. m |-> lens[r]]
      BY <1>1 DEF Lengths
    <2> QED BY <2>1, <2>2, MapIsSeq
  <1>3. /\ \A r \in 0 .. m : acc[r] \in Nat
        /\ acc[0] = 0 /\ \A r \in 1 .. m : acc[r] = acc[r - 1] + b[r].n
    BY <1>1 DEF Laid
  <1> DEFINE Sums(f) == f = [r \in 1 .. Len(lens) + 1 |-> IF r = 1 THEN 1 ELSE f[r - 1] + lens[r - 1]]
             sum == CHOOSE f : Sums(f)
  <1>4. PICK g : g = [r \in 1 .. m + 1 |-> acc[r - 1] + 1]
    OBVIOUS
  <1>5. \A r \in 1 .. m + 1 : g[r] = acc[r - 1] + 1
    BY <1>4
  <1>6. ASSUME NEW r \in 1 .. m + 1 PROVE g[r] = IF r = 1 THEN 1 ELSE g[r - 1] + lens[r - 1]
    <2>1. CASE r = 1
      BY <2>1, <1>3, <1>5
    <2>2. CASE r # 1
      <3>1. PICK p : p = r - 1
        OBVIOUS
      <3>2. p \in 1 .. m /\ p \in 1 .. m + 1 /\ p - 1 \in 0 .. m
        BY <3>1, <2>2, <1>2
      <3>3. g[r] = acc[p] + 1 /\ g[p] = acc[p - 1] + 1
        BY <3>1, <3>2, <1>5
      <3>4. acc[p] = acc[p - 1] + lens[p] /\ acc[p - 1] \in Nat /\ lens[p] \in Nat
        BY <3>2, <1>1, <1>2, <1>3, RequestFields
      <3>5. g[r] = g[p] + lens[p]
        BY <3>3, <3>4
      <3> QED BY <3>1, <3>5, <2>2
    <2> QED BY <2>1, <2>2
  <1>7. Sums(g)
    <2>1. g = [r \in 1 .. m + 1 |-> g[r]]
      BY <1>4
    <2> QED BY <2>1, <1>2, <1>6
  <1>8. Sums(sum)
    BY <1>7
  <1>9. Starts(lens) = [r \in 1 .. m |-> sum[r]]
    <2>1. Starts(lens) = [r \in 1 .. Len(lens) |-> sum[r]]
      BY DEF Starts
    <2> QED BY <2>1, <1>2
  <1>10. \A r \in 1 .. m + 1 : sum[r] = IF r = 1 THEN 1 ELSE sum[r - 1] + lens[r - 1]
    BY <1>2, <1>8
  <1> HIDE DEF sum
  <1>11. PICK S : S = {p \in Nat : p <= m => sum[p + 1] = acc[p] + 1}
    OBVIOUS
  <1>12. 0 \in S
    BY <1>2, <1>3, <1>10, <1>11
  <1>13. ASSUME NEW p \in Nat, p \in S PROVE p + 1 \in S
    <2> SUFFICES ASSUME p + 1 <= m PROVE sum[(p + 1) + 1] = acc[p + 1] + 1
      BY <1>11
    <2>1. p + 1 \in 1 .. m /\ (p + 1) + 1 \in 1 .. m + 1 /\ (p + 1) + 1 # 1 /\ ((p + 1) + 1) - 1 = p + 1
          /\ (p + 1) - 1 = p /\ p \in 0 .. m /\ p <= m
      BY <1>2
    <2>2. sum[(p + 1) + 1] = sum[p + 1] + lens[p + 1]
      BY <2>1, <1>10
    <2>3. sum[p + 1] = acc[p] + 1
      BY <2>1, <1>11, <1>13
    <2>4. acc[p + 1] = acc[p] + lens[p + 1] /\ acc[p] \in Nat /\ lens[p + 1] \in Nat
      BY <2>1, <1>1, <1>2, <1>3, RequestFields
    <2>5. PICK a, l : a = acc[p] /\ l = lens[p + 1]
      OBVIOUS
    <2>6. a \in Nat /\ l \in Nat /\ sum[(p + 1) + 1] = (a + 1) + l /\ acc[p + 1] = a + l
      BY <2>2, <2>3, <2>4, <2>5
    <2>7. (a + 1) + l = (a + l) + 1
      BY <2>6
    <2> QED BY <2>6, <2>7
  <1>14. \A p \in Nat : p \in S
    BY <1>12, <1>13, SetInduction
  <1>15. ASSUME NEW r \in 1 .. m PROVE sum[r] = acc[r - 1] + 1
    <2>1. PICK p : p = r - 1
      OBVIOUS
    <2>2. p \in Nat /\ p <= m /\ p + 1 = r
      BY <2>1, <1>2
    <2> QED BY <2>1, <2>2, <1>11, <1>14
  <1> QED BY <1>1, <1>9, <1>15

-----------------------------------------------------------------------------
(* Tiles *)

(* Query q is of tile x. *)
LEMMA TileOf ==
    ASSUME NEW T \in Nat \ {0}, NEW q, NEW x \in Nat \ {0}
    PROVE  q \in (x - 1) * T .. x * T - 1 <=> q \in Nat /\ q \div T + 1 = x
  <1>1. PICK y, lo, hi : y = x - 1 /\ lo = y * T /\ hi = x * T
    OBVIOUS
  <1>2. y \in Nat /\ x \in Nat /\ x = y + 1
    BY <1>1
  <1>3. lo \in Nat /\ hi \in Nat
    BY <1>1, <1>2
  <1>4. q \in lo .. hi - 1 <=> q \in Nat /\ lo <= q /\ q < hi
    BY <1>3
  <1>5. ASSUME q \in Nat PROVE lo <= q /\ q < hi <=> q \div T + 1 = x
    <2>1. PICK d : d = q \div T
      OBVIOUS
    <2>2. d \in Nat /\ (y * T <= q <=> y <= d) /\ (q < x * T <=> d < x)
      BY <2>1, <1>2, <1>5, BlockOf
    <2> QED BY <2>1, <2>2, <1>1, <1>2
  <1> QED BY <1>1, <1>4, <1>5

(* The tiles of the longest prefill are enough for every query. *)
LEMMA TilesSuffice ==
    ASSUME NEW T \in Nat \ {0}, NEW l \in Nat, NEW q \in Nat, q < l
    PROVE  (l + T - 1) \div T \in Nat /\ q \div T + 1 \in 1 .. (l + T - 1) \div T
  <1>1. PICK d, e, u : d = q \div T /\ u = l + T - 1 /\ e = u \div T
    OBVIOUS
  <1>2. u \in Nat
    BY <1>1
  <1>3. d \in Nat /\ e \in Nat /\ d * T <= q
    BY <1>1, <1>2, BlockOf
  <1>4. (d + 1) * T = d * T + T /\ d * T \in Nat /\ d + 1 \in Nat
    BY <1>3
  <1>5. (d + 1) * T <= u
    BY <1>1, <1>3, <1>4
  <1>6. d + 1 <= u \div T
    BY <1>2, <1>4, <1>5, BlockOf
  <1> QED BY <1>1, <1>3, <1>6

-----------------------------------------------------------------------------
(* What a step leaves for the kernels *)

(* The requests of batch b that decode, or not. *)
Single(b) == {r \in 1 .. Len(b) : b[r].n = 1}
Longer(b) == {r \in 1 .. Len(b) : b[r].n # 1}

(* The buffers hold batch b as far as it reaches, and the kernels were     *)
(* launched for as much: acc places its rows, dr and pr are its decodes    *)
(* and prefills.                                                           *)
PackedRows(b, acc) ==
    /\ Laid(b, acc)
    /\ \A t \in 1 .. acc[Len(b)] : rows[t] = FlatRows(b)[t]
    /\ \A r \in 1 .. Len(b) :
          /\ qlen[r] = b[r].n /\ qstart[r] = acc[r - 1] + 1
          /\ \A g \in 1 .. Len(b[r].blocks) : bt[r][g] = b[r].blocks[g]
PackedRids(b, dr, pr) ==
    /\ Lists(dr, Single(b), Len(b)) /\ Lists(pr, Longer(b), Len(b))
    /\ \A i \in 1 .. Len(dr) : decode_rids[i] = dr[i]
    /\ \A i \in 1 .. Len(pr) : prefill_rids[i] = pr[i]
Launched(b, acc, dr, pr) ==
    /\ launch.rows = acc[Len(b)] /\ launch.decode = Len(dr) /\ launch.prefill = Len(pr)
    /\ pr # <<>> => launch.tiles \in Nat
    /\ \A r \in Longer(b) : \A q \in 0 .. b[r].n - 1 : q \div QTile + 1 \in 1 .. launch.tiles
Packed(b, acc, dr, pr) ==
    /\ batch = b /\ b \in Seq(Requests)
    /\ PackedRows(b, acc) /\ PackedRids(b, dr, pr) /\ Launched(b, acc, dr, pr)
    /\ sampled = LogitsRows(b)

(* A thread block of either kernel. *)
DecodeBlock(i) ==
    [block |-> <<i>>, req |-> decode_rids[i], rows |-> {qstart[decode_rids[i]]}]
Queries(r, x) == {q \in (x - 1) * QTile .. x * QTile - 1 : q < qlen[r]}
PrefillBlock(z, x) ==
    [block |-> <<z, x>>, req |-> prefill_rids[z],
     rows |-> {qstart[prefill_rids[z]] + q : q \in Queries(prefill_rids[z], x)}]

(* A thread block of the decode kernel computes the row of its request. *)
LEMMA DecodeBlocks ==
    ASSUME NEW b, NEW acc, NEW dr, NEW pr, Packed(b, acc, dr, pr)
    PROVE  /\ DecodeWork = {DecodeBlock(i) : i \in 1 .. Len(dr)}
           /\ \A i \in 1 .. Len(dr) :
                 /\ dr[i] \in Single(b) /\ DecodeBlock(i).req = dr[i]
                 /\ \A t : t \in DecodeBlock(i).rows <=> Within(acc, dr[i], t)
           /\ \A r \in Single(b) : \E i \in 1 .. Len(dr) : dr[i] = r
           /\ \A i, j \in 1 .. Len(dr) : dr[i] = dr[j] => i = j
  <1>0. /\ b \in Seq(Requests) /\ Laid(b, acc) /\ Lists(dr, Single(b), Len(b))
        /\ launch.decode = Len(dr)
        /\ \A r \in 1 .. Len(b) : qstart[r] = acc[r - 1] + 1
        /\ \A i \in 1 .. Len(dr) : decode_rids[i] = dr[i]
    BY DEF Packed, PackedRows, PackedRids, Launched
  <1>1. DecodeWork = {DecodeBlock(i) : i \in 1 .. Len(dr)}
    BY <1>0 DEF DecodeWork, DecodeBlock
  <1>2. DOMAIN dr = 1 .. Len(dr) /\ Distinct(dr) /\ ToSet(dr) = Single(b)
    BY <1>0 DEF Lists
  <1>3. ASSUME NEW i \in 1 .. Len(dr)
        PROVE  /\ dr[i] \in Single(b) /\ DecodeBlock(i).req = dr[i]
               /\ \A t : t \in DecodeBlock(i).rows <=> Within(acc, dr[i], t)
    <2>1. PICK r : r = dr[i]
      OBVIOUS
    <2>2. r \in Single(b)
      BY <2>1, <1>2 DEF ToSet
    <2>3. r \in 1 .. Len(b) /\ b[r].n = 1
      BY <2>2 DEF Single
    <2>4. DecodeBlock(i).req = r /\ DecodeBlock(i).rows = {acc[r - 1] + 1}
      BY <2>1, <2>3, <1>0 DEF DecodeBlock
    <2>5. acc[r - 1] \in Nat /\ acc[r] = acc[r - 1] + 1
      <3>1. r - 1 \in 0 .. Len(b)
        BY <2>3, <1>0
      <3> QED BY <3>1, <2>3, <1>0 DEF Laid
    <2>6. \A t : t \in {acc[r - 1] + 1} <=> Within(acc, r, t)
      BY <2>5 DEF Within
    <2> QED BY <2>1, <2>2, <2>4, <2>6
  <1>4. \A r \in Single(b) : \E i \in 1 .. Len(dr) : dr[i] = r
    BY <1>2 DEF ToSet
  <1>5. \A i, j \in 1 .. Len(dr) : dr[i] = dr[j] => i = j
    BY <1>2 DEF Distinct
  <1> QED BY <1>1, <1>3, <1>4, <1>5

(* A thread block of the prefill kernel computes the rows of its request   *)
(* that are in its tile.                                                   *)
LEMMA PrefillBlocks ==
    ASSUME NEW b, NEW acc, NEW dr, NEW pr, Packed(b, acc, dr, pr)
    PROVE  /\ PrefillWork = {PrefillBlock(z, x) : z \in 1 .. Len(pr), x \in 1 .. launch.tiles}
           /\ \A z \in 1 .. Len(pr) : pr[z] \in Longer(b)
           /\ \A z \in 1 .. Len(pr), x \in 1 .. launch.tiles :
                 /\ PrefillBlock(z, x).req = pr[z]
                 /\ \A t : t \in PrefillBlock(z, x).rows
                       <=> Within(acc, pr[z], t) /\ (t - acc[pr[z] - 1] - 1) \div QTile + 1 = x
           /\ \A r \in Longer(b) : \E z \in 1 .. Len(pr) : pr[z] = r
           /\ \A i, j \in 1 .. Len(pr) : pr[i] = pr[j] => i = j
  <1>0. /\ b \in Seq(Requests) /\ Laid(b, acc) /\ Lists(pr, Longer(b), Len(b))
        /\ launch.prefill = Len(pr) /\ (pr # <<>> => launch.tiles \in Nat)
        /\ \A r \in 1 .. Len(b) : qstart[r] = acc[r - 1] + 1 /\ qlen[r] = b[r].n
        /\ \A i \in 1 .. Len(pr) : prefill_rids[i] = pr[i]
    BY DEF Packed, PackedRows, PackedRids, Launched
  <1>1. PrefillWork = {PrefillBlock(z, x) : z \in 1 .. Len(pr), x \in 1 .. launch.tiles}
    BY <1>0 DEF PrefillWork, PrefillBlock, Queries
  <1>2. DOMAIN pr = 1 .. Len(pr) /\ Distinct(pr) /\ ToSet(pr) = Longer(b)
    BY <1>0 DEF Lists
  <1>3. \A z \in 1 .. Len(pr) : pr[z] \in Longer(b)
    BY <1>2 DEF ToSet
  <1>4. ASSUME NEW z \in 1 .. Len(pr), NEW x \in 1 .. launch.tiles
        PROVE  /\ PrefillBlock(z, x).req = pr[z]
               /\ \A t : t \in PrefillBlock(z, x).rows
                     <=> Within(acc, pr[z], t) /\ (t - acc[pr[z] - 1] - 1) \div QTile + 1 = x
    <2>1. PICK r : r = pr[z]
      OBVIOUS
    <2>2. r \in 1 .. Len(b)
      BY <2>1, <1>3 DEF Longer
    <2>3. PICK a, n : a = acc[r - 1] /\ n = b[r].n
      OBVIOUS
    <2>4. a \in Nat /\ n \in Nat /\ acc[r] = a + n
      <3>1. r - 1 \in 0 .. Len(b)
        BY <2>2, <1>0
      <3> QED BY <3>1, <2>2, <2>3, <1>0, RequestFields DEF Laid
    <2>5. PICK Q : Q = Queries(r, x)
      OBVIOUS
    <2>6. PrefillBlock(z, x).req = r /\ PrefillBlock(z, x).rows = {(a + 1) + q : q \in Q}
      BY <2>1, <2>2, <2>3, <2>5, <1>0 DEF PrefillBlock
    <2>7. x \in Nat \ {0} /\ QTile \in Nat \ {0}
      <3>1. pr # <<>>
        OBVIOUS
      <3> QED BY <3>1, <1>0, RuntimeAssumption
    <2>8. \A q : q \in Q <=> q \in Nat /\ q \div QTile + 1 = x /\ q < n
      <3>1. \A q : q \in (x - 1) * QTile .. x * QTile - 1 <=> q \in Nat /\ q \div QTile + 1 = x
        BY <2>7, TileOf
      <3>2. qlen[r] = n
        BY <2>2, <2>3, <1>0
      <3> QED BY <3>1, <3>2, <2>5 DEF Queries
    <2>9. ASSUME NEW t
          PROVE  t \in {(a + 1) + q : q \in Q} <=> Within(acc, r, t) /\ (t - a - 1) \div QTile + 1 = x
      <3>1. ASSUME t \in {(a + 1) + q : q \in Q}
            PROVE  Within(acc, r, t) /\ (t - a - 1) \div QTile + 1 = x
        <4>1. PICK q \in Q : t = (a + 1) + q
          BY <3>1
        <4>2. q \in Nat /\ q \div QTile + 1 = x /\ q < n
          BY <4>1, <2>8
        <4>3. t - a - 1 = q /\ t \in a + 1 .. a + n
          BY <4>1, <4>2, <2>4
        <4> QED BY <4>2, <4>3, <2>3, <2>4 DEF Within
      <3>2. ASSUME Within(acc, r, t), (t - a - 1) \div QTile + 1 = x
            PROVE  t \in {(a + 1) + q : q \in Q}
        <4>1. t \in a + 1 .. a + n
          BY <3>2, <2>3, <2>4 DEF Within
        <4>2. PICK q : q = t - a - 1
          OBVIOUS
        <4>3. q \in Nat /\ q < n /\ t = (a + 1) + q /\ q \div QTile + 1 = x
          BY <4>1, <4>2, <3>2, <2>4
        <4>4. q \in Q
          BY <4>3, <2>8
        <4> QED BY <4>3, <4>4
      <3> QED BY <3>1, <3>2
    <2> QED BY <2>1, <2>3, <2>6, <2>9
  <1>5. \A r \in Longer(b) : \E z \in 1 .. Len(pr) : pr[z] = r
    BY <1>2 DEF ToSet
  <1>6. \A i, j \in 1 .. Len(pr) : pr[i] = pr[j] => i = j
    BY <1>2 DEF Distinct
  <1> QED BY <1>1, <1>3, <1>4, <1>5, <1>6

(* Thread block v works on row t. *)
Computes(v, t) == t \in v.rows

(* Whatever works on a row of a request works for that request. *)
LEMMA WorkIsOwn ==
    ASSUME NEW b, NEW acc, NEW dr, NEW pr, Packed(b, acc, dr, pr),
           NEW v \in DecodeWork \cup PrefillWork, NEW t, Computes(v, t)
    PROVE  \/ \E i \in 1 .. Len(dr) : v = DecodeBlock(i) /\ v.req = dr[i]
                 /\ dr[i] \in Single(b) /\ Within(acc, dr[i], t)
           \/ \E z \in 1 .. Len(pr), x \in 1 .. launch.tiles :
                 /\ v = PrefillBlock(z, x) /\ v.req = pr[z] /\ pr[z] \in Longer(b)
                 /\ Within(acc, pr[z], t) /\ (t - acc[pr[z] - 1] - 1) \div QTile + 1 = x
  <1>1. CASE v \in DecodeWork
    <2>1. PICK i \in 1 .. Len(dr) : v = DecodeBlock(i)
      BY <1>1, DecodeBlocks
    <2>2. dr[i] \in Single(b) /\ v.req = dr[i] /\ Within(acc, dr[i], t)
      BY <2>1, DecodeBlocks DEF Computes
    <2> QED BY <2>1, <2>2
  <1>2. CASE v \in PrefillWork
    <2>1. PICK z \in 1 .. Len(pr), x \in 1 .. launch.tiles : v = PrefillBlock(z, x)
      BY <1>2, PrefillBlocks
    <2>2. pr[z] \in Longer(b)
      BY PrefillBlocks
    <2>3. v.req = pr[z] /\ Within(acc, pr[z], t) /\ (t - acc[pr[z] - 1] - 1) \div QTile + 1 = x
      BY <2>1, PrefillBlocks DEF Computes
    <2> QED BY <2>1, <2>2, <2>3
  <1> QED BY <1>1, <1>2

(* No row is computed twice. *)
LEMMA OneBlock ==
    ASSUME NEW b, NEW acc, NEW dr, NEW pr, Packed(b, acc, dr, pr), NEW t,
           NEW v \in DecodeWork \cup PrefillWork, Computes(v, t),
           NEW w \in DecodeWork \cup PrefillWork, Computes(w, t)
    PROVE  v = w
  <1>0. b \in Seq(Requests) /\ Laid(b, acc)
    BY DEF Packed, PackedRows
  <1>1. \A r, q \in 1 .. Len(b) : Within(acc, r, t) /\ Within(acc, q, t) => r = q
    BY <1>0, OneRequest
  <1>2. /\ \A r \in Single(b) : r \in 1 .. Len(b) /\ r \notin Longer(b)
        /\ \A r \in Longer(b) : r \in 1 .. Len(b)
    BY DEF Single, Longer
  <1>3. /\ \A i, j \in 1 .. Len(dr) : dr[i] = dr[j] => i = j
        /\ \A i, j \in 1 .. Len(pr) : pr[i] = pr[j] => i = j
    BY DecodeBlocks, PrefillBlocks
  <1> DEFINE D(u) == \E i \in 1 .. Len(dr) : u = DecodeBlock(i) /\ u.req = dr[i]
                        /\ dr[i] \in Single(b) /\ Within(acc, dr[i], t)
             P(u) == \E z \in 1 .. Len(pr), x \in 1 .. launch.tiles :
                        /\ u = PrefillBlock(z, x) /\ u.req = pr[z] /\ pr[z] \in Longer(b)
                        /\ Within(acc, pr[z], t) /\ (t - acc[pr[z] - 1] - 1) \div QTile + 1 = x
  <1>4. D(v) \/ P(v)
    BY WorkIsOwn
  <1>5. D(w) \/ P(w)
    BY WorkIsOwn
  <1>6. ASSUME D(v), D(w) PROVE v = w
    <2>1. PICK i \in 1 .. Len(dr) : v = DecodeBlock(i) /\ dr[i] \in Single(b) /\ Within(acc, dr[i], t)
      BY <1>6
    <2>2. PICK j \in 1 .. Len(dr) : w = DecodeBlock(j) /\ dr[j] \in Single(b) /\ Within(acc, dr[j], t)
      BY <1>6
    <2>3. dr[i] = dr[j]
      BY <2>1, <2>2, <1>1, <1>2
    <2>4. i = j
      BY <2>3, <1>3
    <2> QED BY <2>1, <2>2, <2>4
  <1>7. ASSUME P(v), P(w) PROVE v = w
    <2>1. PICK i \in 1 .. Len(pr), x \in 1 .. launch.tiles :
             /\ v = PrefillBlock(i, x) /\ pr[i] \in Longer(b)
             /\ Within(acc, pr[i], t) /\ (t - acc[pr[i] - 1] - 1) \div QTile + 1 = x
      BY <1>7
    <2>2. PICK j \in 1 .. Len(pr), y \in 1 .. launch.tiles :
             /\ w = PrefillBlock(j, y) /\ pr[j] \in Longer(b)
             /\ Within(acc, pr[j], t) /\ (t - acc[pr[j] - 1] - 1) \div QTile + 1 = y
      BY <1>7
    <2>3. pr[i] = pr[j]
      BY <2>1, <2>2, <1>1, <1>2
    <2>4. i = j
      BY <2>3, <1>3
    <2>5. x = y
      BY <2>1, <2>2, <2>3
    <2> QED BY <2>1, <2>2, <2>4, <2>5
  <1>8. ASSUME NEW u1, NEW u2, D(u1), P(u2) PROVE FALSE
    <2>1. PICK i \in 1 .. Len(dr) : dr[i] \in Single(b) /\ Within(acc, dr[i], t)
      BY <1>8
    <2>2. PICK j \in 1 .. Len(pr) : pr[j] \in Longer(b) /\ Within(acc, pr[j], t)
      BY <1>8
    <2>3. dr[i] = pr[j]
      BY <2>1, <2>2, <1>1, <1>2
    <2> QED BY <2>1, <2>2, <2>3, <1>2
  <1> HIDE DEF D, P
  <1> QED BY <1>4, <1>5, <1>6, <1>7, <1>8

(* Every row of a request is computed for it. *)
LEMMA RowIsComputed ==
    ASSUME NEW b, NEW acc, NEW dr, NEW pr, Packed(b, acc, dr, pr),
           NEW r \in 1 .. Len(b), NEW t, Within(acc, r, t)
    PROVE  \E w \in DecodeWork \cup PrefillWork : w.req = r /\ Computes(w, t)
  <1>1. CASE r \in Single(b)
    <2>1. PICK i \in 1 .. Len(dr) : dr[i] = r
      BY <1>1, DecodeBlocks
    <2>2. PICK w : w = DecodeBlock(i)
      OBVIOUS
    <2>3. w \in DecodeWork
      BY <2>2, DecodeBlocks
    <2>4. w.req = r /\ Computes(w, t)
      BY <2>1, <2>2, DecodeBlocks DEF Computes
    <2> QED BY <2>3, <2>4
  <1>2. CASE r \in Longer(b)
    <2>1. PICK z \in 1 .. Len(pr) : pr[z] = r
      BY <1>2, PrefillBlocks
    <2>2. PICK q : q = t - acc[r - 1] - 1
      OBVIOUS
    <2>3. q \in 0 .. b[r].n - 1
      <3>1. b \in Seq(Requests) /\ Laid(b, acc)
        BY DEF Packed, PackedRows
      <3>2. r - 1 \in 0 .. Len(b)
        BY <3>1
      <3>3. acc[r - 1] \in Nat /\ acc[r] = acc[r - 1] + b[r].n /\ b[r].n \in Nat
        BY <3>1, <3>2, RequestFields DEF Laid
      <3>4. PICK a, n : a = acc[r - 1] /\ n = b[r].n
        OBVIOUS
      <3>5. a \in Nat /\ n \in Nat /\ t \in a + 1 .. a + n /\ q = t - a - 1
        BY <3>3, <3>4, <2>2 DEF Within
      <3>6. q \in 0 .. n - 1
        BY <3>5
      <3> QED BY <3>4, <3>6
    <2>4. PICK x : x = q \div QTile + 1
      OBVIOUS
    <2>5. x \in 1 .. launch.tiles
      BY <2>3, <2>4, <1>2 DEF Packed, Launched
    <2>6. PICK w : w = PrefillBlock(z, x)
      OBVIOUS
    <2>7. w \in PrefillWork
      BY <2>5, <2>6, PrefillBlocks
    <2>8. w.req = r /\ Computes(w, t)
      BY <2>1, <2>2, <2>4, <2>5, <2>6, PrefillBlocks DEF Computes
    <2> QED BY <2>7, <2>8
  <1> QED BY <1>1, <1>2 DEF Single, Longer

(* Where the kernels look for a position of a request is its own block. *)
LEMMA OwnBlocks ==
    ASSUME NEW b, NEW acc, NEW dr, NEW pr, Packed(b, acc, dr, pr),
           NEW r \in 1 .. Len(b), NEW p \in Nat, p < b[r].start + b[r].n
    PROVE  bt[r][p \div BlockSize + 1] = b[r].blocks[p \div BlockSize + 1]
  <1>1. b \in Seq(Requests)
    BY DEF Packed
  <1>2. PICK l : l = b[r].start + b[r].n
    OBVIOUS
  <1>3. /\ l \in Nat /\ BlockSize \in Nat \ {0}
        /\ Len(b[r].blocks) = (l + BlockSize - 1) \div BlockSize
    BY <1>1, <1>2, RequestFields, RuntimeAssumption
  <1>4. p \div BlockSize + 1 \in 1 .. Len(b[r].blocks)
    BY <1>2, <1>3, TilesSuffice
  <1> QED BY <1>4 DEF Packed, PackedRows

(* What the kernels then do is the batch. *)
LEMMA PackedServes ==
    ASSUME NEW b, NEW acc, NEW dr, NEW pr, Packed(b, acc, dr, pr)
    PROVE  StepServesBatch
  <1>0. /\ batch = b /\ b \in Seq(Requests) /\ Laid(b, acc) /\ sampled = LogitsRows(b)
        /\ launch.rows = acc[Len(b)]
        /\ \A t \in 1 .. acc[Len(b)] : rows[t] = FlatRows(b)[t]
    BY DEF Packed, PackedRows, Launched
  <1>1. PICK flat, work : flat = FlatRows(b) /\ work = DecodeWork \cup PrefillWork
    OBVIOUS
  <1>2. Len(flat) = acc[Len(b)] /\ DOMAIN flat = 1 .. acc[Len(b)]
    BY <1>0, <1>1 DEF Laid
  <1>3. \A t \in DOMAIN flat : \E r \in 1 .. Len(b) : Within(acc, r, t)
    BY <1>0, <1>2, Segments
  <1>4. \A r \in 1 .. Len(b) : \A t : Within(acc, r, t) =>
            t \in DOMAIN flat /\ t - acc[r - 1] \in 1 .. b[r].n
            /\ flat[t] = [req |-> r, pos |-> b[r].start + (t - acc[r - 1]) - 1]
    BY <1>0, <1>1, <1>2, Segments
  <1>5. ASSUME NEW v \in work, NEW t \in v.rows PROVE t \in DOMAIN flat
    <2>1. Computes(v, t)
      BY DEF Computes
    <2>2. \E r \in 1 .. Len(b) : Within(acc, r, t)
      <3>1. \/ \E i \in 1 .. Len(dr) : dr[i] \in Single(b) /\ Within(acc, dr[i], t)
            \/ \E z \in 1 .. Len(pr) : pr[z] \in Longer(b) /\ Within(acc, pr[z], t)
        BY <2>1, <1>1, WorkIsOwn
      <3> QED BY <3>1 DEF Single, Longer
    <2> QED BY <2>2, <1>4
  <1>6. ASSUME NEW t \in DOMAIN flat
        PROVE  \E w \in work : w.req = flat[t].req /\ t \in w.rows /\ {v \in work : t \in v.rows} = {w}
    <2>1. PICK r \in 1 .. Len(b) : Within(acc, r, t)
      BY <1>3
    <2>2. flat[t].req = r
      <3>1. PICK f : f = flat[t]
        OBVIOUS
      <3>2. f = [req |-> r, pos |-> b[r].start + (t - acc[r - 1]) - 1]
        BY <3>1, <2>1, <1>4
      <3>3. f.req = r
        BY <3>2
      <3> QED BY <3>1, <3>3
    <2>3. PICK w \in work : w.req = r /\ Computes(w, t)
      BY <2>1, <1>1, RowIsComputed
    <2>4. \A v \in work : Computes(v, t) => v = w
      BY <2>3, <1>1, OneBlock
    <2> QED BY <2>2, <2>3, <2>4 DEF Computes
  <1>7. UNION {w.rows : w \in work} = DOMAIN flat
    BY <1>5, <1>6
  <1>8. ASSUME NEW t \in DOMAIN flat, NEW p \in 0 .. flat[t].pos
        PROVE  Slot(flat[t].req, p)
                 = <<b[flat[t].req].blocks[p \div BlockSize + 1], p % BlockSize>>
    <2>1. PICK r \in 1 .. Len(b) : Within(acc, r, t)
      BY <1>3
    <2>2. PICK k : k = t - acc[r - 1]
      OBVIOUS
    <2>3. k \in 1 .. b[r].n /\ flat[t] = [req |-> r, pos |-> b[r].start + k - 1]
      BY <2>1, <2>2, <1>4
    <2>4. b[r].start \in Nat /\ b[r].n \in Nat
      BY <1>0, RequestFields
    <2>5. flat[t].req = r /\ flat[t].pos = b[r].start + k - 1
      BY <2>3
    <2>6. p \in Nat /\ p < b[r].start + b[r].n
      BY <2>3, <2>4, <2>5
    <2>7. bt[r][p \div BlockSize + 1] = b[r].blocks[p \div BlockSize + 1]
      BY <2>6, OwnBlocks
    <2> QED BY <2>5, <2>7 DEF Slot
  <1>9. \A t \in DOMAIN flat : rows[t] = flat[t]
    BY <1>0, <1>1, <1>2
  <1> QED BY <1>0, <1>1, <1>2, <1>6, <1>7, <1>8, <1>9 DEF StepServesBatch

-----------------------------------------------------------------------------
(* The step *)

(* The buffers keep their sizes. *)
Buffers ==
    /\ DOMAIN rows = 1 .. MaxRows
    /\ DOMAIN qstart = 1 .. Slots /\ DOMAIN qlen = 1 .. Slots
    /\ DOMAIN decode_rids = 1 .. Slots /\ DOMAIN prefill_rids = 1 .. Slots
    /\ DOMAIN lrows = 1 .. Slots
    /\ \A r \in 1 .. Slots : DOMAIN bt[r] = 1 .. MaxBlocks

(* A graph was captured for decodes only. *)
DecodesOnly == \A h \in Handle : graphs[h].prefill = 0

(* Writing the first elements of a buffer. *)
LEMMA OverIs ==
    ASSUME NEW buffer, NEW s
    PROVE  /\ DOMAIN Over(buffer, s) = DOMAIN buffer
           /\ \A i \in DOMAIN s : i \in DOMAIN buffer => Over(buffer, s)[i] = s[i]
  BY DEF Over

(* A batch that fits. *)
LEMMA BatchFits ==
    ASSUME NEW b \in Batches, NEW acc, Laid(b, acc)
    PROVE  b # <<>> /\ Len(b) \in 1 .. Slots /\ acc[Len(b)] <= MaxRows
  <1>1. PICK m \in 1 .. Slots : b \in [1 .. m -> Requests]
    BY DEF Batches
  <1>2. Slots \in Nat /\ m \in Nat
    BY RuntimeAssumption
  <1>3. b \in Seq(Requests) /\ Len(b) = m
    BY <1>1, <1>2
  <1>4. RowsTo(b, Len(b)) <= MaxRows
    BY DEF Batches
  <1>5. RowsTo(b, Len(b)) = acc[Len(b)]
    BY <1>1, <1>2, <1>3 DEF Laid
  <1> QED BY <1>1, <1>2, <1>3, <1>4, <1>5

(* A batch is a sequence of requests. *)
LEMMA BatchIsSeq ==
    ASSUME NEW b \in Batches
    PROVE  b \in Seq(Requests)
  <1>1. PICK m \in 1 .. Slots : b \in [1 .. m -> Requests]
    BY DEF Batches
  <1> QED BY <1>1, RuntimeAssumption

(* PrepareInputs puts the rows, tables, lengths and starts in place. *)
LEMMA PacksRows ==
    ASSUME Buffers, NEW b \in Batches, NEW acc, Laid(b, acc), batch' = b, PrepareInputs
    PROVE  PackedRows(b, acc)'
  <1>1. PICK m, flat : m = Len(b) /\ flat = FlatRows(b)
    OBVIOUS
  <1>2. b \in Seq(Requests) /\ m \in Nat /\ m <= Slots /\ Slots \in Nat /\ MaxRows \in Nat
        /\ DOMAIN b = 1 .. m
    BY <1>1, BatchFits, BatchIsSeq, RuntimeAssumption
  <1>3. Len(flat) = acc[m] /\ DOMAIN flat = 1 .. acc[m] /\ acc[m] \in Nat /\ acc[m] <= MaxRows
    <2>1. m \in 0 .. Len(b)
      BY <1>1, <1>2
    <2> QED BY <2>1, <1>1, BatchFits DEF Laid
  <1>4. \A t \in 1 .. acc[m] : rows'[t] = flat[t]
    <2>1. rows' = Over(rows, flat)
      BY <1>1 DEF PrepareInputs, UploadRows
    <2>2. \A t \in 1 .. acc[m] : t \in DOMAIN rows
      BY <1>2, <1>3 DEF Buffers
    <2> QED BY <2>1, <2>2, <1>3, OverIs
  <1>5. PICK lens : lens = [r \in DOMAIN batch' |-> Cardinality(RowsOf(r))]
    OBVIOUS
  <1>6. qlen' = Over(qlen, lens) /\ qstart' = Over(qstart, Starts(lens))
    BY <1>5 DEF PrepareInputs, SplitDecodePrefill
  <1>7. \A r \in 1 .. m : Cardinality(RowsOf(r)) = b[r].n
    <2> SUFFICES ASSUME NEW r \in 1 .. m PROVE Cardinality(RowsOf(r)) = b[r].n
      OBVIOUS
    <2>1. RowsOf(r) = {t \in 1 .. acc[m] : flat[t].req = r}
      BY <1>1, <1>3, <1>4 DEF RowsOf
    <2>2. Cardinality({t \in 1 .. acc[m] : flat[t].req = r}) = b[r].n
      BY <1>1, <1>2, RowsCounted
    <2> QED BY <2>1, <2>2
  <1>8. lens = [r \in 1 .. m |-> b[r].n]
    BY <1>2, <1>5, <1>7
  <1>9. DOMAIN Starts(lens) = 1 .. m /\ \A r \in 1 .. m : Starts(lens)[r] = acc[r - 1] + 1
    <2>1. b \in Seq(Requests) /\ Lengths(lens, b)
      BY <1>1, <1>2, <1>8 DEF Lengths
    <2>2. /\ DOMAIN Starts(lens) = 1 .. Len(b)
          /\ \A r \in 1 .. Len(b) : Starts(lens)[r] = acc[r - 1] + 1
      BY <2>1, StartsAre
    <2> QED BY <2>2, <1>1
  <1>10. \A r \in 1 .. m : r \in 1 .. Slots /\ r \in DOMAIN lens /\ lens[r] = b[r].n
    BY <1>2, <1>8
  <1>11. \A r \in 1 .. m : qlen'[r] = b[r].n
    <2>1. \A r \in 1 .. m : r \in DOMAIN lens /\ r \in DOMAIN qlen
      BY <1>10 DEF Buffers
    <2>2. \A r \in 1 .. m : qlen'[r] = lens[r]
      BY <2>1, <1>6, OverIs
    <2> QED BY <2>2, <1>10
  <1>12. \A r \in 1 .. m : qstart'[r] = acc[r - 1] + 1
    <2>1. \A r \in 1 .. m : r \in DOMAIN Starts(lens) /\ r \in DOMAIN qstart
      BY <1>9, <1>10 DEF Buffers
    <2>2. \A r \in 1 .. m : qstart'[r] = Starts(lens)[r]
      BY <2>1, <1>6, OverIs
    <2> QED BY <2>2, <1>9
  <1>13. ASSUME NEW r \in 1 .. m, NEW g \in 1 .. Len(b[r].blocks) PROVE bt'[r][g] = b[r].blocks[g]
    <2>1. PICK s : s = b[r].blocks
      OBVIOUS
    <2>2. s \in Seq(Int) /\ Len(s) <= MaxBlocks /\ MaxBlocks \in Nat
      BY <2>1, <1>1, <1>2, RequestFields, RuntimeAssumption
    <2>3. bt'[r] = Over(bt[r], s)
      BY <2>1, <1>2, <1>10 DEF PrepareInputs, PackBlockTables
    <2>4. g \in DOMAIN s /\ g \in DOMAIN bt[r]
      BY <2>1, <2>2, <1>10 DEF Buffers
    <2> QED BY <2>1, <2>3, <2>4, OverIs
  <1> QED BY <1>1, <1>4, <1>11, <1>12, <1>13 DEF PackedRows

(* The lists of the step. *)
Splits(dr, pr) == dr = DecodeRids /\ pr = PrefillRids

(* It lists the decodes and the prefills. *)
LEMMA PacksRids ==
    ASSUME Buffers, NEW b \in Batches, NEW acc, Laid(b, acc), batch' = b, PrepareInputs,
           NEW dr, NEW pr, Splits(dr, pr)
    PROVE  PackedRids(b, dr, pr)'
  <1>1. PICK m : m = Len(b)
    OBVIOUS
  <1>2. b \in Seq(Requests) /\ m \in Nat /\ m <= Slots /\ Slots \in Nat /\ DOMAIN b = 1 .. m
    BY <1>1, BatchFits, BatchIsSeq, RuntimeAssumption
  <1>3. \A r \in 1 .. m : qlen'[r] = b[r].n
    BY <1>1, PacksRows DEF PackedRows
  <1>4. PICK S, L : S = Single(b) /\ L = Longer(b)
    OBVIOUS
  <1>5. S \in SUBSET (1 .. m) /\ L \in SUBSET (1 .. m)
    BY <1>1, <1>4 DEF Single, Longer
  <1>6. {r \in DOMAIN batch' : qlen'[r] = 1} = S /\ {r \in DOMAIN batch' : qlen'[r] # 1} = L
    BY <1>1, <1>2, <1>3, <1>4 DEF Single, Longer
  <1>7. dr = InOrder(S, m) /\ pr = InOrder(L, m)
    BY <1>1, <1>6 DEF Splits, DecodeRids, PrefillRids
  <1>8. Lists(dr, S, m) /\ Lists(pr, L, m)
    BY <1>2, <1>5, <1>7, InOrderLists
  <1>9. /\ DOMAIN dr = 1 .. Len(dr) /\ \A i \in 1 .. Len(dr) : i \in 1 .. Slots
        /\ DOMAIN pr = 1 .. Len(pr) /\ \A i \in 1 .. Len(pr) : i \in 1 .. Slots
    BY <1>2, <1>8 DEF Lists
  <1>10. decode_rids' = Over(decode_rids, dr) /\ prefill_rids' = Over(prefill_rids, pr)
    BY DEF PrepareInputs, SplitDecodePrefill, Splits
  <1>11. /\ \A i \in 1 .. Len(dr) : decode_rids'[i] = dr[i]
         /\ \A i \in 1 .. Len(pr) : prefill_rids'[i] = pr[i]
    BY <1>9, <1>10, OverIs DEF Buffers
  <1> QED BY <1>1, <1>4, <1>8, <1>11 DEF PackedRids

(* The sizes it hands to the kernels. *)
Fits(z, b, acc, dr, pr) ==
    /\ z.rows = acc[Len(b)] /\ z.decode = Len(dr) /\ z.prefill = Len(pr)
    /\ z.tiles \in Nat
    /\ \A r \in Longer(b) : \A q \in 0 .. b[r].n - 1 : q \div QTile + 1 \in 1 .. z.tiles

(* Sizes, of which the host makes the launch, fit the batch. *)
LEMMA SizesFit ==
    ASSUME Buffers, NEW b \in Batches, NEW acc, Laid(b, acc), batch' = b, PrepareInputs,
           NEW dr, NEW pr, Splits(dr, pr)
    PROVE  Fits(Sizes, b, acc, dr, pr)
  <1>1. PICK m : m = Len(b)
    OBVIOUS
  <1>2. /\ b \in Seq(Requests) /\ m \in Nat /\ QTile \in Nat \ {0} /\ MaxRows \in Nat
        /\ Len(FlatRows(b)) = acc[m]
    BY <1>1, BatchIsSeq, RuntimeAssumption DEF Laid
  <1>3. \A r \in 1 .. m : qlen'[r] = b[r].n /\ b[r].n \in 1 .. MaxRows
    <2>1. \A r \in 1 .. m : qlen'[r] = b[r].n
      BY <1>1, PacksRows DEF PackedRows
    <2>2. \A r \in 1 .. m : b[r] \in Requests
      BY <1>1, <1>2
    <2> QED BY <2>1, <2>2, RuntimeAssumption
  <1>4. ToSet(pr) = Longer(b)
    BY PacksRids DEF PackedRids, Lists
  <1>5. PICK T : T = {1} \cup {qlen'[r] : r \in ToSet(pr)}
    OBVIOUS
  <1>6. T \in SUBSET (0 .. MaxRows) /\ T # {}
    <2>1. \A r \in Longer(b) : r \in 1 .. m
      BY <1>1 DEF Longer
    <2>2. 1 \in 0 .. MaxRows
      BY <1>2, RuntimeAssumption
    <2>3. \A r \in Longer(b) : qlen'[r] \in 0 .. MaxRows
      BY <2>1, <1>2, <1>3
    <2> QED BY <2>2, <2>3, <1>4, <1>5
  <1>7. PICK l : l = Max(T)
    OBVIOUS
  <1>8. l \in Nat /\ l >= 1 /\ \A y \in T : y <= l
    <2>1. Max(T) \in T /\ \A y \in T : y <= Max(T)
      BY <1>2, <1>6, LargestNat
    <2>2. 1 \in T
      BY <1>5
    <2>3. l \in 0 .. MaxRows /\ 1 <= l /\ \A y \in T : y <= l
      BY <2>1, <2>2, <1>6, <1>7
    <2> QED BY <2>3, <1>2
  <1>9. Sizes = [rows |-> acc[m], decode |-> Len(dr), prefill |-> Len(pr),
                 tiles |-> (l + QTile - 1) \div QTile]
    BY <1>2, <1>5, <1>7 DEF Sizes, Splits
  <1>10. PICK z, k : z = Sizes /\ k = (l + QTile - 1) \div QTile
    OBVIOUS
  <1>11. z.rows = acc[m] /\ z.decode = Len(dr) /\ z.prefill = Len(pr) /\ z.tiles = k
    BY <1>9, <1>10
  <1>12. k \in Nat
    BY <1>2, <1>8, <1>10, TilesSuffice
  <1>13. ASSUME NEW r \in Longer(b), NEW q \in 0 .. b[r].n - 1
         PROVE  q \div QTile + 1 \in 1 .. k
    <2>1. r \in 1 .. m
      BY <1>1 DEF Longer
    <2>2. b[r].n \in Nat /\ b[r].n <= l
      <3>1. qlen'[r] \in T
        BY <1>4, <1>5
      <3> QED BY <3>1, <2>1, <1>2, <1>3, <1>8
    <2>3. q \in Nat /\ q < l
      BY <2>2, <1>8
    <2> QED BY <2>3, <1>2, <1>8, <1>10, TilesSuffice
  <1> QED BY <1>1, <1>10, <1>11, <1>12, <1>13 DEF Fits

(* The layers run with these sizes, or those of a graph of the same shape. *)
LEMMA LaunchFits ==
    ASSUME CacheInv, DecodesOnly, RunLayers, NEW b, NEW acc, NEW dr, NEW pr,
           Lists(pr, Longer(b), Len(b)), Fits(Sizes, b, acc, dr, pr)
    PROVE  Launched(b, acc, dr, pr)' /\ DecodesOnly'
  <1>1. PICK z, k : z = Sizes /\ k = Key(z)
    OBVIOUS
  <1>2. Fits(z, b, acc, dr, pr)
    BY <1>1
  <1>3. ASSUME launch' = z PROVE Launched(b, acc, dr, pr)'
    BY <1>2, <1>3 DEF Fits, Launched
  <1>4. CASE ~Graphable
    <2>1. launch' = z /\ graphs' = graphs
      BY <1>1, <1>4 DEF RunLayers
    <2> QED BY <2>1, <1>3 DEF DecodesOnly, Handle
  <1>5. CASE Graphable
    <2>1. z.prefill = 0
      BY <1>1, <1>5 DEF Graphable
    <2>2. IF Hits(k) # {} THEN Replay(k) ELSE Capture(k)
      BY <1>1, <1>5 DEF RunLayers
    <2>3. CASE Hits(k) = {}
      <3>1. Capture(k)
        BY <2>2, <2>3
      <3>2. launch' = z
        BY <3>1, <1>1 DEF Capture
      <3>3. \A h \in Handle : graphs'[h] = z \/ graphs'[h] = Destroyed \/ graphs'[h] = graphs[h]
        BY <3>1, <1>1 DEF Capture
      <3>4. Destroyed.prefill = 0
        BY DEF Destroyed
      <3>5. \A h \in Handle : graphs'[h].prefill = 0
        BY <3>3, <3>4, <2>1 DEF DecodesOnly
      <3> QED BY <3>2, <3>5, <1>3 DEF DecodesOnly, Handle
    <2>4. CASE Hits(k) # {}
      <3>1. Replay(k)
        BY <2>2, <2>4
      <3>2. PICK K : entries \in Seq([key : K, exec : Handle])
        BY DEF CacheInv, CacheTypes
      <3>3. Hits(k) \in SUBSET Nat
        BY <3>2 DEF Hits
      <3>4. PICK i : i = Min(Hits(k))
        OBVIOUS
      <3>5. i \in Hits(k)
        BY <3>3, <3>4, <2>4, MinNat
      <3>6. i \in 1 .. Len(entries) /\ entries[i].key = k
        BY <3>2, <3>5 DEF Hits
      <3>7. PICK h, y : h = entries[i].exec /\ y = graphs[h]
        OBVIOUS
      <3>8. h \in Handle
        BY <3>2, <3>6, <3>7, EntryFields
      <3>9. Key(y) = Key(z) /\ y.prefill = 0
        BY <3>6, <3>7, <3>8, <1>1 DEF CacheInv, GraphsOwned, DecodesOnly
      <3>10. y.rows = z.rows /\ y.decode = z.decode
        BY <3>9 DEF Key
      <3>11. launch' = y /\ graphs' = graphs
        BY <3>1, <3>4, <3>7 DEF Replay
      <3>12. pr \in Seq(1 .. Len(b)) /\ Len(pr) = 0 /\ ToSet(pr) = Longer(b)
        BY <2>1, <1>2 DEF Fits, Lists
      <3>13. pr = <<>> /\ Longer(b) = {}
        BY <3>12 DEF ToSet
      <3>14. Launched(b, acc, dr, pr)'
        BY <3>9, <3>10, <3>11, <3>12, <3>13, <1>2 DEF Fits, Launched
      <3> QED BY <3>11, <3>14 DEF DecodesOnly, Handle
    <2> QED BY <2>3, <2>4
  <1> QED BY <1>4, <1>5

(* The sampler is given the rows that were asked for. *)
LEMMA SamplesAsked ==
    ASSUME Buffers, NEW b \in Batches, NEW acc, Laid(b, acc), batch' = b, FillSampling, RunHeadAndSample
    PROVE  sampled' = LogitsRows(b)
  <1>1. PICK m, s : m = Len(b) /\ s = LogitsRows(b)
    OBVIOUS
  <1>2. b \in Seq(Requests) /\ m \in Nat /\ m <= Slots /\ Slots \in Nat /\ DOMAIN b = 1 .. m
    BY <1>1, BatchFits, BatchIsSeq, RuntimeAssumption
  <1>3. PICK A, c : A = {r \in DOMAIN b : b[r].sample} /\ c = InOrder(A, m)
    OBVIOUS
  <1>4. Lists(c, A, m)
    BY <1>2, <1>3, InOrderLists
  <1>5. c \in Seq(1 .. m) /\ Len(c) \in Nat /\ Len(c) <= m /\ DOMAIN c = 1 .. Len(c)
    BY <1>4 DEF Lists
  <1>6. s = [i \in 1 .. Len(c) |-> RowsTo(b, c[i])]
    BY <1>1, <1>3, <1>5 DEF LogitsRows
  <1>7. Len(s) = Len(c) /\ DOMAIN s = 1 .. Len(c)
    <2>1. PICK n : n = Len(c)
      OBVIOUS
    <2>2. n \in Nat /\ s = [i \in 1 .. n |-> s[i]]
      BY <2>1, <1>5, <1>6
    <2>3. \A i \in 1 .. n : s[i] \in {s[j] : j \in 1 .. n}
      OBVIOUS
    <2>4. Len(s) = n
      BY <2>2, <2>3, MapIsSeq
    <2> QED BY <2>1, <2>4, <1>6
  <1>8. lrows' = Over(lrows, s)
    BY <1>1 DEF FillSampling
  <1>9. \A i \in 1 .. Len(c) : i \in DOMAIN lrows
    BY <1>2, <1>5 DEF Buffers
  <1>10. \A i \in 1 .. Len(c) : lrows'[i] = s[i]
    BY <1>7, <1>8, <1>9, OverIs
  <1>11. sampled' = [i \in 1 .. Len(s) |-> lrows'[i]]
    BY <1>1 DEF RunHeadAndSample
  <1>12. sampled' = [i \in 1 .. Len(c) |-> s[i]]
    BY <1>7, <1>10, <1>11
  <1>13. s = [i \in 1 .. Len(c) |-> s[i]]
    BY <1>6
  <1> QED BY <1>1, <1>12, <1>13

(* The inductive invariant: once a step was taken its batch is packed. *)
ServedInv ==
    /\ Buffers /\ DecodesOnly
    /\ batch # <<>> => \E b, acc, dr, pr : Packed(b, acc, dr, pr)

(* One forward packs its batch. *)
LEMMA ServedStep ==
    ASSUME CacheInv, ServedInv, NEW b \in Batches, Forward(b)
    PROVE  ServedInv'
  <1>1. Buffers /\ DecodesOnly /\ batch' = b /\ PrepareInputs /\ RunLayers /\ RunHeadAndSample
    BY DEF ServedInv, Forward
  <1>2. b \in Seq(Requests)
    BY BatchIsSeq
  <1>3. PICK acc : Laid(b, acc)
    BY <1>2, Layout
  <1>4. PICK dr, pr : Splits(dr, pr)
    BY DEF Splits
  <1>5. PackedRows(b, acc)'
    BY <1>1, <1>3, PacksRows
  <1>6. PackedRids(b, dr, pr)'
    BY <1>1, <1>3, <1>4, PacksRids
  <1>7. Fits(Sizes, b, acc, dr, pr)
    BY <1>1, <1>3, <1>4, SizesFit
  <1>8. Launched(b, acc, dr, pr)' /\ DecodesOnly'
    BY <1>1, <1>6, <1>7, LaunchFits DEF PackedRids
  <1>9. sampled' = LogitsRows(b)
    BY <1>1, <1>3, SamplesAsked DEF PrepareInputs
  <1>10. Packed(b, acc, dr, pr)'
    BY <1>1, <1>2, <1>5, <1>6, <1>8, <1>9 DEF Packed
  <1>11. Buffers'
    <2>1. /\ rows' = Over(rows, FlatRows(b)) /\ lrows' = Over(lrows, LogitsRows(b))
          /\ \E s : qlen' = Over(qlen, s) /\ qstart' = Over(qstart, Starts(s))
          /\ decode_rids' = Over(decode_rids, DecodeRids)
          /\ prefill_rids' = Over(prefill_rids, PrefillRids)
      BY <1>1 DEF PrepareInputs, UploadRows, FillSampling, SplitDecodePrefill
    <2>2. \A r \in 1 .. Slots :
             bt'[r] = IF r \in DOMAIN b THEN Over(bt[r], b[r].blocks) ELSE bt[r]
      BY <1>1 DEF PrepareInputs, PackBlockTables
    <2>3. \A r \in 1 .. Slots : DOMAIN bt'[r] = 1 .. MaxBlocks
      BY <2>2, <1>1, OverIs DEF Buffers
    <2> QED BY <2>1, <2>3, <1>1, OverIs DEF Buffers
  <1> QED BY <1>8, <1>10, <1>11 DEF ServedInv

(* StepServesBatch, for every size of the buffers, blocks and tiles, every *)
(* capacity of the graph cache and every sequence of batches: what earlier *)
(* steps left behind in buffers and graphs never reaches a later one.      *)
THEOREM EveryStepServesItsBatch == Spec => []StepServesBatch
  <1>1. Init => ServedInv
    <2> SUFFICES ASSUME Init PROVE ServedInv
      OBVIOUS
    <2>1. Buffers
      BY DEF Init, Buffers
    <2>2. DecodesOnly
      BY DEF Init, DecodesOnly, Destroyed
    <2> QED BY <2>1, <2>2 DEF ServedInv, Init
  <1>2. CacheInv /\ ServedInv /\ [Next]_vars => ServedInv'
    <2> SUFFICES ASSUME CacheInv, ServedInv, [Next]_vars PROVE ServedInv'
      OBVIOUS
    <2>1. CASE Next
      BY <2>1, ServedStep DEF Next
    <2>2. CASE UNCHANGED vars
      <3>1. UNCHANGED <<batch, rows, bt, qstart, qlen, decode_rids, prefill_rids, lrows,
                        graphs, launch, sampled>>
        BY <2>2 DEF vars, context
      <3>2. Buffers' /\ DecodesOnly'
        BY <3>1 DEF ServedInv, Buffers, DecodesOnly, Handle
      <3>3. ASSUME NEW b, NEW acc, NEW dr, NEW pr, Packed(b, acc, dr, pr)
            PROVE  Packed(b, acc, dr, pr)'
        <4>1. PackedRows(b, acc)'
          BY <3>1, <3>3 DEF Packed, PackedRows
        <4>2. PackedRids(b, dr, pr)'
          BY <3>1, <3>3 DEF Packed, PackedRids
        <4>3. Launched(b, acc, dr, pr)'
          BY <3>1, <3>3 DEF Packed, Launched
        <4> QED BY <4>1, <4>2, <4>3, <3>1, <3>3 DEF Packed
      <3>4. batch' # <<>> => \E b, acc, dr, pr : Packed(b, acc, dr, pr)'
        BY <3>1, <3>3 DEF ServedInv
      <3> QED BY <3>2, <3>4 DEF ServedInv
    <2> QED BY <2>1, <2>2
  <1>3. ServedInv => StepServesBatch
    <2>1. CASE batch = <<>>
      BY <2>1 DEF StepServesBatch
    <2>2. CASE batch # <<>>
      BY <2>2, PackedServes DEF ServedInv
    <2> QED BY <2>1, <2>2
  <1> QED BY <1>1, <1>2, <1>3, CacheInvariant, PTL DEF Spec
===========================================================================
