------------------------ MODULE BlockAllocatorProofs ------------------------
(***************************************************************************)
(* The block allocator's bookkeeping is exact, for every pool size, every  *)
(* set of table owners and every order of operations.                      *)
(***************************************************************************)
EXTENDS BlockAllocator, SequenceFacts, FiniteSetTheorems

-----------------------------------------------------------------------------
(* What the operators on tables do. *)

(* Membership in RefsIn. *)
LEMMA RefsInMember ==
    ASSUME NEW t, NEW f, NEW b, NEW e
    PROVE  e \in RefsIn(t, f, b) <=>
              \E h \in Holder : \E i \in f[h] + 1 .. Len(t[h]) :
                  e = <<h, i>> /\ t[h][i] = b
  BY DEF RefsIn

(* Typed tables, and the two ways a step changes them. *)
TablesOK(t, f) == t \in [Holder -> Seq(Block)] /\ f \in [Holder -> Nat]

Appended(t, f, u, h, b) == f[h] = 0 /\ u = [t EXCEPT ![h] = Append(@, b)]

NextFreed(t, f, u, g, h) ==
    /\ f[h] < Len(t[h])
    /\ \/ /\ f[h] + 1 = Len(t[h])
          /\ u = [t EXCEPT ![h] = <<>>] /\ g = [f EXCEPT ![h] = 0]
       \/ /\ f[h] + 1 # Len(t[h])
          /\ u = t /\ g = [f EXCEPT ![h] = f[h] + 1]

(* Appending block b to a table that is not being freed adds one entry to  *)
(* the references of b and none to those of another block.                 *)
LEMMA AppendRef ==
    ASSUME NEW t, NEW f, NEW u, NEW h \in Holder, NEW b \in Block, NEW c \in Block,
           TablesOK(t, f), Appended(t, f, u, h, b)
    PROVE  /\ c = b => RefsIn(u, f, c) = RefsIn(t, f, c) \cup {<<h, Len(t[h]) + 1>>}
           /\ c # b => RefsIn(u, f, c) = RefsIn(t, f, c)
  <1> USE DEF TablesOK
  <1>1. /\ Len(u[h]) = Len(t[h]) + 1
        /\ \A i \in 1 .. Len(t[h]) : u[h][i] = t[h][i]
        /\ u[h][Len(t[h]) + 1] = b
    BY DEF Appended
  <1>2. \A g \in Holder \ {h} : u[g] = t[g]
    BY DEF Appended
  <1>3. Len(t[h]) \in Nat
    OBVIOUS
  <1>4. ASSUME NEW e \in RefsIn(u, f, c)
        PROVE  e \in RefsIn(t, f, c) \cup (IF c = b THEN {<<h, Len(t[h]) + 1>>} ELSE {})
    <2>1. PICK g \in Holder :
             \E i \in f[g] + 1 .. Len(u[g]) : e = <<g, i>> /\ u[g][i] = c
      BY <1>4, RefsInMember
    <2>0. PICK i \in f[g] + 1 .. Len(u[g]) : e = <<g, i>> /\ u[g][i] = c
      BY <2>1
    <2>2. CASE g = h /\ i = Len(t[h]) + 1
      BY <2>0, <2>2, <1>1
    <2>3. CASE g = h /\ i # Len(t[h]) + 1
      <3>1. i \in f[g] + 1 .. Len(t[g]) /\ t[g][i] = c
        BY <2>0, <2>3, <1>1, <1>3
      <3> QED BY <3>1, <2>0, RefsInMember
    <2>4. CASE g # h
      BY <2>0, <2>4, <1>2, RefsInMember
    <2> QED BY <2>2, <2>3, <2>4
  <1>5. ASSUME NEW e \in RefsIn(t, f, c) PROVE e \in RefsIn(u, f, c)
    <2>1. PICK g \in Holder :
             \E i \in f[g] + 1 .. Len(t[g]) : e = <<g, i>> /\ t[g][i] = c
      BY RefsInMember
    <2>0. PICK i \in f[g] + 1 .. Len(t[g]) : e = <<g, i>> /\ t[g][i] = c
      BY <2>1
    <2>2. i \in f[g] + 1 .. Len(u[g]) /\ u[g][i] = c
      <3>1. CASE g = h
        BY <3>1, <2>0, <1>1, <1>3
      <3>2. CASE g # h
        BY <3>2, <2>0, <1>2
      <3> QED BY <3>1, <3>2
    <2> QED BY <2>0, <2>2, RefsInMember
  <1>6. ASSUME c = b PROVE <<h, Len(t[h]) + 1>> \in RefsIn(u, f, c)
    <2>1. Len(t[h]) + 1 \in f[h] + 1 .. Len(u[h])
      BY <1>1, <1>3 DEF Appended
    <2> QED BY <2>1, <1>1, <1>6, RefsInMember
  <1> QED BY <1>4, <1>5, <1>6

(* Freeing the next entry of a table takes that entry, and nothing else,   *)
(* away from the references, whether or not it is the last one and the     *)
(* table is cleared.                                                       *)
LEMMA FreeRef ==
    ASSUME NEW t, NEW f, NEW u, NEW g, NEW h \in Holder, NEW c \in Block,
           TablesOK(t, f), NextFreed(t, f, u, g, h)
    PROVE  RefsIn(u, g, c) = RefsIn(t, f, c) \ {<<h, f[h] + 1>>}
  <1> USE DEF TablesOK
  <1>1. \A k \in Holder \ {h} : u[k] = t[k] /\ g[k] = f[k]
    BY DEF NextFreed
  <1>2. \A i : i \in g[h] + 1 .. Len(u[h]) <=>
                  i \in f[h] + 1 .. Len(t[h]) /\ i # f[h] + 1
    <2>1. Len(t[h]) \in Nat /\ f[h] \in Nat
      BY DEF NextFreed
    <2>2. CASE f[h] + 1 = Len(t[h])
      <3>1. g[h] = 0 /\ Len(u[h]) = 0
        BY <2>2 DEF NextFreed
      <3> QED BY <3>1, <2>1, <2>2
    <2>3. CASE f[h] + 1 # Len(t[h])
      <3>1. g[h] = f[h] + 1 /\ u[h] = t[h]
        BY <2>3 DEF NextFreed
      <3> QED BY <3>1, <2>1, <2>3
    <2> QED BY <2>2, <2>3
  <1>3. \A i \in g[h] + 1 .. Len(u[h]) : u[h][i] = t[h][i]
    <2>1. CASE f[h] + 1 = Len(t[h])
      <3>1. g[h] = 0 /\ Len(u[h]) = 0
        BY <2>1 DEF NextFreed
      <3> QED BY <3>1
    <2>2. CASE f[h] + 1 # Len(t[h])
      BY <2>2 DEF NextFreed
    <2> QED BY <2>1, <2>2
  <1>4. ASSUME NEW e \in RefsIn(u, g, c)
        PROVE  e \in RefsIn(t, f, c) \ {<<h, f[h] + 1>>}
    <2>1. PICK k \in Holder :
             \E i \in g[k] + 1 .. Len(u[k]) : e = <<k, i>> /\ u[k][i] = c
      BY <1>4 DEF RefsIn
    <2>2. PICK i \in g[k] + 1 .. Len(u[k]) : e = <<k, i>> /\ u[k][i] = c
      BY <2>1
    <2>3. i \in f[k] + 1 .. Len(t[k]) /\ t[k][i] = c
      <3>1. CASE k = h
        BY <3>1, <2>2, <1>2, <1>3
      <3>2. CASE k # h
        BY <3>2, <2>2, <1>1
      <3> QED BY <3>1, <3>2
    <2>4. e # <<h, f[h] + 1>>
      BY <2>2, <1>2
    <2> QED BY <2>2, <2>3, <2>4 DEF RefsIn
  <1>5. ASSUME NEW e \in RefsIn(t, f, c), e # <<h, f[h] + 1>>
        PROVE  e \in RefsIn(u, g, c)
    <2>1. PICK k \in Holder :
             \E i \in f[k] + 1 .. Len(t[k]) : e = <<k, i>> /\ t[k][i] = c
      BY <1>5 DEF RefsIn
    <2>2. PICK i \in f[k] + 1 .. Len(t[k]) : e = <<k, i>> /\ t[k][i] = c
      BY <2>1
    <2>3. i \in g[k] + 1 .. Len(u[k]) /\ u[k][i] = c
      <3>1. CASE k = h
        BY <3>1, <2>2, <1>2, <1>3, <1>5
      <3>2. CASE k # h
        BY <3>2, <2>2, <1>1
      <3> QED BY <3>1, <3>2
    <2> QED BY <2>2, <2>3 DEF RefsIn
  <1> QED BY <1>4, <1>5

-----------------------------------------------------------------------------
(* The inductive invariant: each conjunct needs the others.  LruExact says *)
(* that AllocOne and CacheLookup treat the right blocks as unheld, RefExact*)
(* that FreeOne's count reaches zero with the last owner, CacheExact that  *)
(* evicting a block removes its own mapping.                               *)
AllocInv == AllocTypeOK /\ RefExact /\ LruExact /\ CacheExact

(* A fresh allocator: every block free, once, unnamed. *)
LEMMA InitInv == AllocInit => AllocInv
  <1> SUFFICES ASSUME AllocInit PROVE AllocInv
    OBVIOUS
  <1> USE NumBlocksAssumption DEF AllocInit, Block
  <1>1. AllocTypeOK
    BY DEF AllocTypeOK
  <1>2. RefExact
    <2>1. ASSUME NEW b PROVE Refs(b) = {}
      BY DEF Refs, RefsIn
    <2> QED BY <2>1, FS_EmptySet DEF RefExact
  <1>3. LruExact
    <2>1. DOMAIN free_lru = 1 .. NumBlocks
      OBVIOUS
    <2>2. ASSUME NEW b \in 0 .. NumBlocks - 1
          PROVE  b + 1 \in DOMAIN free_lru /\ free_lru[b + 1] = b
      BY <2>1
    <2> QED BY <2>1, <2>2 DEF LruExact
  <1>4. CacheExact
    BY DEF CacheExact
  <1> QED BY <1>1, <1>2, <1>3, <1>4 DEF AllocInv

(* The head of the LRU queue is a block nobody holds, and the rest of the  *)
(* queue is all the other such blocks, once each.                          *)
LEMMA LruHead ==
    ASSUME AllocTypeOK, LruExact, free_lru # <<>>
    PROVE  /\ Head(free_lru) \in Block /\ ref_cnt[Head(free_lru)] = 0
           /\ Tail(free_lru) \in Seq(Block)
           /\ \A i, j \in DOMAIN Tail(free_lru) :
                 Tail(free_lru)[i] = Tail(free_lru)[j] => i = j
           /\ \A b \in Block :
                 (\E i \in DOMAIN Tail(free_lru) : Tail(free_lru)[i] = b)
                    <=> ref_cnt[b] = 0 /\ b # Head(free_lru)
  <1> DEFINE s == free_lru
  <1>1. s \in Seq(Block) /\ s # <<>>
    BY DEF AllocTypeOK
  <1>2. /\ Len(s) \in Nat /\ Len(s) > 0 /\ DOMAIN s = 1 .. Len(s)
        /\ Head(s) = s[1]
        /\ Tail(s) \in Seq(Block) /\ DOMAIN Tail(s) = 1 .. Len(s) - 1
        /\ \A i \in 1 .. Len(s) - 1 : Tail(s)[i] = s[i + 1]
    BY <1>1
  <1>3. \A i, j \in DOMAIN s : s[i] = s[j] => i = j
    BY DEF LruExact
  <1>4. \A b \in Block : (\E i \in DOMAIN s : s[i] = b) <=> ref_cnt[b] = 0
    BY DEF LruExact
  <1> HIDE DEF s
  <1>5. s[1] \in Block /\ ref_cnt[s[1]] = 0
    BY <1>1, <1>2, <1>4
  <1>6. \A i, j \in DOMAIN Tail(s) : Tail(s)[i] = Tail(s)[j] => i = j
    BY <1>2, <1>3
  <1>7. ASSUME NEW b \in Block
        PROVE  (\E i \in DOMAIN Tail(s) : Tail(s)[i] = b) <=> ref_cnt[b] = 0 /\ b # s[1]
    <2>1. ASSUME NEW i \in DOMAIN Tail(s), Tail(s)[i] = b
          PROVE  ref_cnt[b] = 0 /\ b # s[1]
      <3>1. i + 1 \in DOMAIN s /\ s[i + 1] = b
        BY <2>1, <1>2
      <3> QED BY <3>1, <1>2, <1>3, <1>4
    <2>2. ASSUME ref_cnt[b] = 0, b # s[1]
          PROVE  \E i \in DOMAIN Tail(s) : Tail(s)[i] = b
      <3>1. PICK k \in DOMAIN s : s[k] = b
        BY <2>2, <1>4
      <3>2. k # 1
        BY <3>1, <2>2
      <3>3. k - 1 \in DOMAIN Tail(s) /\ Tail(s)[k - 1] = b
        BY <3>1, <3>2, <1>2
      <3> QED BY <3>3
    <2> QED BY <2>1, <2>2
  <1> QED BY <1>2, <1>5, <1>6, <1>7 DEF s

(* AllocOne: the block it hands out gets its first and only reference.     *)
LEMMA AllocOneInv ==
    ASSUME AllocInv, NEW h \in Holder, AllocOne(h)
    PROVE  AllocInv'
  <1> DEFINE b == Head(free_lru)
             k == blk_hash[b]
  <1> USE DEF AllocInv
  <1>1. /\ free_lru # <<>> /\ freed[h] = 0
        /\ free_lru' = Tail(free_lru)
        /\ cached' = IF k # NoHash /\ k \in DOMAIN cached /\ cached[k] = b
                       THEN Without(cached, k) ELSE cached
        /\ blk_hash' = [blk_hash EXCEPT ![b] = NoHash]
        /\ ref_cnt' = [ref_cnt EXCEPT ![b] = 1]
        /\ table' = [table EXCEPT ![h] = Append(@, b)]
        /\ freed' = freed
    BY DEF AllocOne, NoFreeRunning
  <1>2. /\ b \in Block /\ ref_cnt[b] = 0
        /\ Tail(free_lru) \in Seq(Block)
        /\ \A i, j \in DOMAIN Tail(free_lru) :
              Tail(free_lru)[i] = Tail(free_lru)[j] => i = j
        /\ \A c \in Block :
              (\E i \in DOMAIN Tail(free_lru) : Tail(free_lru)[i] = c)
                 <=> ref_cnt[c] = 0 /\ c # b
    BY <1>1, LruHead
  <1> HIDE DEF b
  <1>3. AllocTypeOK'
    <2>1. /\ ref_cnt' \in [Block -> Nat] /\ blk_hash' \in [Block -> Hash \cup {NoHash}]
          /\ free_lru' \in Seq(Block) /\ freed' \in [Holder -> Nat]
      BY <1>1, <1>2 DEF AllocTypeOK
    <2>2. /\ table' \in [Holder -> Seq(Block)]
          /\ \A g \in Holder : Len(table'[g]) >= Len(table[g])
      BY <1>1, <1>2 DEF AllocTypeOK
    <2>3. DOMAIN cached' \in SUBSET Hash /\ cached' \in [DOMAIN cached' -> Block]
      BY <1>1 DEF AllocTypeOK, Without
    <2>4. \A g \in Holder : freed'[g] = 0 \/ freed'[g] < Len(table'[g])
      <3>1. \A g \in Holder : freed[g] = 0
        BY DEF AllocOne, NoFreeRunning
      <3> QED BY <3>1, <1>1
    <2> QED BY <2>1, <2>2, <2>3, <2>4 DEF AllocTypeOK
  <1>4. RefExact'
    <2>1. ASSUME NEW c \in Block
          PROVE  IsFiniteSet(Refs(c)') /\ ref_cnt'[c] = Cardinality(Refs(c)')
      <3>1. /\ c = b => Refs(c)' = Refs(c) \cup {<<h, Len(table[h]) + 1>>}
            /\ c # b => Refs(c)' = Refs(c)
        <4>1. TablesOK(table, freed)
          BY DEF AllocTypeOK, TablesOK
        <4>2. Appended(table, freed, table', h, b)
          BY <1>1 DEF Appended
        <4>3. /\ c = b => RefsIn(table', freed, c)
                            = RefsIn(table, freed, c) \cup {<<h, Len(table[h]) + 1>>}
              /\ c # b => RefsIn(table', freed, c) = RefsIn(table, freed, c)
          BY <4>1, <4>2, <1>2, AppendRef
        <4>4. Refs(c)' = RefsIn(table', freed, c)
          BY <1>1 DEF Refs
        <4> QED BY <4>3, <4>4 DEF Refs
      <3>2. IsFiniteSet(Refs(c)) /\ ref_cnt[c] = Cardinality(Refs(c))
        BY DEF RefExact
      <3>3. CASE c = b
        <4>1. Refs(c) = {}
          BY <3>2, <3>3, <1>2, FS_EmptySet
        <4>2. Refs(c)' = {<<h, Len(table[h]) + 1>>}
          BY <4>1, <3>1, <3>3
        <4>3. ref_cnt'[c] = 1
          BY <3>3, <1>1, <1>2 DEF AllocTypeOK
        <4> QED BY <4>2, <4>3, FS_Singleton
      <3>4. CASE c # b
        <4>1. Refs(c)' = Refs(c)
          BY <3>1, <3>4
        <4>2. ref_cnt'[c] = ref_cnt[c]
          BY <3>4, <1>1 DEF AllocTypeOK
        <4> QED BY <4>1, <4>2, <3>2
      <3> QED BY <3>3, <3>4
    <2> QED BY <2>1 DEF RefExact
  <1>5. LruExact'
    <2>1. \A c \in Block : ref_cnt'[c] = 0 <=> ref_cnt[c] = 0 /\ c # b
      BY <1>1, <1>2 DEF AllocTypeOK
    <2> QED BY <2>1, <1>1, <1>2 DEF LruExact
  <1>6. CacheExact'
    <2>1. \A c \in Block : blk_hash'[c] = IF c = b THEN NoHash ELSE blk_hash[c]
      BY <1>1, <1>2 DEF AllocTypeOK
    <2>2. \A x \in DOMAIN cached : x # NoHash /\ cached[x] \in Block
      BY NoHashAssumption DEF AllocTypeOK
    <2>3. CASE k # NoHash
      <3>1. k \in DOMAIN cached /\ cached[k] = b
        BY <2>3, <1>2 DEF CacheExact
      <3>2. cached' = Without(cached, k)
        BY <3>1, <2>3, <1>1
      <3>3. DOMAIN cached' = DOMAIN cached \ {k}
            /\ \A x \in DOMAIN cached \ {k} : cached'[x] = cached[x]
        BY <3>2 DEF Without
      <3>4. \A x \in DOMAIN cached' : blk_hash'[cached'[x]] = x
        BY <3>1, <3>3, <2>1, <2>2 DEF CacheExact
      <3>5. \A c \in Block : blk_hash'[c] # NoHash =>
               blk_hash'[c] \in DOMAIN cached' /\ cached'[blk_hash'[c]] = c
        BY <3>1, <3>3, <2>1 DEF CacheExact
      <3> QED BY <3>4, <3>5 DEF CacheExact
    <2>4. CASE k = NoHash
      <3>1. cached' = cached
        BY <2>4, <1>1
      <3>2. \A c \in Block : blk_hash'[c] = blk_hash[c]
        BY <2>1, <2>4
      <3> QED BY <3>1, <3>2, <2>2 DEF CacheExact
    <2> QED BY <2>3, <2>4
  <1> QED BY <1>3, <1>4, <1>5, <1>6

(* FreeOne: the count follows the references, and reaches zero with the    *)
(* last of them, when the block joins the LRU queue.                       *)
LEMMA FreeOneInv ==
    ASSUME AllocInv, NEW h \in Holder, FreeOne(h)
    PROVE  AllocInv'
  <1> DEFINE i == freed[h] + 1
             b == table[h][i]
  <1> USE DEF AllocInv
  <1>1. /\ freed[h] < Len(table[h])
        /\ ref_cnt' = [ref_cnt EXCEPT ![b] = @ - 1]
        /\ free_lru' = IF ref_cnt[b] = 1 THEN Append(free_lru, b) ELSE free_lru
        /\ blk_hash' = blk_hash /\ cached' = cached
    BY DEF FreeOne
  <1>2. NextFreed(table, freed, table', freed', h)
    BY DEF FreeOne, NextFreed
  <1>3. TablesOK(table, freed)
    BY DEF AllocTypeOK, TablesOK
  <1>4. /\ table' \in [Holder -> Seq(Block)] /\ freed' \in [Holder -> Nat]
        /\ \A g \in Holder : freed'[g] = 0 \/ freed'[g] < Len(table'[g])
    <2>1. table[h] \in Seq(Block) /\ Len(table[h]) \in Nat /\ freed[h] \in Nat
      BY <1>3 DEF TablesOK
    <2>2. CASE i = Len(table[h])
      <3>1. table' = [table EXCEPT ![h] = <<>>] /\ freed' = [freed EXCEPT ![h] = 0]
        BY <1>2, <2>2 DEF NextFreed
      <3> QED BY <3>1 DEF AllocTypeOK
    <2>3. CASE i # Len(table[h])
      <3>1. table' = table /\ freed' = [freed EXCEPT ![h] = i]
        BY <1>2, <2>3 DEF NextFreed
      <3>2. i < Len(table[h])
        BY <1>1, <2>1, <2>3
      <3> QED BY <3>1, <3>2, <2>1 DEF AllocTypeOK
    <2> QED BY <2>2, <2>3
  <1>5. b \in Block
    BY <1>1 DEF AllocTypeOK
  <1>6. <<h, i>> \in Refs(b)
    <2>1. i \in freed[h] + 1 .. Len(table[h])
      BY <1>1 DEF AllocTypeOK
    <2> QED BY <2>1, RefsInMember DEF Refs
  <1>7. ASSUME NEW c \in Block
        PROVE  /\ Refs(c)' = Refs(c) \ {<<h, i>>}
               /\ c # b => <<h, i>> \notin Refs(c)
    <2>1. RefsIn(table', freed', c) = RefsIn(table, freed, c) \ {<<h, freed[h] + 1>>}
      BY <1>2, <1>3, FreeRef
    <2>2. ASSUME <<h, i>> \in Refs(c) PROVE c = b
      BY <2>2, RefsInMember DEF Refs
    <2> QED BY <2>1, <2>2 DEF Refs
  <1> HIDE DEF b, i
  <1>8. /\ IsFiniteSet(Refs(b)) /\ ref_cnt[b] = Cardinality(Refs(b))
        /\ ref_cnt[b] \in Nat
    BY <1>5 DEF RefExact, AllocTypeOK
  <1>9. ref_cnt[b] # 0
    BY <1>6, <1>8, FS_EmptySet
  <1>10. /\ ref_cnt' \in [Block -> Nat]
         /\ \A c \in Block : ref_cnt'[c] = IF c = b THEN ref_cnt[b] - 1 ELSE ref_cnt[c]
    BY <1>1, <1>5, <1>8, <1>9 DEF AllocTypeOK
  <1>11. AllocTypeOK'
    <2>1. free_lru' \in Seq(Block)
      BY <1>1, <1>5 DEF AllocTypeOK
    <2> QED BY <2>1, <1>1, <1>4, <1>10 DEF AllocTypeOK
  <1>12. RefExact'
    <2>1. ASSUME NEW c \in Block
          PROVE  IsFiniteSet(Refs(c)') /\ ref_cnt'[c] = Cardinality(Refs(c)')
      <3>1. CASE c = b
        <4>1. /\ IsFiniteSet(Refs(b) \ {<<h, i>>})
              /\ Cardinality(Refs(b) \ {<<h, i>>}) = Cardinality(Refs(b)) - 1
          BY <1>6, <1>8, FS_RemoveElement
        <4>2. Refs(c)' = Refs(b) \ {<<h, i>>}
          BY <3>1, <1>7
        <4> QED BY <3>1, <4>1, <4>2, <1>8, <1>10
      <3>2. CASE c # b
        <4>1. Refs(c)' = Refs(c)
          BY <3>2, <1>7
        <4>2. IsFiniteSet(Refs(c)) /\ ref_cnt[c] = Cardinality(Refs(c))
          BY DEF RefExact
        <4> QED BY <3>2, <4>1, <4>2, <1>10
      <3> QED BY <3>1, <3>2
    <2> QED BY <2>1 DEF RefExact
  <1>13. LruExact'
    <2>1. free_lru \in Seq(Block)
      BY DEF AllocTypeOK
    <2>2. ~\E j \in DOMAIN free_lru : free_lru[j] = b
      BY <1>5, <1>9 DEF LruExact
    <2>3. CASE ref_cnt[b] = 1
      <3>1. /\ DOMAIN free_lru' = 1 .. Len(free_lru) + 1
            /\ free_lru'[Len(free_lru) + 1] = b
            /\ \A j \in 1 .. Len(free_lru) : free_lru'[j] = free_lru[j]
            /\ DOMAIN free_lru = 1 .. Len(free_lru) /\ Len(free_lru) \in Nat
        BY <2>1, <2>3, <1>1, <1>5
      <3>2. \A j, k \in DOMAIN free_lru' : free_lru'[j] = free_lru'[k] => j = k
        BY <3>1, <2>2 DEF LruExact
      <3>3. ASSUME NEW c \in Block
            PROVE  (\E j \in DOMAIN free_lru' : free_lru'[j] = c) <=> ref_cnt'[c] = 0
        <4>1. CASE c = b
          <5>1. ref_cnt'[c] = 0
            BY <4>1, <2>3, <1>10
          <5>2. Len(free_lru) + 1 \in DOMAIN free_lru'
            BY <3>1
          <5> QED BY <5>1, <5>2, <4>1, <3>1
        <4>2. CASE c # b
          <5>1. ref_cnt'[c] = ref_cnt[c]
            BY <4>2, <1>10
          <5>2. (\E j \in DOMAIN free_lru' : free_lru'[j] = c) <=>
                   (\E j \in DOMAIN free_lru : free_lru[j] = c)
            BY <4>2, <3>1
          <5> QED BY <5>1, <5>2 DEF LruExact
        <4> QED BY <4>1, <4>2
      <3> QED BY <3>2, <3>3 DEF LruExact
    <2>4. CASE ref_cnt[b] # 1
      <3>1. free_lru' = free_lru
        BY <2>4, <1>1
      <3>2. \A c \in Block : ref_cnt'[c] = 0 <=> ref_cnt[c] = 0
        BY <2>4, <1>8, <1>9, <1>10
      <3> QED BY <3>1, <3>2 DEF LruExact
    <2> QED BY <2>3, <2>4
  <1>14. CacheExact'
    BY <1>1 DEF CacheExact
  <1> QED BY <1>11, <1>12, <1>13, <1>14

(* Erasing the position of b from the LRU queue removes b and nothing else. *)
LEMMA LruErase ==
    ASSUME AllocTypeOK, LruExact, NEW b \in Block, ref_cnt[b] = 0
    PROVE  LET s == RemoveAt(free_lru, Pos(b)) IN
           /\ s \in Seq(Block)
           /\ \A i, j \in DOMAIN s : s[i] = s[j] => i = j
           /\ \A c \in Block :
                 (\E i \in DOMAIN s : s[i] = c) <=> ref_cnt[c] = 0 /\ c # b
  <1> DEFINE q == free_lru
             p == Pos(b)
             s == RemoveAt(q, p)
  <1>1. q \in Seq(Block) /\ DOMAIN q = 1 .. Len(q) /\ Len(q) \in Nat
    BY DEF AllocTypeOK
  <1>2. \E i \in DOMAIN q : q[i] = b
    BY DEF LruExact
  <1>3. p \in DOMAIN q /\ q[p] = b
    BY <1>2 DEF Pos
  <1>4. /\ s \in Seq(Block) /\ Len(s) = Len(q) - 1
        /\ \A j \in 1 .. Len(q) - 1 : s[j] = IF j < p THEN q[j] ELSE q[j + 1]
    <2> HIDE DEF q, p
    <2>1. p \in 1 .. Len(q)
      BY <1>1, <1>3
    <2> QED BY <2>1, <1>1, RemoveAtProperties, Zenon
  <1>5. DOMAIN s = 1 .. Len(q) - 1
    BY <1>4
  <1>6. \A i, j \in DOMAIN q : q[i] = q[j] => i = j
    BY DEF LruExact
  <1>7. \A c \in Block : (\E i \in DOMAIN q : q[i] = c) <=> ref_cnt[c] = 0
    BY DEF LruExact
  <1> HIDE DEF q, p, s
  <1>8. \A i \in DOMAIN s : \E k \in DOMAIN q \ {p} :
            /\ s[i] = q[k]
            /\ k = IF i < p THEN i ELSE i + 1
    BY <1>1, <1>3, <1>4, <1>5
  <1>9. ASSUME NEW i \in DOMAIN s, NEW j \in DOMAIN s, s[i] = s[j]
        PROVE  i = j
    <2>1. PICK k \in DOMAIN q \ {p} : s[i] = q[k] /\ k = IF i < p THEN i ELSE i + 1
      BY <1>8
    <2>2. PICK m \in DOMAIN q \ {p} : s[j] = q[m] /\ m = IF j < p THEN j ELSE j + 1
      BY <1>8
    <2>3. k = m
      BY <2>1, <2>2, <1>6, <1>9
    <2> QED BY <2>1, <2>2, <2>3, <1>1, <1>3, <1>5
  <1>10. ASSUME NEW c \in Block
         PROVE  (\E i \in DOMAIN s : s[i] = c) <=> ref_cnt[c] = 0 /\ c # b
    <2>1. ASSUME NEW i \in DOMAIN s, s[i] = c
          PROVE  ref_cnt[c] = 0 /\ c # b
      <3>1. PICK k \in DOMAIN q \ {p} : s[i] = q[k]
        BY <1>8
      <3> QED BY <3>1, <2>1, <1>3, <1>6, <1>7
    <2>2. ASSUME ref_cnt[c] = 0, c # b
          PROVE  \E i \in DOMAIN s : s[i] = c
      <3>1. PICK k \in DOMAIN q : q[k] = c
        BY <2>2, <1>7
      <3>2. k # p
        BY <3>1, <2>2, <1>3
      <3>3. CASE k < p
        <4>1. k \in DOMAIN s /\ s[k] = q[k]
          BY <3>3, <1>1, <1>3, <1>4, <1>5
        <4> QED BY <4>1, <3>1
      <3>4. CASE k > p
        <4>1. k - 1 \in DOMAIN s /\ s[k - 1] = q[k]
          BY <3>4, <1>1, <1>3, <1>4, <1>5
        <4> QED BY <4>1, <3>1
      <3> QED BY <3>2, <3>3, <3>4, <1>1, <1>3
    <2> QED BY <2>1, <2>2
  <1> QED BY <1>4, <1>9, <1>10 DEF s, p, q

(* CacheLookup: the block gets one reference more, and if it had none it   *)
(* has left the LRU queue.                                                 *)
LEMMA CacheLookupInv ==
    ASSUME AllocInv, NEW h \in Holder, NEW k, CacheLookup(h, k)
    PROVE  AllocInv'
  <1> DEFINE b == cached[k]
  <1> USE DEF AllocInv
  <1>1. /\ k \in DOMAIN cached /\ freed[h] = 0
        /\ free_lru' = IF ref_cnt[b] = 0 THEN RemoveAt(free_lru, Pos(b)) ELSE free_lru
        /\ ref_cnt' = [ref_cnt EXCEPT ![b] = @ + 1]
        /\ table' = [table EXCEPT ![h] = Append(@, b)]
        /\ blk_hash' = blk_hash /\ cached' = cached /\ freed' = freed
        /\ \A g \in Holder : freed[g] = 0
    BY DEF CacheLookup, NoFreeRunning
  <1>2. b \in Block /\ ref_cnt[b] \in Nat
    BY <1>1 DEF AllocTypeOK
  <1> HIDE DEF b
  <1>3. /\ ref_cnt' \in [Block -> Nat]
        /\ \A c \in Block : ref_cnt'[c] = IF c = b THEN ref_cnt[b] + 1 ELSE ref_cnt[c]
    BY <1>1, <1>2 DEF AllocTypeOK
  <1>4. /\ free_lru' \in Seq(Block)
        /\ \A i, j \in DOMAIN free_lru' : free_lru'[i] = free_lru'[j] => i = j
        /\ \A c \in Block : (\E i \in DOMAIN free_lru' : free_lru'[i] = c)
                               <=> ref_cnt[c] = 0 /\ c # b
    <2>1. CASE ref_cnt[b] = 0
      <3>1. free_lru' = RemoveAt(free_lru, Pos(b))
        BY <2>1, <1>1
      <3> QED BY <3>1, <2>1, <1>2, LruErase
    <2>2. CASE ref_cnt[b] # 0
      <3>1. free_lru' = free_lru
        BY <2>2, <1>1
      <3> QED BY <3>1, <2>2 DEF AllocTypeOK, LruExact
    <2> QED BY <2>1, <2>2
  <1>5. AllocTypeOK'
    <2>1. table' \in [Holder -> Seq(Block)]
      BY <1>1, <1>2 DEF AllocTypeOK
    <2> QED BY <2>1, <1>1, <1>3, <1>4 DEF AllocTypeOK
  <1>6. RefExact'
    <2>1. ASSUME NEW c \in Block
          PROVE  IsFiniteSet(Refs(c)') /\ ref_cnt'[c] = Cardinality(Refs(c)')
      <3>1. /\ c = b => Refs(c)' = Refs(c) \cup {<<h, Len(table[h]) + 1>>}
            /\ c # b => Refs(c)' = Refs(c)
        <4>1. TablesOK(table, freed) /\ Appended(table, freed, table', h, b)
          BY <1>1 DEF AllocTypeOK, TablesOK, Appended
        <4>2. /\ c = b => RefsIn(table', freed, c)
                            = RefsIn(table, freed, c) \cup {<<h, Len(table[h]) + 1>>}
              /\ c # b => RefsIn(table', freed, c) = RefsIn(table, freed, c)
          BY <4>1, <1>2, AppendRef
        <4>3. Refs(c)' = RefsIn(table', freed, c)
          BY <1>1 DEF Refs
        <4> QED BY <4>2, <4>3 DEF Refs
      <3>2. IsFiniteSet(Refs(c)) /\ ref_cnt[c] = Cardinality(Refs(c))
        BY DEF RefExact
      <3>3. <<h, Len(table[h]) + 1>> \notin Refs(c)
        <4>1. ASSUME <<h, Len(table[h]) + 1>> \in Refs(c) PROVE FALSE
          <5>1. Len(table[h]) + 1 \in freed[h] + 1 .. Len(table[h])
            BY <4>1, RefsInMember DEF Refs
          <5>2. Len(table[h]) \in Nat
            BY DEF AllocTypeOK
          <5> QED BY <5>1, <5>2
        <4> QED BY <4>1
      <3>4. CASE c = b
        <4>1. /\ IsFiniteSet(Refs(c) \cup {<<h, Len(table[h]) + 1>>})
              /\ Cardinality(Refs(c) \cup {<<h, Len(table[h]) + 1>>}) = Cardinality(Refs(c)) + 1
          BY <3>2, <3>3, FS_AddElement
        <4> QED BY <4>1, <3>1, <3>2, <3>4, <1>3
      <3>5. CASE c # b
        BY <3>1, <3>2, <3>5, <1>3
      <3> QED BY <3>4, <3>5
    <2> QED BY <2>1 DEF RefExact
  <1>7. LruExact'
    <2>1. \A c \in Block : ref_cnt'[c] = 0 <=> ref_cnt[c] = 0 /\ c # b
      BY <1>2, <1>3
    <2> QED BY <2>1, <1>4 DEF LruExact
  <1>8. CacheExact'
    BY <1>1 DEF CacheExact
  <1> QED BY <1>5, <1>6, <1>7, <1>8

(* CacheInsert: the new pair keeps the two maps inverse to each other.     *)
LEMMA CacheInsertInv ==
    ASSUME AllocInv, NEW b \in Block, NEW k \in Hash, CacheInsert(b, k)
    PROVE  AllocInv'
  <1> USE DEF AllocInv
  <1>1. ref_cnt' = ref_cnt /\ free_lru' = free_lru /\ table' = table /\ freed' = freed
    BY DEF CacheInsert
  <1>2. RefExact' /\ LruExact'
    BY <1>1 DEF RefExact, LruExact, Refs
  <1>3. CASE blk_hash[b] # NoHash \/ k \in DOMAIN cached
    <2>1. blk_hash' = blk_hash /\ cached' = cached
      BY <1>3 DEF CacheInsert
    <2> QED BY <2>1, <1>1, <1>2 DEF AllocTypeOK, CacheExact
  <1>4. CASE blk_hash[b] = NoHash /\ k \notin DOMAIN cached
    <2>1. /\ blk_hash' = [blk_hash EXCEPT ![b] = k]
          /\ cached' = [x \in DOMAIN cached \cup {k} |-> IF x = k THEN b ELSE cached[x]]
      BY <1>4 DEF CacheInsert
    <2>2. /\ DOMAIN cached' = DOMAIN cached \cup {k} /\ cached'[k] = b
          /\ \A x \in DOMAIN cached : cached'[x] = cached[x]
      BY <2>1, <1>4
    <2>3. \A c \in Block : blk_hash'[c] = IF c = b THEN k ELSE blk_hash[c]
      BY <2>1 DEF AllocTypeOK
    <2>4. AllocTypeOK'
      BY <2>1, <1>1 DEF AllocTypeOK
    <2>5. \A x \in DOMAIN cached : cached[x] \in Block /\ cached[x] # b
      BY <1>4, NoHashAssumption DEF AllocTypeOK, CacheExact
    <2>6. \A x \in DOMAIN cached' : blk_hash'[cached'[x]] = x
      BY <2>2, <2>3, <2>5 DEF CacheExact
    <2>7. \A c \in Block : blk_hash'[c] # NoHash =>
             blk_hash'[c] \in DOMAIN cached' /\ cached'[blk_hash'[c]] = c
      BY <2>2, <2>3 DEF CacheExact
    <2> QED BY <2>4, <2>6, <2>7, <1>2 DEF CacheExact
  <1> QED BY <1>3, <1>4

(* The invariant is inductive. *)
LEMMA NextInv == AllocInv /\ [AllocNext]_allocVars => AllocInv'
  <1> SUFFICES ASSUME AllocInv, [AllocNext]_allocVars PROVE AllocInv'
    OBVIOUS
  <1>1. ASSUME NEW h \in Holder, AllocOne(h) PROVE AllocInv'
    BY <1>1, AllocOneInv
  <1>2. ASSUME NEW h \in Holder, FreeOne(h) PROVE AllocInv'
    BY <1>2, FreeOneInv
  <1>3. ASSUME NEW h \in Holder, NEW k \in Hash, CacheLookup(h, k) PROVE AllocInv'
    BY <1>3, CacheLookupInv
  <1>4. ASSUME NEW b \in Block, NEW k \in Hash, CacheInsert(b, k) PROVE AllocInv'
    BY <1>4, CacheInsertInv
  <1>5. CASE UNCHANGED allocVars
    BY <1>5 DEF allocVars, AllocInv, AllocTypeOK, RefExact, Refs, LruExact, CacheExact
  <1> QED BY <1>1, <1>2, <1>3, <1>4, <1>5 DEF AllocNext

-----------------------------------------------------------------------------

(* Every field of BlockAllocator keeps its type, for every pool. *)
THEOREM AllocTypeCorrect == AllocSpec => []AllocTypeOK
  <1>1. AllocInv => AllocTypeOK
    BY DEF AllocInv
  <1> QED BY <1>1, InitInv, NextInv, PTL DEF AllocSpec

(* Reference counts are exact: no leak, no premature free, however Grow,   *)
(* Free, lookups and inserts of the block table owners follow each other.  *)
THEOREM RefCountsExact == AllocSpec => []RefExact
  <1>1. AllocInv => RefExact
    BY DEF AllocInv
  <1> QED BY <1>1, InitInv, NextInv, PTL DEF AllocSpec

(* The LRU queue holds exactly the unreferenced blocks, once each. *)
THEOREM LruQueueExact == AllocSpec => []LruExact
  <1>1. AllocInv => LruExact
    BY DEF AllocInv
  <1> QED BY <1>1, InitInv, NextInv, PTL DEF AllocSpec

(* The hash index and the per-block hashes are inverse to each other. *)
THEOREM HashIndexExact == AllocSpec => []CacheExact
  <1>1. AllocInv => CacheExact
    BY DEF AllocInv
  <1> QED BY <1>1, InitInv, NextInv, PTL DEF AllocSpec

(* Only AllocOne takes a hash away from a block, and the block had no      *)
(* reference before the step and has one after it.                         *)
LEMMA HashStep ==
    ASSUME AllocInv, [AllocNext]_allocVars, NEW b \in Block,
           blk_hash[b] # NoHash, blk_hash'[b] # blk_hash[b]
    PROVE  Refs(b) = {} /\ Refs(b)' # {}
  <1>1. AllocInv'
    BY NextInv
  <1>2. PICK h \in Holder : AllocOne(h)
    <2>1. ASSUME NEW h \in Holder, FreeOne(h) PROVE FALSE
      BY <2>1 DEF FreeOne
    <2>2. ASSUME NEW h \in Holder, NEW k \in Hash, CacheLookup(h, k) PROVE FALSE
      BY <2>2 DEF CacheLookup
    <2>3. ASSUME NEW c \in Block, NEW k \in Hash, CacheInsert(c, k) PROVE FALSE
      <3>1. blk_hash \in [Block -> Hash \cup {NoHash}]
        BY DEF AllocInv, AllocTypeOK
      <3>2. blk_hash[c] = NoHash /\ blk_hash' = [blk_hash EXCEPT ![c] = k]
        BY <2>3 DEF CacheInsert
      <3> QED BY <3>1, <3>2
    <2>4. CASE UNCHANGED allocVars
      BY <2>4 DEF allocVars
    <2> QED BY <2>1, <2>2, <2>3, <2>4 DEF AllocNext
  <1>3. /\ blk_hash' = [blk_hash EXCEPT ![Head(free_lru)] = NoHash]
        /\ ref_cnt' = [ref_cnt EXCEPT ![Head(free_lru)] = 1]
        /\ free_lru # <<>>
    BY <1>2 DEF AllocOne
  <1>4. b = Head(free_lru) /\ ref_cnt[b] = 0 /\ ref_cnt'[b] = 1
    BY <1>3, LruHead DEF AllocInv, AllocTypeOK
  <1>5. Refs(b) = {}
    BY <1>4, FS_EmptySet DEF AllocInv, RefExact
  <1>6. Refs(b)' # {}
    <2>1. Cardinality(Refs(b)') = 1
      BY <1>1, <1>4 DEF AllocInv, RefExact
    <2> QED BY <2>1, FS_EmptySet
  <1> QED BY <1>5, <1>6

(* A block that somebody holds never loses or changes its hash: only a     *)
(* block that AllocOne hands out anew does.                                *)
THEOREM HashesAreStable == AllocSpec => HashIsStable
  <1> DEFINE A == \A b \in Block :
                     blk_hash[b] # NoHash /\ blk_hash'[b] # blk_hash[b] =>
                        Refs(b) = {} /\ Refs(b)' # {}
  <1>1. AllocInv /\ [AllocNext]_allocVars => A
    BY HashStep
  <1>2. AllocInv /\ [AllocNext]_allocVars => [A]_allocVars
    BY <1>1
  <1> QED BY <1>2, InitInv, NextInv, PTL DEF AllocSpec, HashIsStable

-----------------------------------------------------------------------------
(* BlockAllocator implements BlockPool. *)

(* What the refinement takes for the blocks of the holders. *)
Held(t, f) == [h \in Holder |-> SubSeq(t[h], f[h] + 1, Len(t[h]))]

(* A table that nobody is freeing is held whole. *)
LEMMA HeldWhole ==
    ASSUME NEW t, NEW f, TablesOK(t, f), NEW h \in Holder, f[h] = 0
    PROVE  Held(t, f)[h] = t[h]
  <1>1. t[h] \in Seq(Block)
    BY DEF TablesOK
  <1>2. SubSeq(t[h], 1, Len(t[h])) = t[h]
    BY <1>1, SubSeqFull
  <1> QED BY <1>2 DEF Held

(* Appending to such a table appends to what its owner holds. *)
LEMMA HeldAppend ==
    ASSUME NEW t, NEW f, NEW u, NEW h \in Holder, NEW b \in Block,
           TablesOK(t, f), Appended(t, f, u, h, b)
    PROVE  /\ Held(u, f)[h] = Append(Held(t, f)[h], b)
           /\ \A g \in Holder \ {h} : Held(u, f)[g] = Held(t, f)[g]
  <1>1. TablesOK(u, f)
    BY DEF TablesOK, Appended
  <1>2. u[h] = Append(t[h], b) /\ \A g \in Holder \ {h} : u[g] = t[g]
    BY DEF TablesOK, Appended
  <1>3. Held(u, f)[h] = Append(Held(t, f)[h], b)
    <2>1. f[h] = 0
      BY DEF Appended
    <2>2. Held(u, f)[h] = u[h] /\ Held(t, f)[h] = t[h]
      BY <1>1, <2>1, HeldWhole
    <2> QED BY <1>2, <2>2
  <1>4. \A g \in Holder \ {h} : Held(u, f)[g] = Held(t, f)[g]
    BY <1>2 DEF Held
  <1> QED BY <1>3, <1>4

(* Freeing the next entry drops the first block its owner holds. *)
LEMMA HeldFree ==
    ASSUME NEW t, NEW f, NEW u, NEW g, NEW h \in Holder,
           TablesOK(t, f), NextFreed(t, f, u, g, h)
    PROVE  /\ Held(t, f)[h] # <<>>
           /\ Held(u, g) = [Held(t, f) EXCEPT ![h] = Tail(@)]
  <1> DEFINE s == t[h]
             n == f[h]
  <1>1. s \in Seq(Block) /\ Len(s) \in Nat /\ n \in Nat /\ n < Len(s)
    BY DEF TablesOK, NextFreed
  <1>2. Held(t, f)[h] = SubSeq(s, n + 1, Len(s))
    BY DEF Held
  <1> HIDE DEF s, n
  <1>3. /\ SubSeq(s, n + 1, Len(s)) # <<>>
        /\ Tail(SubSeq(s, n + 1, Len(s))) = SubSeq(s, n + 2, Len(s))
    <2>1. n + 1 \in 1 .. Len(s) /\ Len(s) \in n + 1 .. Len(s)
      BY <1>1
    <2>2. Tail(SubSeq(s, n + 1, Len(s))) = SubSeq(s, (n + 1) + 1, Len(s))
      BY <2>1, <1>1, HeadTailOfSubSeq
    <2>3. Len(SubSeq(s, n + 1, Len(s))) # 0
      BY <1>1
    <2>4. (n + 1) + 1 = n + 2
      BY <1>1
    <2>5. ASSUME SubSeq(s, n + 1, Len(s)) = <<>> PROVE FALSE
      BY <2>3, <2>5, EmptySeq
    <2> QED BY <2>2, <2>4, <2>5, Zenon
  <1>4. Held(u, g)[h] = SubSeq(s, n + 2, Len(s))
    <2>1. CASE n + 1 = Len(s)
      <3>1. u[h] = <<>> /\ g[h] = 0
        BY <2>1 DEF NextFreed, TablesOK, s, n
      <3>2. Held(u, g)[h] = <<>>
        BY <3>1 DEF Held
      <3>3. SubSeq(s, n + 2, Len(s)) = <<>>
        BY <2>1, <1>1, SubSeqEmpty
      <3> QED BY <3>2, <3>3
    <2>2. CASE n + 1 # Len(s)
      <3>1. u[h] = s /\ g[h] = n + 1
        BY <2>2 DEF NextFreed, TablesOK, s, n
      <3>2. Held(u, g)[h] = SubSeq(u[h], g[h] + 1, Len(u[h]))
        BY DEF Held
      <3>3. (n + 1) + 1 = n + 2
        BY <1>1
      <3> QED BY <3>1, <3>2, <3>3
    <2> QED BY <2>1, <2>2
  <1>5. \A k \in Holder \ {h} : Held(u, g)[k] = Held(t, f)[k]
    <2>1. \A k \in Holder \ {h} : u[k] = t[k] /\ g[k] = f[k]
      BY DEF NextFreed, TablesOK
    <2> QED BY <2>1 DEF Held
  <1> QED BY <1>2, <1>3, <1>4, <1>5 DEF Held

(* A block that a holder still has is a block with a reference. *)
LEMMA HeldRefs ==
    ASSUME NEW t, NEW f, TablesOK(t, f), NEW b, RefsIn(t, f, b) = {},
           NEW h \in Holder, NEW i \in DOMAIN Held(t, f)[h]
    PROVE  Held(t, f)[h][i] # b
  <1>1. t[h] \in Seq(Block) /\ Len(t[h]) \in Nat /\ f[h] \in Nat
    BY DEF TablesOK
  <1>2. Held(t, f)[h] = SubSeq(t[h], f[h] + 1, Len(t[h]))
    BY DEF Held
  <1>3. f[h] + i \in f[h] + 1 .. Len(t[h]) /\ Held(t, f)[h][i] = t[h][f[h] + i]
    <2>1. PICK s, n, u : s = t[h] /\ n = f[h] /\ u = Held(t, f)[h]
      OBVIOUS
    <2>2. s \in Seq(Block) /\ n \in Nat /\ u = SubSeq(s, n + 1, Len(s)) /\ i \in DOMAIN u
      BY <1>1, <1>2, <2>1
    <2>3. n + i \in n + 1 .. Len(s) /\ u[i] = s[n + i]
      BY <2>2, SuffixAt
    <2> QED BY <2>1, <2>3
  <1>4. t[h][f[h] + i] # b
    BY <1>3, RefsInMember
  <1> QED BY <1>3, <1>4

(* The empty tables of a fresh allocator hold nothing. *)
LEMMA PoolInit == AllocInit => Pool!Init
  <1> SUFFICES ASSUME AllocInit PROVE Pool!Init
    OBVIOUS
  <1>1. \A h \in Holder : SubSeq(table[h], freed[h] + 1, Len(table[h])) = <<>>
    BY DEF AllocInit
  <1> QED BY <1>1 DEF AllocInit, Pool!Init

(* Every operation of the allocator is the pool's operation of the same    *)
(* effect; an insert that finds a name taken is no step of the pool.       *)
LEMMA PoolNext ==
    AllocInv /\ [AllocNext]_allocVars => [Pool!Next]_(Pool!poolVars)
  <1> SUFFICES ASSUME AllocInv, [AllocNext]_allocVars
               PROVE  [Pool!Next]_(Pool!poolVars)
    OBVIOUS
  <1> DEFINE H == Held(table, freed)
             G == Held(table', freed')
  <1>0. /\ H = [h \in Holder |-> SubSeq(table[h], freed[h] + 1, Len(table[h]))]
        /\ G = [h \in Holder |-> SubSeq(table[h], freed[h] + 1, Len(table[h]))]'
    BY DEF Held
  <1>1. TablesOK(table, freed)
    BY DEF AllocInv, AllocTypeOK, TablesOK
  <1> HIDE DEF H, G
  <1>2. ASSUME NEW h \in Holder, AllocOne(h) PROVE Pool!Next
    <2>0. PICK b : b = Head(free_lru)
      OBVIOUS
    <2> DEFINE k == blk_hash[b]
    <2>1. /\ free_lru # <<>> /\ freed[h] = 0 /\ freed' = freed
          /\ cached' = IF k # NoHash /\ k \in DOMAIN cached /\ cached[k] = b
                         THEN Without(cached, k) ELSE cached
          /\ table' = [table EXCEPT ![h] = Append(@, b)]
      BY <2>0, <1>2 DEF AllocOne, NoFreeRunning
    <2>2. b \in Block /\ ref_cnt[b] = 0
      BY <2>0, <2>1, LruHead DEF AllocInv
    <2>3. G = [H EXCEPT ![h] = Append(@, b)]
      <3>1. Appended(table, freed, table', h, b) /\ G = Held(table', freed)
        BY <2>1 DEF Appended, G
      <3>2. /\ Held(table', freed)[h] = Append(Held(table, freed)[h], b)
            /\ \A g \in Holder \ {h} : Held(table', freed)[g] = Held(table, freed)[g]
        <4>1. b \in Block
          BY <2>2
        <4>2. Appended(table, freed, table', h, b)
          BY <3>1
        <4> HIDE DEF k
        <4> QED BY <4>1, <4>2, <1>1, HeldAppend
      <3> QED BY <3>1, <3>2, <1>0 DEF H
    <2>4. RefsIn(table, freed, b) = {}
      BY <2>2, FS_EmptySet DEF AllocInv, RefExact, Refs
    <2>5. \A g \in Holder : \A i \in DOMAIN H[g] : H[g][i] # b
      BY <2>4, <1>1, HeldRefs DEF H
    <2>6. cached' = [x \in {y \in DOMAIN cached : cached[y] # b} |-> cached[x]]
      <3>1. \A x \in DOMAIN cached : cached[x] = b <=> x = k
        BY <2>2, NoHashAssumption DEF AllocInv, AllocTypeOK, CacheExact
      <3>2. CASE k \in DOMAIN cached
        <4>1. cached[k] = b /\ k # NoHash
          BY <3>1, <3>2, NoHashAssumption DEF AllocInv, AllocTypeOK
        <4>2. cached' = Without(cached, k)
          BY <4>1, <3>2, <2>1
        <4>3. {y \in DOMAIN cached : cached[y] # b} = DOMAIN cached \ {k}
          BY <3>1
        <4> QED BY <4>2, <4>3 DEF Without
      <3>3. CASE k \notin DOMAIN cached
        <4>1. cached' = cached
          BY <3>3, <2>1
        <4>2. {y \in DOMAIN cached : cached[y] # b} = DOMAIN cached
          BY <3>1, <3>3
        <4> QED BY <4>1, <4>2 DEF AllocInv, AllocTypeOK
      <3> QED BY <3>2, <3>3
    <2> HIDE DEF k
    <2>7. Pool!Give(h, b)
      BY <2>3, <2>5, <2>6, <1>0 DEF Pool!Give, Pool!InUse
    <2> QED BY <2>2, <2>7 DEF Pool!Next, Pool!PoolBlock, Block
  <1>3. ASSUME NEW h \in Holder, FreeOne(h) PROVE Pool!Next
    <2>1. NextFreed(table, freed, table', freed', h) /\ cached' = cached
      BY <1>3 DEF FreeOne, NextFreed
    <2>2. H[h] # <<>> /\ G = [H EXCEPT ![h] = Tail(@)]
      BY <2>1, <1>1, HeldFree DEF H, G
    <2>3. Pool!Drop(h)
      BY <2>1, <2>2, <1>0 DEF Pool!Drop
    <2> QED BY <2>3 DEF Pool!Next
  <1>4. ASSUME NEW h \in Holder, NEW k \in Hash, CacheLookup(h, k) PROVE Pool!Next
    <2>1. /\ k \in DOMAIN cached /\ freed[h] = 0 /\ freed' = freed /\ cached' = cached
          /\ table' = [table EXCEPT ![h] = Append(@, cached[k])]
      BY <1>4 DEF CacheLookup, NoFreeRunning
    <2>2. cached[k] \in Block
      BY <2>1 DEF AllocInv, AllocTypeOK
    <2>3. G = [H EXCEPT ![h] = Append(@, cached[k])]
      <3>1. Appended(table, freed, table', h, cached[k]) /\ G = Held(table', freed)
        BY <2>1 DEF Appended, G
      <3>2. /\ Held(table', freed)[h] = Append(Held(table, freed)[h], cached[k])
            /\ \A g \in Holder \ {h} : Held(table', freed)[g] = Held(table, freed)[g]
        BY <3>1, <2>2, <1>1, HeldAppend
      <3> QED BY <3>1, <3>2, <1>0 DEF H
    <2>4. Pool!Share(h, k)
      BY <2>1, <2>3, <1>0 DEF Pool!Share
    <2> QED BY <2>4 DEF Pool!Next
  <1>5. ASSUME NEW b \in Block, NEW k \in Hash, CacheInsert(b, k)
        PROVE  Pool!Next \/ UNCHANGED Pool!poolVars
    <2>1. G = H
      BY <1>5 DEF CacheInsert, G, H
    <2>2. CASE blk_hash[b] # NoHash \/ k \in DOMAIN cached
      <3>1. cached' = cached
        BY <2>2, <1>5 DEF CacheInsert
      <3> QED BY <3>1, <2>1, <1>0 DEF Pool!poolVars
    <2>3. CASE blk_hash[b] = NoHash /\ k \notin DOMAIN cached
      <3>1. cached' = [x \in DOMAIN cached \cup {k} |-> IF x = k THEN b ELSE cached[x]]
        BY <2>3, <1>5 DEF CacheInsert
      <3>2. \A x \in DOMAIN cached : cached[x] # b
        BY <2>3, NoHashAssumption DEF AllocInv, AllocTypeOK, CacheExact
      <3>3. Pool!Name(b, k)
        BY <3>1, <3>2, <2>1, <2>3, <1>0 DEF Pool!Name
      <3> QED BY <3>3 DEF Pool!Next, Pool!PoolBlock, Block
    <2> QED BY <2>2, <2>3
  <1>6. CASE UNCHANGED allocVars
    <2>1. G = H /\ cached' = cached
      BY <1>6 DEF allocVars, G, H
    <2> QED BY <2>1, <1>0 DEF Pool!poolVars
  <1> QED BY <1>2, <1>3, <1>4, <1>5, <1>6 DEF AllocNext

(* The allocator implements its promise: counts, LRU queue and per-block   *)
(* hashes hand out only blocks nobody holds and keep every name until its  *)
(* block is handed out anew, also between two iterations of a FreeMany.    *)
THEOREM ImplementsPool == AllocSpec => PoolSpec
  BY InitInv, NextInv, PoolInit, PoolNext, PTL DEF AllocSpec, PoolSpec, Pool!Spec
=============================================================================
