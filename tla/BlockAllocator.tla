--------------------------- MODULE BlockAllocator ---------------------------
(***************************************************************************)
(* The bookkeeping half of the paged KV cache (class BlockAllocator): a    *)
(* reference count per block, an LRU queue of the blocks nobody holds, and *)
(* a content-hash index that lets an identical prefix resurrect a block    *)
(* that is still in the LRU queue.                                         *)
(*                                                                         *)
(* Every caller keeps the ids it was given in its own block table, so the  *)
(* tables are part of this module: a Holder is whoever owns one table (the *)
(* scheduler's requests).  The allocator's loops (Grow, FreeMany and the   *)
(* lookups of a prefix) are modelled one iteration per step.               *)
(***************************************************************************)
EXTENDS Integers, SequencesExt

CONSTANTS
    Holder,      \* owners of block tables
    NumBlocks,   \* blocks in the pool (num_blocks_)
    Hash,        \* the content hashes a full block can have
    NoHash       \* blk_hash_ == 0: the block carries no hash

ASSUME NumBlocksAssumption == NumBlocks \in Nat
ASSUME HolderAssumption == IsFiniteSet(Holder)
ASSUME NoHashAssumption == NoHash \notin Hash

Block == 0 .. NumBlocks - 1

VARIABLES
    ref_cnt,     \* ref_cnt_[b]
    blk_hash,    \* blk_hash_[b]
    cached,      \* cached_: a finite map from hashes to blocks
    free_lru,    \* free_lru_: least recently freed block first
    table,       \* the block table of every holder
    freed        \* progress of FreeMany: entries of table[h] already freed

allocVars == <<ref_cnt, blk_hash, cached, free_lru, table, freed>>

AllocInit ==
    /\ ref_cnt = [b \in Block |-> 0]
    /\ blk_hash = [b \in Block |-> NoHash]
    /\ cached = [h \in {} |-> 0]
    /\ free_lru = [i \in 1 .. NumBlocks |-> i - 1]
    /\ table = [h \in Holder |-> <<>>]
    /\ freed = [h \in Holder |-> 0]

-----------------------------------------------------------------------------

Without(f, x) == [y \in DOMAIN f \ {x} |-> f[y]]

(* pos_[b]: where the LRU queue holds b. *)
Pos(b) == CHOOSE i \in DOMAIN free_lru : free_lru[i] = b

(* Free() runs to completion before the allocator is called again: it has  *)
(* one caller thread and calls nothing back.                               *)
NoFreeRunning == \A h \in Holder : freed[h] = 0

(* Faulty variant: the mapping of the evicted block is left in cached_. *)
AllocOneKeepsMapping(h) ==
    /\ NoFreeRunning
    /\ free_lru # <<>>
    /\ LET b == Head(free_lru)
       IN /\ free_lru' = Tail(free_lru)
          /\ blk_hash' = [blk_hash EXCEPT ![b] = NoHash]
          /\ ref_cnt' = [ref_cnt EXCEPT ![b] = 1]
          /\ table' = [table EXCEPT ![h] = Append(@, b)]
    /\ UNCHANGED <<cached, freed>>

(* Faulty variant: front() without pop_front(). *)
AllocOneKeepsFront(h) ==
    /\ NoFreeRunning
    /\ free_lru # <<>>
    /\ ref_cnt' = [ref_cnt EXCEPT ![Head(free_lru)] = 1]
    /\ table' = [table EXCEPT ![h] = Append(@, Head(free_lru))]
    /\ UNCHANGED <<free_lru, blk_hash, cached, freed>>

(* One iteration of Grow(): AllocOne() pops the front of the LRU queue,    *)
(* evicts its hash mapping, and the caller appends the block to its table. *)
AllocOne(h) ==
    /\ NoFreeRunning
    /\ free_lru # <<>>
    /\ LET b == Head(free_lru)
           k == blk_hash[b]
       IN /\ free_lru' = Tail(free_lru)
          /\ cached' = IF k # NoHash /\ k \in DOMAIN cached /\ cached[k] = b
                         THEN Without(cached, k) ELSE cached
          /\ blk_hash' = [blk_hash EXCEPT ![b] = NoHash]
          /\ ref_cnt' = [ref_cnt EXCEPT ![b] = 1]
          /\ table' = [table EXCEPT ![h] = Append(@, b)]
    /\ UNCHANGED freed

(* Faulty variant: Free() without block_table.clear(). *)
FreeOneKeepsTable(h) ==
    /\ \A g \in Holder \ {h} : freed[g] = 0
    /\ freed[h] < Len(table[h])
    /\ LET i == freed[h] + 1
           b == table[h][i]
       IN /\ ref_cnt' = [ref_cnt EXCEPT ![b] = @ - 1]
          /\ free_lru' = IF ref_cnt[b] = 1 THEN Append(free_lru, b) ELSE free_lru
          /\ freed' = [freed EXCEPT ![h] = IF i = Len(table[h]) THEN 0 ELSE i]
    /\ UNCHANGED <<blk_hash, cached, table>>

(* One iteration of FreeMany(): drop the reference behind the next table   *)
(* entry; the last iteration is followed by block_table.clear().           *)
FreeOne(h) ==
    /\ \A g \in Holder \ {h} : freed[g] = 0
    /\ freed[h] < Len(table[h])
    /\ LET i == freed[h] + 1
           b == table[h][i]
       IN /\ ref_cnt' = [ref_cnt EXCEPT ![b] = @ - 1]
          /\ free_lru' = IF ref_cnt[b] = 1 THEN Append(free_lru, b) ELSE free_lru
          /\ IF i = Len(table[h])
               THEN /\ table' = [table EXCEPT ![h] = <<>>]
                    /\ freed' = [freed EXCEPT ![h] = 0]
               ELSE /\ freed' = [freed EXCEPT ![h] = i]
                    /\ UNCHANGED table
    /\ UNCHANGED <<blk_hash, cached>>

(* Faulty variant: a resurrected block stays in the LRU queue. *)
CacheLookupKeepsFree(h, k) ==
    /\ NoFreeRunning
    /\ k \in DOMAIN cached
    /\ ref_cnt' = [ref_cnt EXCEPT ![cached[k]] = @ + 1]
    /\ table' = [table EXCEPT ![h] = Append(@, cached[k])]
    /\ UNCHANGED <<free_lru, blk_hash, cached, freed>>

(* CacheLookup() that hits: an unreferenced block leaves the LRU queue     *)
(* (erase(pos_[b])), the count goes up, and the caller appends the block.  *)
CacheLookup(h, k) ==
    /\ NoFreeRunning
    /\ k \in DOMAIN cached
    /\ LET b == cached[k]
       IN /\ free_lru' = IF ref_cnt[b] = 0
                           THEN RemoveAt(free_lru, Pos(b))
                           ELSE free_lru
          /\ ref_cnt' = [ref_cnt EXCEPT ![b] = @ + 1]
          /\ table' = [table EXCEPT ![h] = Append(@, b)]
    /\ UNCHANGED <<blk_hash, cached, freed>>

(* Faulty variant: a block that has a hash is given another one. *)
CacheInsertRenames(b, k) ==
    /\ NoFreeRunning
    /\ k \notin DOMAIN cached
    /\ blk_hash' = [blk_hash EXCEPT ![b] = k]
    /\ cached' = [x \in DOMAIN cached \cup {k} |-> IF x = k THEN b ELSE cached[x]]
    /\ UNCHANGED <<ref_cnt, free_lru, table, freed>>

(* CacheInsert(): a block keeps its first hash and a hash its first block. *)
CacheInsert(b, k) ==
    /\ NoFreeRunning
    /\ IF blk_hash[b] # NoHash \/ k \in DOMAIN cached
         THEN UNCHANGED <<blk_hash, cached>>
         ELSE /\ blk_hash' = [blk_hash EXCEPT ![b] = k]
              /\ cached' = [x \in DOMAIN cached \cup {k} |->
                               IF x = k THEN b ELSE cached[x]]
    /\ UNCHANGED <<ref_cnt, free_lru, table, freed>>

AllocNext ==
    \/ \E h \in Holder : AllocOne(h)
    \/ \E h \in Holder : FreeOne(h)
    \/ \E h \in Holder, k \in Hash : CacheLookup(h, k)
    \/ \E b \in Block, k \in Hash : CacheInsert(b, k)

AllocSpec == AllocInit /\ [][AllocNext]_allocVars

-----------------------------------------------------------------------------

(* Types of the allocator's fields and of the tables it fills; FreeMany    *)
(* is always strictly inside the table it walks.                           *)
AllocTypeOK ==
    /\ ref_cnt \in [Block -> Nat]
    /\ blk_hash \in [Block -> Hash \cup {NoHash}]
    /\ DOMAIN cached \in SUBSET Hash
    /\ cached \in [DOMAIN cached -> Block]
    /\ free_lru \in Seq(Block)
    /\ table \in [Holder -> Seq(Block)]
    /\ freed \in [Holder -> Nat]
    /\ \A h \in Holder : freed[h] = 0 \/ freed[h] < Len(table[h])

(* The table entries that own a reference to block b, for tables t of      *)
(* which FreeMany has already given back the first f[h] entries.           *)
RefsIn(t, f, b) ==
    UNION {{h} \X {i \in f[h] + 1 .. Len(t[h]) : t[h][i] = b} : h \in Holder}

Refs(b) == RefsIn(table, freed, b)

(* ref_cnt_[b] is exactly the number of table entries that own b, at every *)
(* step of every FreeMany: no block leaks and none is freed while in use.  *)
RefExact ==
    \A b \in Block : IsFiniteSet(Refs(b)) /\ ref_cnt[b] = Cardinality(Refs(b))

(* A block is in the LRU queue exactly when nobody holds it, and once:     *)
(* AllocOne can neither hand out a block that is in use, nor run dry while *)
(* one is free, and pos_[b] is the only place CacheLookup must erase.      *)
LruExact ==
    /\ \A i, j \in DOMAIN free_lru : free_lru[i] = free_lru[j] => i = j
    /\ \A b \in Block :
          (\E i \in DOMAIN free_lru : free_lru[i] = b) <=> ref_cnt[b] = 0

(* cached_ and blk_hash_ are inverse to each other: evicting a block       *)
(* removes its mapping and no other, and a hit returns a block that still  *)
(* carries the hash that was looked up.                                    *)
CacheExact ==
    /\ \A k \in DOMAIN cached : blk_hash[cached[k]] = k
    /\ \A b \in Block : blk_hash[b] # NoHash =>
          blk_hash[b] \in DOMAIN cached /\ cached[blk_hash[b]] = b

(* A step that looks a prefix up, inserts a hash or frees a block never    *)
(* changes which block a hash names, and a step that takes the mapping     *)
(* away takes it from a block that nobody holds and whose content is about *)
(* to be overwritten: a holder's block never loses its hash.               *)
HashIsStable ==
    [][\A b \in Block : blk_hash[b] # NoHash /\ blk_hash'[b] # blk_hash[b] =>
          Refs(b) = {} /\ Refs(b)' # {}]_allocVars

(* What the allocator promises its callers, without counts and queues.     *)
Pool == INSTANCE BlockPool
            WITH held <- [h \in Holder |->
                             SubSeq(table[h], freed[h] + 1, Len(table[h]))],
                 index <- cached

PoolSpec == Pool!Spec
=============================================================================
