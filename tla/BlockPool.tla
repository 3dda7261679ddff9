----------------------------- MODULE BlockPool -----------------------------
(***************************************************************************)
(* What the KV block allocator promises, without reference counts, LRU     *)
(* queue or per-block hash: a new block is one that no table holds, a hash *)
(* names one block until that block is handed out anew, and a hit shares   *)
(* the named block.  BlockAllocator implements this specification.         *)
(***************************************************************************)
EXTENDS Integers, Sequences

CONSTANTS Holder, NumBlocks, Hash

VARIABLES
    held,     \* the blocks every holder may use, in table order
    index     \* a finite map from content hashes to blocks

poolVars == <<held, index>>

PoolBlock == 0 .. NumBlocks - 1

InUse(b) == \E h \in Holder : \E i \in DOMAIN held[h] : held[h][i] = b

Init ==
    /\ held = [h \in Holder |-> <<>>]
    /\ index = [k \in {} |-> 0]

(* A new block: one nobody uses; whatever named it is forgotten.           *)
Give(h, b) ==
    /\ ~InUse(b)
    /\ held' = [held EXCEPT ![h] = Append(@, b)]
    /\ index' = [k \in {x \in DOMAIN index : index[x] # b} |-> index[k]]

(* The oldest entry of a table is given back; what it contains stays named. *)
Drop(h) ==
    /\ held[h] # <<>>
    /\ held' = [held EXCEPT ![h] = Tail(@)]
    /\ UNCHANGED index

(* A hit: the block that k names is used by h too.                         *)
Share(h, k) ==
    /\ k \in DOMAIN index
    /\ held' = [held EXCEPT ![h] = Append(@, index[k])]
    /\ UNCHANGED index

(* An unnamed block gets a name nothing else has.                          *)
Name(b, k) ==
    /\ k \notin DOMAIN index
    /\ \A x \in DOMAIN index : index[x] # b
    /\ index' = [x \in DOMAIN index \cup {k} |-> IF x = k THEN b ELSE index[x]]
    /\ UNCHANGED held

Next ==
    \/ \E h \in Holder, b \in PoolBlock : Give(h, b)
    \/ \E h \in Holder : Drop(h)
    \/ \E h \in Holder, k \in Hash : Share(h, k)
    \/ \E b \in PoolBlock, k \in Hash : Name(b, k)

Spec == Init /\ [][Next]_poolVars
=============================================================================
