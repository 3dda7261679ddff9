-------------------------- MODULE MCBlockAllocator --------------------------
(***************************************************************************)
(* A small pool for TLC: any interleaving of whole allocator operations    *)
(* by a few table owners.                                                  *)
(***************************************************************************)
EXTENDS BlockAllocator

CONSTANTS MaxTable      \* bound on the length of a block table

Symmetry == Permutations(Holder) \cup Permutations(Hash)

TableBound == \A h \in Holder : Len(table[h]) <= MaxTable
=============================================================================
