--------------------------- MODULE MCNtfsIdxAlloc ---------------------------
EXTENDS NtfsIdxAlloc

(* 2 * idxalloc mod 2^32 for a buffer at an address that is 0 mod 2^31 *)
MCSkewExact == {0}

(* 2 * idxalloc mod 2^32 for a buffer at an address that is 48 mod 2^31 *)
MCSkewHeap == {96}
=============================================================================
