---------------------------- MODULE MCExtWalk -----------------------------
(***************************************************************************)
(* The image of MCExtCache, walked: whole-range and single-group inode     *)
(* walks (with and without the virtual orphan directory) and block walks   *)
(* that cross the group boundary, with the filters callers pass.           *)
(***************************************************************************)
EXTENDS ExtWalk

MCDesc == [g \in 0 .. 1 |-> IF g = 0 THEN [bb |-> 2, ib |-> 3, it |-> 4]
                                     ELSE [bb |-> 6, ib |-> 7, it |-> 8]]
MCDescCorrupt == [MCDesc EXCEPT ![1].bb = 11]
MCBlockAlloc == [b \in 0 .. 10 |-> b \notin {5, 10}]

MCInodeRanges == {<<1, 10>>, <<10, 10>>}
MCInodeFlagSets == {{}, {"ALLOC"}, {"UNALLOC"}, {"UNALLOC", "USED"}, {"ORPHAN"}}
MCBlockRanges == {<<0, 10>>, <<4, 6>>}
MCBlockFlagSets == {{}, {"UNALLOC"}, {"META"}}
=============================================================================
