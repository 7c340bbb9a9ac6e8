---------------------------- MODULE MCExtCache ----------------------------
(***************************************************************************)
(* Model of a small ext2 image: 1 KiB blocks, s_first_data_block = 1, two  *)
(* groups of five blocks and two inodes each.  Group 0 is blocks 1..5      *)
(* (superblock/GDT at 1, bitmaps at 2 and 3, inode table at 4, data at 5); *)
(* group 1 is blocks 6..10 (no backup superblock: bitmaps at 6 and 7,      *)
(* inode table at 8, data at 9 and 10).  The superblock gives 9 inodes,   *)
(* the least ext2fs_open accepts: inodes 5..9 have no group, so that       *)
(* their loads are refused by group_load, and the orphan directory is 10. *)
(***************************************************************************)
EXTENDS ExtCache

MCDesc == [g \in 0 .. 1 |-> IF g = 0 THEN [bb |-> 2, ib |-> 3, it |-> 4]
                                     ELSE [bb |-> 6, ib |-> 7, it |-> 8]]

(* group 1's descriptor points its block bitmap past the end of the file   *)
(* system, the inode table is fine: ext2fs_group_load rejects it           *)
MCDescCorrupt == [MCDesc EXCEPT ![1].bb = 11]

MCBlockAlloc == [b \in 0 .. 10 |-> b \notin {5, 10}]
=============================================================================
