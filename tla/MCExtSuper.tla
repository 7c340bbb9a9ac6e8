---------------------------- MODULE MCExtSuper ----------------------------
(***************************************************************************)
(* Superblocks for ext2fs_open at an 8-bit uint32_t and a 16-bit          *)
(* TSK_DADDR_T, with 1 << 4 KiB the first shift that leaves the word.     *)
(* Sound ones: 1 KiB or 4 KiB blocks, 9 or 20 blocks from block 0 or 1,   *)
(* eight blocks and eight inodes per group, 16 inodes or 40 (more than    *)
(* the groups hold), an s_inode_size below or above the structure's.      *)
(* Rejected ones: no magic, too few inodes, a fragment size other than    *)
(* the block size.                                                        *)
(***************************************************************************)
EXTENDS ExtSuper

SB(ic, isz, bc, fdb, lg, lf, bpg, ipg, j) ==
  [magic |-> "LE", inodes_count |-> ic, inode_size |-> isz, blocks_count |-> bc,
   first_data_block |-> fdb, log_block_size |-> lg, log_frag_size |-> lf,
   blocks_per_group |-> bpg, inodes_per_group |-> ipg, journal |-> j,
   filetype |-> j]

(* the journal and filetype flags only name the type and the directory  *)
(* entry format, which no later step reads: both values occur, tied to   *)
(* first_data_block                                                       *)
MCSound ==
  {SB(ic, isz, bc, fdb, lg, lg, 8, 8, fdb = 0) :
     ic \in {16, 40}, isz \in {0, 256}, bc \in {9, 20}, fdb \in {0, 1},
     lg \in {0, 2}}

MCRejected ==
  { [SB(16, 128, 20, 1, 0, 0, 8, 8, TRUE) EXCEPT !.magic = "NONE"],
    SB(5, 128, 20, 1, 0, 0, 8, 8, TRUE),
    SB(16, 128, 20, 1, 0, 1, 8, 8, TRUE) }

MCSupers == MCSound \cup MCRejected

(* the crafted fields that reach a division: a block-size shift of 4     *)
(* (past the word: 22 in the real 32-bit int), no blocks per group, no    *)
(* inodes per group                                                       *)
MCZeroDivisors ==
  { SB(16, 128, 20, 1, 4, 4, 8, 8, TRUE),
    SB(16, 128, 20, 1, 0, 0, 0, 8, TRUE),
    SB(16, 128, 20, 1, 0, 0, 8, 0, TRUE) }

(* a superblock with no blocks, and a 4 KiB-block one on a 2 KiB image  *)
MCEdges ==
  { SB(16, 128, 0, 0, 0, 0, 8, 8, TRUE),
    SB(16, 128, 20, 1, 2, 2, 8, 8, TRUE) }

(* an inode table's dtime or i_file_acl fields: the pairs <<inode, value>> *)
(* and 0 elsewhere                                                        *)
Fields(pairs) ==
  [i \in 1 .. 40 |-> IF \E p \in pairs : p[1] = i
                     THEN (CHOOSE p \in pairs : p[1] = i)[2] ELSE 0]

(* inode 9's extended attributes in block 3, inode 1's past the last     *)
(* block                                                                  *)
MCAcls == Fields({<<9, 3>>, <<1, 30>>})

(* attributes of inode 9's block 3: user.abc = "xy", an access ACL of an  *)
(* owner, a user 500 and other entry, security.selinux, and a Lustre one  *)
MCAttrs ==
  << [idx |-> IDX_USER, name |-> <<97, 98, 99>>, val |-> <<120, 121>>, acl |-> <<>>],
     [idx |-> IDX_POSIX_ACL_ACCESS, name |-> <<>>, val |-> <<>>,
      acl |-> << [tag |-> 1, perm |-> 6, id |-> 0], [tag |-> PACL_TAG_USER, perm |-> 4, id |-> 500],
                 [tag |-> 32, perm |-> 4, id |-> 0] >>],
     [idx |-> IDX_SECURITY, name |-> <<115, 101, 108, 105, 110, 117, 120>>,
      val |-> <<1, 2, 3, 4, 5>>, acl |-> <<>>],
     [idx |-> 5, name |-> <<108>>, val |-> <<9>>, acl |-> <<>>] >>

(* block 3 written as Linux writes MCAttrs *)
MCEaAttrs == [b \in {3} |-> MCAttrs]
MCEaBlocks == [b \in {3} |-> EaEncode(MCAttrs)]

(* the image's contents: an orphan list and the dtime fields *)
Image(lo, dt) == [last_orphan |-> lo, dtime |-> dt, file_acl |-> MCAcls]

(* orphan lists: none; 9, 17, 1 (17 is the orphan directory when there   *)
(* are 16 inodes); 33 (out of range with 16 inodes, in no group with 40), *)
(* then 9 and a number past every last_inum; and the loop 9, 1, 9         *)
MCContents ==
  { Image(0, Fields({})),
    Image(9, Fields({<<9, 17>>, <<17, 1>>})),
    Image(33, Fields({<<33, 9>>, <<9, 200>>})),
    Image(9, Fields({<<9, 1>>, <<1, 9>>})) }

(* the list 9, 17, 1 alone *)
MCListContents ==
  { Image(9, Fields({<<9, 17>>, <<17, 1>>})) }

(* the loop 9, 1, 9 alone *)
MCCycleContents ==
  { Image(9, Fields({<<9, 1>>, <<1, 9>>})) }

(* one sound superblock: 16 inodes, 20 blocks from block 1, three groups *)
MCOneSound == { SB(16, 128, 20, 1, 0, 0, 8, 8, TRUE) }

(* two full groups: 16 inodes, 17 blocks from block 1 *)
MCFullGroups == { SB(16, 128, 17, 1, 0, 0, 8, 8, TRUE) }

(* block 3 crafted: one ACL entry whose value starts at 1020 with a valid *)
(* header and claims 0xffffffff bytes, so val_off + val_size wraps to    *)
(* 1019 and passes the check at 1765                                      *)
MCWrappedAcl ==
  [o \in {33, 34, 35, 40, 41, 42, 43, 1020} |->
     CASE o = 33 -> IDX_POSIX_ACL_ACCESS [] o = 34 -> 252 [] o = 35 -> 3
       [] o = 1020 -> 1 [] OTHER -> 255]

(* block 3 written as Linux writes it, with one user attribute of 256     *)
(* bytes, which the block holds                                           *)
MCLongValue ==
  EaEncode(<< [idx |-> IDX_USER, name |-> <<97>>, val |-> [j \in 1 .. 256 |-> 97],
               acl |-> <<>>] >>)

(* no orphans *)
MCNoOrphans == { Image(0, Fields({})) }
MCWrappedBlocks == [b \in {3} |-> MCWrappedAcl]
MCLongValueBlocks == [b \in {3} |-> MCLongValue]
MCNoAttrs == <<>>
=============================================================================
