----------------------------- MODULE ExtCache -----------------------------
(***************************************************************************)
(* The four single-slot caches of the ext2/ext3 driver (ext2fs.c): the     *)
(* group descriptor (grp_buf/grp_num), the block bitmap                    *)
(* (bmap_buf/bmap_grp_num), the inode bitmap (imap_buf/imap_grp_num) and   *)
(* the raw inode (dino_buf/dino_inum), and the two entry points that fill  *)
(* them on behalf of a caller: ext2fs_inode_lookup and                     *)
(* ext2fs_block_getflags.                                                  *)
(*                                                                         *)
(* Data is abstracted to its provenance: a slot holds the bytes OF some    *)
(* group or inode (a number), the zero bytes of a fresh tsk_malloc (Zero), *)
(* the bytes left by a short read (Torn), or is unallocated (NULL).  A     *)
(* read is short exactly when it reaches past the end of the image         *)
(* (LastBlockAct, PartialTail); the image itself is read-only.             *)
(***************************************************************************)
EXTENDS Naturals, FiniteSets

CONSTANTS
  NGroups,          \* groups_count
  InodesCount,      \* s_inodes_count
  LookupInums,      \* the inode numbers callers look up (a subset of 1..last_inum)
  IPG,              \* s_inodes_per_group
  BPG,              \* s_blocks_per_group
  FirstDataBlock,   \* s_first_data_block
  InodesPerBlock,   \* block_size / inode_size
  BitsPerBlock,     \* 8 * block_size: bits in a bitmap buffer
  LastBlock,        \* fs->last_block (from the superblock)
  LastBlockAct,     \* fs->last_block_act (last block present in the image)
  Desc,             \* Desc[g] = [bb, ib, it]: group g's descriptor on disk
  BlockAlloc,       \* BlockAlloc[b]: bit of block b in its group's bitmap
  PadBit,           \* value of bitmap bits past the group's last item
  PartialTail,      \* the image ends inside block LastBlockAct + 1
  NULL, Zero, Torn, NoTag

Groups  == 0 .. NGroups - 1
Inodes  == 1 .. InodesCount              \* first_inum = EXT2FS_FIRSTINO = 1
OrphanDirInum == InodesCount + 1         \* last_inum: the virtual $OrphanFiles
Blocks  == 0 .. LastBlock
ITS     == (IPG - 1) \div InodesPerBlock + 1   \* INODE_TABLE_SIZE, in blocks

ASSUME /\ NGroups \in Nat \ {0} /\ IPG \in Nat \ {0} /\ BPG \in Nat \ {0}
       /\ InodesCount + 1 >= 10           \* else ext2fs_open refuses the image
       /\ LookupInums \subseteq Inodes \cup {OrphanDirInum}
       /\ IPG <= BitsPerBlock /\ BPG <= BitsPerBlock
       /\ LastBlockAct <= LastBlock
       /\ Desc \in [Groups -> [bb : Nat, ib : Nat, it : Nat]]
       /\ BlockAlloc \in [Blocks -> BOOLEAN] /\ PadBit \in BOOLEAN
       /\ PartialTail \in BOOLEAN

VARIABLES
  disk,     \* the inode side of the image: [ialloc, iused : [Inodes -> BOOLEAN]]
  cache,    \* the four slots of EXT2FS_INFO
  res       \* what the last call returned to its caller

cacheVars == <<disk, cache, res>>

(* cgbase and dtog of ext2fs.h *)
cgbase(g) == FirstDataBlock + g * BPG
dtog(a)   == (a - FirstDataBlock) \div BPG
igroup(i) == (i - 1) \div IPG

DescValid(g) == \A f \in {"bb", "ib", "it"} : Desc[g][f] <= LastBlock

(* isset() on a bitmap buffer whose provenance is src *)
InodeBit(src, idx) ==
  CASE src \in Groups /\ idx < IPG -> disk.ialloc[src * IPG + 1 + idx]
    [] src \in Groups             -> PadBit
    [] src = Zero                 -> FALSE
    [] OTHER                      -> Torn
BlockBit(src, idx) ==
  CASE src \in Groups /\ idx < BPG -> BlockAlloc[cgbase(src) + idx]
    [] src \in Groups             -> PadBit
    [] src = Zero                 -> FALSE
    [] OTHER                      -> Torn
(* the i_ctime != 0 test on a raw inode buffer *)
CtimeSet(src) ==
  CASE src \in Inodes -> disk.iused[src]
    [] src = Zero     -> FALSE
    [] OTHER          -> Torn

(* the bytes a buffer holding old holds after tsk_fs_read of block blk of *)
(* group g's structure: all of it, part of it (the read straddles the end  *)
(* of the image), or nothing (the read starts past the end and fails)      *)
ReadOf(blk, g, old) ==
  CASE blk <= LastBlockAct                      -> g
    [] PartialTail /\ blk = LastBlockAct + 1    -> Torn
    [] OTHER                                    -> old
Alloc(buf) == IF buf = NULL THEN Zero ELSE buf

(***************************************************************************)
(* The loaders, as functions from the cache to [c |-> cache', ok |-> ..]:  *)
(* ok is FALSE when the C function returns 1.                              *)
(***************************************************************************)
group_load(c, g) ==
  IF g >= NGroups THEN [c |-> c, ok |-> FALSE]      \* the sanity check, line 50
  ELSE IF c.grp_buf # NULL /\ c.grp_num = g THEN [c |-> c, ok |-> TRUE]
  ELSE LET c1 == [c EXCEPT !.grp_buf = g]      \* read straight into the slot
       IN IF DescValid(g) THEN [c |-> [c1 EXCEPT !.grp_num = g], ok |-> TRUE]
                          ELSE [c |-> c1, ok |-> FALSE]

ensure_group(c, g) ==
  IF c.grp_buf = NULL \/ c.grp_num # g THEN group_load(c, g)
  ELSE [c |-> c, ok |-> TRUE]

(* mutant: the descriptor is reloaded only when none is cached, not when  *)
(* the cached one belongs to another group                                *)
bmap_load_any_desc(c, g) ==
  LET r  == IF c.grp_buf = NULL THEN group_load(c, g) ELSE [c |-> c, ok |-> TRUE]
      c2 == r.c
      d  == Desc[c2.grp_buf]
  IN CASE ~r.ok -> r
       [] c2.bmap_buf # NULL /\ c2.bmap_grp_num = g -> r
       [] d.bb > LastBlock ->
            [c |-> [c2 EXCEPT !.bmap_buf = Alloc(@)], ok |-> FALSE]
       [] OTHER ->
            [c |-> [c2 EXCEPT !.bmap_buf = ReadOf(d.bb, c2.grp_buf, Alloc(c2.bmap_buf)),
                              !.bmap_grp_num = g], ok |-> TRUE]

bmap_load(c, g) ==
  LET r  == ensure_group(c, g)
      c2 == r.c
      d  == Desc[c2.grp_buf]
  IN CASE ~r.ok -> r
       [] c2.bmap_buf # NULL /\ c2.bmap_grp_num = g -> r
       [] d.bb > LastBlock ->
            [c |-> [c2 EXCEPT !.bmap_buf = Alloc(@)], ok |-> FALSE]
       [] OTHER ->        \* a short read is reported but not returned
            [c |-> [c2 EXCEPT !.bmap_buf = ReadOf(d.bb, c2.grp_buf, Alloc(c2.bmap_buf)),
                              !.bmap_grp_num = g], ok |-> TRUE]

imap_load(c, g) ==        \* the "too large" check does not return
  LET r  == ensure_group(c, g)
      c2 == r.c
      d  == Desc[c2.grp_buf]
  IN CASE ~r.ok -> r
       [] c2.imap_buf # NULL /\ c2.imap_grp_num = g -> r
       [] OTHER ->
            [c |-> [c2 EXCEPT !.imap_buf = ReadOf(d.ib, c2.grp_buf, Alloc(c2.imap_buf)),
                              !.imap_grp_num = g], ok |-> TRUE]

(* mutant: the offset of the inode in its group counted from 0 and the    *)
(* group's first inode from 2 (an off-by-one on "inodes start at 1")      *)
dinode_load_off_by_one(c, i) ==
  IF c.dino_buf # NULL /\ c.dino_inum = i THEN [c |-> c, ok |-> TRUE]
  ELSE LET c1  == [c EXCEPT !.dino_buf = Alloc(@)]
           g   == igroup(i)
           r   == ensure_group(c1, g)
           h   == r.c.grp_buf
           rel == (i - 1) - IPG * g
           blk == Desc[h].it + rel \div InodesPerBlock
       IN CASE ~r.ok -> r
            [] blk <= LastBlockAct ->
                 [c |-> [r.c EXCEPT !.dino_buf = h * IPG + 2 + rel,
                                    !.dino_inum = i], ok |-> TRUE]
            [] OTHER -> [c |-> [r.c EXCEPT !.dino_buf = ReadOf(blk, NULL, @)],
                         ok |-> FALSE]

dinode_load(c, i) ==
  IF c.dino_buf # NULL /\ c.dino_inum = i THEN [c |-> c, ok |-> TRUE]
  ELSE LET c1  == [c EXCEPT !.dino_buf = Alloc(@)]
           g   == igroup(i)
           r   == ensure_group(c1, g)
           h   == r.c.grp_buf                  \* the descriptor actually used
           rel == (i - 1) - IPG * g
           blk == Desc[h].it + rel \div InodesPerBlock
       IN CASE ~r.ok -> r
            [] blk <= LastBlockAct ->
                 [c |-> [r.c EXCEPT !.dino_buf = h * IPG + 1 + rel,
                                    !.dino_inum = i], ok |-> TRUE]
            [] OTHER -> [c |-> [r.c EXCEPT !.dino_buf = ReadOf(blk, NULL, @)],
                         ok |-> FALSE]

(* mutant: the inode bitmap is taken as already loaded for the inode      *)
dinode_copy_no_imap(c) ==
  LET i == c.dino_inum
      g == igroup(i)
  IN [c |-> c, ok |-> TRUE,
      meta |-> [inum |-> i, src |-> c.dino_buf,
                alloc |-> InodeBit(c.imap_buf, i - (g * IPG + 1)),
                used |-> CtimeSet(c.dino_buf)]]

(* ext2fs_dinode_copy, reduced to what it reads through the caches: the    *)
(* flags (ALLOC/UNALLOC from the inode bitmap, USED/UNUSED from ctime) and *)
(* which inode's record the metadata was copied from.                      *)
dinode_copy(c) ==
  LET i == c.dino_inum
      g == igroup(i)
      r == IF c.imap_grp_num # g THEN imap_load(c, g) ELSE [c |-> c, ok |-> TRUE]
  IN IF ~r.ok THEN [c |-> r.c, ok |-> FALSE, meta |-> NULL]
     ELSE [c |-> r.c, ok |-> TRUE,
           meta |-> [inum |-> i, src |-> c.dino_buf,
                     alloc |-> InodeBit(r.c.imap_buf, i - (g * IPG + 1)),
                     used |-> CtimeSet(c.dino_buf)]]

(***************************************************************************)
(* ext2fs_inode_lookup(inum): result record or "error"                     *)
(***************************************************************************)
inode_lookup(c, i) ==
  IF i = OrphanDirInum
  THEN [c |-> c, ok |-> TRUE,
        meta |-> [inum |-> i, src |-> OrphanDirInum, alloc |-> TRUE, used |-> TRUE]]
  ELSE LET r1 == dinode_load(c, i)
       IN IF ~r1.ok THEN [c |-> r1.c, ok |-> FALSE, meta |-> NULL]
          ELSE dinode_copy(r1.c)

(***************************************************************************)
(* ext2fs_block_getflags(addr): a set of ALLOC/UNALLOC/META/CONT.  The     *)
(* META span uses the cached grp_buf, whichever group it holds.            *)
(***************************************************************************)
block_getflags(c, a) ==
  IF a = 0 THEN [c |-> c, flags |-> {"CONT", "ALLOC"}]
  ELSE IF a < FirstDataBlock THEN [c |-> c, flags |-> {"META", "ALLOC"}]
  ELSE
    LET g == dtog(a)
        r == IF c.bmap_buf = NULL \/ c.bmap_grp_num # g
             THEN bmap_load(c, g) ELSE [c |-> c, ok |-> TRUE]
        d    == Desc[r.c.grp_buf]
        dbase == cgbase(g)
        bit  == BlockBit(r.c.bmap_buf, a - dbase)
        meta == \/ a >= dbase /\ a < d.bb
                \/ a = d.bb \/ a = d.ib
                \/ a >= d.it /\ a < d.it + ITS
    IN IF ~r.ok THEN [c |-> r.c, flags |-> {}]
       ELSE [c |-> r.c,
             flags |-> (CASE bit = TRUE -> {"ALLOC"} [] bit = FALSE -> {"UNALLOC"}
                             [] OTHER -> {Torn})
                       \cup IF meta THEN {"META"} ELSE {"CONT"}]

(***************************************************************************)
(* Reference definitions, straight from the image                          *)
(***************************************************************************)
RefBlockFlags(a) ==
  IF a = 0 THEN {"CONT", "ALLOC"}
  ELSE IF a < FirstDataBlock THEN {"META", "ALLOC"}
  ELSE LET d == Desc[dtog(a)]  dbase == cgbase(dtog(a)) IN
       (IF BlockAlloc[a] THEN {"ALLOC"} ELSE {"UNALLOC"})
       \cup IF \/ a >= dbase /\ a < d.bb
               \/ a = d.bb \/ a = d.ib
               \/ a >= d.it /\ a < d.it + ITS
            THEN {"META"} ELSE {"CONT"}

(***************************************************************************)
(* The specification of a caller making calls one after the other         *)
(***************************************************************************)
CacheInit ==
  \* an inode past the groups' tables is never read: its group is refused
  /\ LET inTable == 1 .. NGroups * IPG IN
     \E a, u \in [inTable -> BOOLEAN] :
       disk = [ialloc |-> [i \in Inodes |-> i \in inTable /\ a[i]],
               iused  |-> [i \in Inodes |-> i \in inTable /\ u[i]]]
  /\ cache = [grp_buf |-> NULL, grp_num |-> NoTag,
              bmap_buf |-> NULL, bmap_grp_num |-> NoTag,
              imap_buf |-> NULL, imap_grp_num |-> NoTag,
              dino_buf |-> NULL, dino_inum |-> NoTag]
  /\ res = NULL

InodeLookup(i) ==
  LET r == inode_lookup(cache, i) IN
  /\ cache' = r.c
  /\ res' = [op |-> "lookup", arg |-> i, ok |-> r.ok, meta |-> r.meta]
  /\ UNCHANGED disk

BlockGetFlags(a) ==
  LET r == block_getflags(cache, a) IN
  /\ cache' = r.c
  /\ res' = [op |-> "getflags", arg |-> a, flags |-> r.flags]
  /\ UNCHANGED disk

CacheNext ==
  \/ \E i \in LookupInums : InodeLookup(i)
  \/ \E a \in Blocks : BlockGetFlags(a)

CacheSpec == CacheInit /\ [][CacheNext]_cacheVars

(***************************************************************************)
(* Properties                                                              *)
(***************************************************************************)
Content == Groups \cup {Zero, Torn, NULL}
CacheTypeOK ==
  /\ cache.grp_buf \in Groups \cup {NULL} /\ cache.grp_num \in Groups \cup {NoTag}
  /\ cache.bmap_buf \in Content /\ cache.bmap_grp_num \in Groups \cup {NoTag}
  /\ cache.imap_buf \in Content /\ cache.imap_grp_num \in Groups \cup {NoTag}
  /\ cache.dino_buf \in (1 .. NGroups * IPG) \cup {Zero, Torn, NULL}  \* a table record
  /\ cache.dino_inum \in Inodes \cup {NoTag}

(* Every tag names what its slot holds: a slot tagged with group g (inode  *)
(* i) holds the bytes read for g (i).  This is what makes a cache hit in   *)
(* the loaders, and in block_getflags' and dinode_copy's own tag tests,    *)
(* return the right bytes after any sequence of lookups.                   *)
CachesCoherent ==
  /\ cache.grp_num \in Groups => cache.grp_buf = cache.grp_num
  /\ cache.bmap_grp_num \in Groups => cache.bmap_buf = cache.bmap_grp_num
  /\ cache.imap_grp_num \in Groups => cache.imap_buf = cache.imap_grp_num
  /\ cache.dino_inum \in Inodes => cache.dino_buf = cache.dino_inum

(* A successful ext2fs_inode_lookup(i) returns the metadata of inode i: it *)
(* was copied from i's own on-disk record, and its ALLOC/USED flags are    *)
(* those of i's bitmap bit and ctime, whatever was cached before the call. *)
LookupCorrect ==
  res # NULL /\ res.op = "lookup" /\ res.ok /\ res.arg \in Inodes =>
    /\ res.meta.src = res.arg
    /\ res.meta.alloc = disk.ialloc[res.arg]
    /\ res.meta.used = disk.iused[res.arg]

(* ext2fs_block_getflags(a) returns the flags of block a as the image      *)
(* defines them: its bit in its own group's bitmap, and META exactly when  *)
(* a lies in its own group's reserved span, bitmaps or inode table.        *)
BlockFlagsCorrect ==
  res # NULL /\ res.op = "getflags" => res.flags = RefBlockFlags(res.arg)
=============================================================================
