----------------------------- MODULE ExtSuper -----------------------------
(***************************************************************************)
(* Opening and closing an ext2/ext3 file system (ext2fs_open and          *)
(* ext2fs_close of ext2fs.c) and the first use the open handle is put to: *)
(* ext2fs_dinode_load, which finds an inode's group by dividing by        *)
(* s_inodes_per_group and asks ext2fs_group_load for it; and the two     *)
(* diagnostics that read the handle through those loaders, ext2fs_fsstat  *)
(* (its orphan list and group loop) and ext2fs_istat (up to the extended- *)
(* attribute block).                                                       *)
(*                                                                         *)
(* The superblock is a record of the uint32 fields ext2fs_open reads.     *)
(* Arithmetic keeps the code's types at a scaled width: a uint32_t is      *)
(* taken modulo 2^WordBits and a TSK_DADDR_T (uint64_t) modulo            *)
(* 2^DaddrBits.  Sizes are in KiB: the image region is the floor of       *)
(* (img_info->size - offset) / 1024, and since the superblock read has    *)
(* already succeeded that region is at least 2 KiB, so flooring twice is  *)
(* the code's one signed division.  A division by zero is a crash.        *)
(***************************************************************************)
EXTENDS Integers, ExtEaBlock

CONSTANTS
  WordBits,       \* width of uint32_t and of the int shifted at 2174 (32)
  DaddrBits,      \* width of TSK_DADDR_T (64)
  ShiftZeroAt,    \* least count c with (int) 1024 << c = 0 on the word (22)
  Supers,         \* superblocks on disk
  FsTypes,        \* ftype arguments of ext2fs_open
  Avails,         \* KiB of the image from the file system's start
  LoadInums,      \* inode numbers handed to ext2fs_dinode_load
  IstatInums,     \* inode numbers handed to ext2fs_istat
  Contents,       \* what the image holds beyond the superblock: [last_orphan,
                  \* dtime, file_acl], the last two per inode record
  EaBlocks,       \* the bytes of the image's attribute blocks, by block number
  EaAttrs,        \* the attributes of those written as Linux writes them
  MallocMayFail,  \* whether tsk_malloc may return NULL
  NoTag           \* 0xffffffff: an empty cache slot's tag

U32 == 2 ^ WordBits
U64 == 2 ^ DaddrBits
ExtTypes == {"EXT_DETECT", "EXT2", "EXT3"}      \* TSK_FS_TYPE_ISEXT
InodeStructSize == 128                         \* sizeof(ext2fs_inode)
EXT2FS_FIRSTINO == 1
EXT2FS_ROOTINO  == 2
Bufs == {"dino_buf", "grp_buf", "bmap_buf", "imap_buf"}
MallocResults == IF MallocMayFail THEN BOOLEAN ELSE {TRUE}
(* a call's tsk_mallocs run in order and it returns at the first NULL, so *)
(* its outcomes are which of them, if any, fails first                    *)
FirstFailures(ms) == IF MallocMayFail THEN ms \cup {"none"} ELSE {"none"}

VARIABLES
  pc,     \* "init", "open", "failed", "crashed" or "closed"
  disk,   \* the superblock and image region the open was given
  fs,     \* the handle's geometry, once open
  err,    \* tsk_errno of the last failing call
  cache,  \* the dino and group slots' tags: [dino, grp]
  heap,   \* allocations the handle owns
  call,   \* the loop of ext2fs_fsstat in progress: [op, or_in, i]
  leaked, \* whether a TSK_FS_FILE was left open by a call that returned
  out     \* what the last ext2fs_fsstat or ext2fs_istat reported

vars == <<pc, disk, fs, err, cache, heap, call, leaked, out>>
Idle == [op |-> "none", or_in |-> 0, i |-> 0]

(* EXT2FS_MIN_BLOCK_SIZE << s_log_block_size, in KiB: the int shift masks *)
(* its count to the word and drops bits shifted past it                   *)
BlockSizeKiB(log) ==
  LET c == log % WordBits IN IF c < ShiftZeroAt THEN 2 ^ c ELSE 0

(* tsk_getu32(s_inodes_count) + 1 is uint32 arithmetic *)
inum_count(sb) == (sb.inodes_count + 1) % U32

(* block_count - 1 as a TSK_DADDR_T *)
last_block(sb) == (sb.blocks_count - 1) % U64

(* the blocks the image holds, and last_block_act lowered to them *)
last_block_act(sb, avail) ==
  LET n == avail \div BlockSizeKiB(sb.log_block_size) IN
  IF n < sb.blocks_count THEN (n - 1) % U64 ELSE last_block(sb)

(* roundup(EXT2FS_SBOFF + sizeof(ext2fs_sb), block_size), in KiB *)
groups_offset(bs) == ((2 + bs - 1) \div bs) * bs

(* mutant: the group count rounded down *)
groups_count_floor(sb) ==
  (((sb.blocks_count - sb.first_data_block) % U64) \div sb.blocks_per_group) % U32

(* first_data_block is a TSK_DADDR_T, so the sum is uint64, then cast to *)
(* EXT2_GRPNUM_T                                                         *)
groups_count(sb) ==
  (((sb.blocks_count - sb.first_data_block + sb.blocks_per_group - 1) % U64)
     \div sb.blocks_per_group) % U32

(* the early returns of ext2fs_open up to the geometry, in their order;  *)
(* m1, m2 are the outcomes of the two tsk_mallocs                         *)
open_checks(ft, sb, avail, m1, m2) ==
  IF ft \notin ExtTypes THEN [st |-> "fail", err |-> "ARG", held |-> {}]
  ELSE IF ~m1 THEN [st |-> "fail", err |-> "OOM", held |-> {}]
  ELSE IF ~m2 THEN [st |-> "fail", err |-> "OOM", held |-> {}]
  ELSE IF avail < 2 THEN [st |-> "fail", err |-> "READ", held |-> {}]
  ELSE IF sb.magic = "NONE" THEN [st |-> "fail", err |-> "MAGIC", held |-> {}]
  ELSE IF inum_count(sb) < 10 THEN [st |-> "fail", err |-> "MAGIC", held |-> {}]
  ELSE IF sb.log_block_size # sb.log_frag_size
       THEN [st |-> "fail", err |-> "UNSUPFUNC", held |-> {}]
  ELSE IF BlockSizeKiB(sb.log_block_size) = 0
       THEN [st |-> "crash", err |-> "FPE", held |-> {"ext2fs", "sb"}]
  ELSE IF sb.blocks_per_group = 0
       THEN [st |-> "crash", err |-> "FPE", held |-> {"ext2fs", "sb"}]
  ELSE [st |-> "ok", err |-> "NONE", held |-> {"ext2fs", "sb"}]

(* the handle ext2fs_open fills in *)
Handle(ft, sb, avail) ==
  LET bs == BlockSizeKiB(sb.log_block_size) IN
  [ ftype |-> IF ft = "EXT_DETECT" THEN IF sb.journal THEN "EXT3" ELSE "EXT2" ELSE ft,
    endian |-> sb.magic,
    deentry_type |-> IF sb.filetype THEN "V2" ELSE "V1",
    inode_size |-> IF sb.inode_size < InodeStructSize THEN InodeStructSize
                   ELSE sb.inode_size,
    last_inum |-> inum_count(sb),
    block_size |-> bs,
    last_block |-> last_block(sb),
    last_block_act |-> last_block_act(sb, avail),
    groups_offset |-> groups_offset(bs),
    groups_count |-> groups_count(sb),
    block_count |-> sb.blocks_count ]

Init ==
  /\ pc = "init" /\ disk = [sb |-> NoTag, avail |-> 0] /\ fs = NoTag
  /\ err = "NONE" /\ cache = [dino |-> NoTag, grp |-> NoTag] /\ heap = {}
  /\ call = Idle /\ leaked = FALSE /\ out = NoTag

Open(ft, sb, avail, data) ==
  /\ pc = "init"
  /\ \E m1, m2 \in MallocResults :
       LET r == open_checks(ft, sb, avail, m1, m2) IN
       /\ pc' = CASE r.st = "ok" -> "open" [] r.st = "fail" -> "failed"
                  [] r.st = "crash" -> "crashed"
       /\ fs' = IF r.st = "ok" THEN Handle(ft, sb, avail) ELSE NoTag
       /\ err' = r.err
       /\ heap' = r.held
  /\ disk' = [sb |-> sb, avail |-> avail, data |-> data]
  /\ cache' = [dino |-> NoTag, grp |-> NoTag]
  /\ UNCHANGED <<call, leaked, out>>

(* the group descriptor read at 76-78 is complete when the image holds it *)
DescInImage(g) ==
  fs.groups_offset * 1024 + (g + 1) * 32 <= disk.avail * 1024

(* mutant: group_load without its sanity check on the group number *)
group_load_no_check(g, m, dv, h) ==
  LET R(e, c, hh) == [err |-> e, cache |-> c, held |-> hh] IN
  IF "grp_buf" \notin h /\ ~m THEN R("OOM", cache, h)
  ELSE IF "grp_buf" \in h /\ cache.grp = g THEN R("NONE", cache, h)
  ELSE IF ~DescInImage(g) THEN R("READ", cache, h \cup {"grp_buf"})
  ELSE IF ~dv THEN R("CORRUPT", cache, h \cup {"grp_buf"})
  ELSE R("NONE", [cache EXCEPT !.grp = g], h \cup {"grp_buf"})

(* ext2fs_group_load(g) with the heap h: the sanity check (50), the slot's *)
(* allocation by m or its hit (58-66), the descriptor read (76-86), and   *)
(* dv, whether its locations pass 92-104 (the bytes are ExtCache's)       *)
group_load(g, m, dv, h) ==
  LET R(e, c, hh) == [err |-> e, cache |-> c, held |-> hh] IN
  IF g >= fs.groups_count THEN R("ARG", cache, h)
  ELSE IF "grp_buf" \notin h /\ ~m THEN R("OOM", cache, h)
  ELSE IF "grp_buf" \in h /\ cache.grp = g THEN R("NONE", cache, h)
  ELSE IF ~DescInImage(g) THEN R("READ", cache, h \cup {"grp_buf"})
  ELSE IF ~dv THEN R("CORRUPT", cache, h \cup {"grp_buf"})
  ELSE R("NONE", [cache EXCEPT !.grp = g], h \cup {"grp_buf"})

(* mutant: any cached inode counts as a hit *)
dinode_load_any_hit(inum, m1, m2, dv, ir) ==
  LET ipg == disk.sb.inodes_per_group
      g   == ((inum - EXT2FS_FIRSTINO) \div ipg) % U32
      dino_held == heap \cup {"dino_buf"}
      ReadInode(c, h) ==
        IF ir THEN [err |-> "NONE", cache |-> [c EXCEPT !.dino = inum], held |-> h]
        ELSE [err |-> "READ", cache |-> c, held |-> h]
      gl == group_load(g, m2, dv, dino_held)
  IN
  IF inum < EXT2FS_FIRSTINO \/ inum > fs.last_inum - 1
    THEN [err |-> "INODE_NUM", cache |-> cache, held |-> heap]
  ELSE IF "dino_buf" \notin heap /\ ~m1
    THEN [err |-> "OOM", cache |-> cache, held |-> heap]
  ELSE IF "dino_buf" \in heap
    THEN [err |-> "NONE", cache |-> cache, held |-> heap]
  ELSE IF ipg = 0 THEN [err |-> "FPE", cache |-> cache, held |-> dino_held]
  ELSE IF "grp_buf" \in heap /\ cache.grp = g THEN ReadInode(cache, dino_held)
  ELSE IF gl.err # "NONE" THEN gl
  ELSE ReadInode(gl.cache, gl.held)

(* ext2fs_dinode_load(inum) in the order of its early returns; m1, m2 are *)
(* the tsk_mallocs of dino_buf and grp_buf, dv is group_load's check and  *)
(* ir whether the inode read at 332 is complete                           *)
dinode_load(inum, m1, m2, dv, ir) ==
  LET ipg == disk.sb.inodes_per_group
      g   == ((inum - EXT2FS_FIRSTINO) \div ipg) % U32
      dino_held == heap \cup {"dino_buf"}
      ReadInode(c, h) ==
        IF ir THEN [err |-> "NONE", cache |-> [c EXCEPT !.dino = inum], held |-> h]
        ELSE [err |-> "READ", cache |-> c, held |-> h]
      gl == group_load(g, m2, dv, dino_held)
  IN
  IF inum < EXT2FS_FIRSTINO \/ inum > fs.last_inum - 1
    THEN [err |-> "INODE_NUM", cache |-> cache, held |-> heap]
  ELSE IF "dino_buf" \notin heap /\ ~m1
    THEN [err |-> "OOM", cache |-> cache, held |-> heap]
  ELSE IF "dino_buf" \in heap /\ cache.dino = inum
    THEN [err |-> "NONE", cache |-> cache, held |-> heap]
  ELSE IF ipg = 0 THEN [err |-> "FPE", cache |-> cache, held |-> dino_held]
  ELSE IF "grp_buf" \in heap /\ cache.grp = g THEN ReadInode(cache, dino_held)
  ELSE IF gl.err # "NONE" THEN gl
  ELSE ReadInode(gl.cache, gl.held)

(* what ext2fs_dinode_copy can end with: its imap_load allocates imap_buf *)
(* and reads it, or a tsk_malloc before that fails                         *)
CopyResults ==
  {[err |-> "NONE", held |-> {"imap_buf"}], [err |-> "READ", held |-> {"imap_buf"}]}
  \cup (IF MallocMayFail THEN {[err |-> "OOM", held |-> {}]} ELSE {})

(* ext2fs_inode_lookup on a fresh fs_file: the meta's allocation mm, the  *)
(* orphan directory (tsk_fs_dir_make_orphan_dir_meta, outside this        *)
(* repository, taken to succeed), then dinode_load and dinode_copy        *)
inode_lookup(inum, mm, m1, m2, dv, ir, cp) ==
  LET d == dinode_load(inum, m1, m2, dv, ir) IN
  IF ~mm THEN [err |-> "OOM", cache |-> cache, held |-> heap]
  ELSE IF inum = fs.last_inum THEN [err |-> "NONE", cache |-> cache, held |-> heap]
  ELSE IF d.err # "NONE" THEN d
  ELSE [d EXCEPT !.err = cp.err, !.held = @ \cup cp.held]

InodeLoad(inum) ==
  /\ pc = "open" /\ call = Idle
  /\ \E m1, m2 \in MallocResults, dv, ir \in BOOLEAN :
       LET r == dinode_load(inum, m1, m2, dv, ir) IN
       /\ pc' = IF r.err = "FPE" THEN "crashed" ELSE "open"
       /\ err' = r.err /\ cache' = r.cache /\ heap' = r.held
  /\ UNCHANGED <<disk, fs, call, leaked, out>>

(***************************************************************************)
(* ext2fs_fsstat and ext2fs_istat on the open handle                       *)
(***************************************************************************)
(* the dtime and i_file_acl fields of inode i's record *)
Dtime(i)   == IF i \in DOMAIN disk.data.dtime THEN disk.data.dtime[i] ELSE 0
FileAcl(i) == IF i \in DOMAIN disk.data.file_acl THEN disk.data.file_acl[i] ELSE 0
(* the bytes of block b *)
EaBlock(b) == IF b \in DOMAIN EaBlocks THEN EaBlocks[b] ELSE <<>>

(* the listing of each attribute block at each block size an image may   *)
(* have: the image is fixed, so the walk is computed once per block      *)
EaListed ==
  [b \in DOMAIN EaBlocks |->
     [k \in {BlockSizeKiB(sb.log_block_size) : sb \in Supers} |->
        EaListing(k * 1024, EaBlock(b))]]
EaListingOf(b, k) ==
  IF b \in DOMAIN EaBlocks THEN EaListed[b][k] ELSE EaListing(k * 1024, <<>>)

(* mutant: after the orphan directory the list restarts at s_last_orphan *)
NextOrphan_head(o) == IF o = fs.last_inum THEN disk.data.last_orphan ELSE Dtime(o)

(* the next link of the orphan list after o: the dtime of its meta, 0 for *)
(* the orphan directory's fresh one (1292)                                 *)
NextOrphan(o) == IF o = fs.last_inum THEN 0 ELSE Dtime(o)

(* ext2fs_fsstat up to its orphan list (1104-1269): the error reset, the  *)
(* superblock fields it prints, and s_last_orphan, the list's head        *)
FsstatStart ==
  /\ pc = "open" /\ call = Idle
  /\ call' = IF disk.data.last_orphan # 0
             THEN [Idle EXCEPT !.op = "orphans", !.or_in = disk.data.last_orphan]
             ELSE [Idle EXCEPT !.op = "groups"]
  /\ err' = "NONE"
  /\ UNCHANGED <<pc, disk, fs, cache, heap, leaked, out>>

(* one pass of the orphan loop (1271-1295): the range check, the          *)
(* allocation ma of fs_file, ext2fs_inode_lookup, and the next link, the  *)
(* inode's dtime (0 for the orphan directory's fresh meta); a failure     *)
(* resets the error and breaks, and after a failed lookup fs_file is not  *)
(* closed                                                                  *)
FsstatOrphan ==
  /\ pc = "open" /\ call.op = "orphans"
  /\ LET o    == call.or_in
         done == [Idle EXCEPT !.op = "groups"]
     IN IF o = 0 \/ o > fs.last_inum \/ o < EXT2FS_FIRSTINO
        THEN call' = done /\ UNCHANGED <<pc, err, cache, heap, leaked>>
        ELSE \E f \in FirstFailures({"ma", "mm", "m1", "m2"}), dv, ir \in BOOLEAN,
                cp \in CopyResults :
               LET r == inode_lookup(o, f # "mm", f # "m1", f # "m2", dv, ir, cp) IN
               CASE f = "ma" ->
                      call' = done /\ err' = "NONE"
                      /\ UNCHANGED <<pc, cache, heap, leaked>>
                 [] r.err = "FPE" ->
                      pc' = "crashed" /\ err' = "FPE" /\ cache' = r.cache
                      /\ heap' = r.held /\ UNCHANGED <<call, leaked>>
                 [] r.err # "NONE" ->
                      call' = done /\ err' = "NONE" /\ leaked' = TRUE
                      /\ cache' = r.cache /\ heap' = r.held /\ UNCHANGED pc
                 [] OTHER ->
                      call' = [call EXCEPT !.or_in = NextOrphan(o)]
                      /\ cache' = r.cache /\ heap' = r.held
                      /\ UNCHANGED <<pc, err, leaked>>
  /\ UNCHANGED <<disk, fs, out>>

(* tsk_gets32 of a uint32 field, the int then taken to TSK_INUM_T *)
S32AsInum(x) == (IF x >= U32 \div 2 THEN x - U32 ELSE x) % U64

(* ext2_cgbase_lcl of ext2fs.h: uint32 arithmetic, then TSK_DADDR_T *)
cgbase(k) == (disk.sb.blocks_per_group * k + disk.sb.first_data_block) % U32

(* what fsstat prints of the last group i: the size of its Inode Range    *)
(* (1347-1356) and Block Range (1361-1370), and the counts its free       *)
(* shares are taken over (1476-1501)                                      *)
LastGroupReport(i) ==
  LET sb    == disk.sb
      ipg   == S32AsInum(sb.inodes_per_group)
      inum  == (EXT2FS_FIRSTINO + ipg * i) % U64
      iend  == (inum + ipg - 1) % U64
      ilast == IF iend < fs.last_inum THEN iend ELSE fs.last_inum
      bend  == (cgbase(i + 1) - 1) % U64
      blast == IF bend < fs.last_block THEN bend ELSE fs.last_block
      il    == fs.last_inum % ipg
      bl    == fs.block_count % sb.blocks_per_group
  IN [op |-> "fsstat", inodes |-> ilast - inum + 1, blocks |-> blast - cgbase(i) + 1,
      inum_left |-> IF il = 0 THEN sb.inodes_per_group ELSE il,
      blk_left |-> IF bl = 0 THEN sb.blocks_per_group ELSE bl]

(* one pass of the group loop (1337-1507): ext2fs_group_load(i), whose    *)
(* failure returns 1, then the layout and the free counts, divided by     *)
(* s_inodes_per_group (1462) or taken modulo it (1479) in the last group  *)
FsstatGroup ==
  /\ pc = "open" /\ call.op = "groups" /\ call.i < fs.groups_count
  /\ \E m \in MallocResults, dv \in BOOLEAN :
       LET i == call.i
           r == group_load(i, m, dv, heap)
       IN /\ cache' = r.cache /\ heap' = r.held
          /\ CASE r.err # "NONE" ->
                    err' = r.err /\ call' = Idle /\ UNCHANGED <<pc, out>>
               [] disk.sb.inodes_per_group = 0 ->
                    pc' = "crashed" /\ err' = "FPE" /\ UNCHANGED <<call, out>>
               [] OTHER ->
                    /\ call' = [call EXCEPT !.i = i + 1]
                    /\ out' = IF i = fs.groups_count - 1 THEN LastGroupReport(i)
                              ELSE out
                    /\ UNCHANGED <<pc, err>>
  /\ UNCHANGED <<disk, fs, leaked>>

(* the group loop is done: return 0 (1510) *)
FsstatReturn ==
  /\ pc = "open" /\ call.op = "groups" /\ call.i >= fs.groups_count
  /\ call' = Idle
  /\ UNCHANGED <<pc, disk, fs, err, cache, heap, leaked, out>>

(* ext2fs_istat(inum): tsk_fs_file_open_meta (outside this repository:    *)
(* fs_file's allocation ma, then ext2fs_inode_lookup, and a close on      *)
(* failure), the fields read from dino_buf whenever it is allocated       *)
(* (1616-1680), and the extended-attribute block its i_file_acl names     *)
(* (1681-1721): the buffer mb, the bound check, the read; then the block *)
(* is listed by EaListing (1729-1905).  The block walks of the tail are   *)
(* outside this repository and their errors are reset.                     *)
Istat(inum) ==
  /\ pc = "open" /\ call = Idle
  /\ \E f \in FirstFailures({"ma", "mm", "m1", "m2", "mb"}), dv, ir \in BOOLEAN,
        cp \in CopyResults :
       LET r    == inode_lookup(inum, f # "mm", f # "m1", f # "m2", dv, ir, cp)
           shown == "dino_buf" \in r.held
           acl  == FileAcl(r.cache.dino)
           ea   == IF ~shown \/ acl = 0 THEN "NONE"
                   ELSE IF f = "mb" THEN "OOM"
                   ELSE IF acl > fs.last_block THEN "NONE"
                   ELSE IF acl > fs.last_block_act THEN "READ"
                   ELSE "NONE"
           listed == shown /\ acl # 0 /\ ea = "NONE" /\ acl <= fs.last_block
       IN CASE f = "ma" ->
                 err' = "OOM" /\ UNCHANGED <<pc, cache, heap, out>>
            [] r.err = "FPE" ->
                 pc' = "crashed" /\ err' = "FPE" /\ cache' = r.cache
                 /\ heap' = r.held /\ UNCHANGED out
            [] r.err # "NONE" ->
                 err' = r.err /\ cache' = r.cache /\ heap' = r.held
                 /\ UNCHANGED <<pc, out>>
            [] OTHER ->
                 /\ err' = ea /\ cache' = r.cache /\ heap' = r.held
                 /\ out' = [op |-> "istat", asked |-> inum, shown |-> shown,
                           dino |-> r.cache.dino, blk |-> acl, listed |-> listed,
                           ea |-> IF listed
                                  THEN EaListingOf(acl, fs.block_size)
                                  ELSE NoItems]
                 /\ UNCHANGED pc
  /\ UNCHANGED <<disk, fs, call, leaked>>

(* ext2fs_close: the superblock copy, the four cache slots that are       *)
(* allocated, and the handle itself are freed                              *)
Close ==
  /\ pc = "open" /\ call = Idle
  /\ pc' = "closed" /\ fs' = NoTag
  /\ heap' = heap \ ({"ext2fs", "sb"} \cup Bufs)
  /\ UNCHANGED <<disk, err, cache, call, leaked, out>>

Next ==
  \/ \E ft \in FsTypes, sb \in Supers, a \in Avails, d \in Contents :
       Open(ft, sb, a, d)
  \/ \E i \in LoadInums : InodeLoad(i)
  \/ FsstatStart \/ FsstatOrphan \/ FsstatGroup \/ FsstatReturn
  \/ \E i \in IstatInums : Istat(i)
  \/ Close

Spec == Init /\ [][Next]_vars

(* ext2fs_fsstat runs its loops without waiting on anything: once called, *)
(* it keeps taking steps                                                   *)
FairSpec ==
  Spec /\ WF_vars(FsstatOrphan) /\ WF_vars(FsstatGroup) /\ WF_vars(FsstatReturn)

(***************************************************************************)
(* Properties                                                              *)
(***************************************************************************)
(* Types; a cached group tag is a group of the handle, since group_load   *)
(* rejects any other (line 50)                                             *)
TypeOK ==
  /\ pc \in {"init", "open", "failed", "crashed", "closed"}
  /\ heap \subseteq {"ext2fs", "sb"} \cup Bufs
  /\ err \in {"NONE", "ARG", "OOM", "READ", "MAGIC", "UNSUPFUNC", "FPE",
              "INODE_NUM", "CORRUPT"}
  /\ call.op \in {"none", "orphans", "groups"} /\ leaked \in BOOLEAN
  /\ call.op # "none" => pc \in {"open", "crashed"}
  /\ pc = "open" =>
       /\ fs.last_block \in 0 .. U64 - 1 /\ fs.last_block_act \in 0 .. U64 - 1
       /\ fs.groups_count \in 0 .. U32 - 1
       /\ cache.grp \in (0 .. fs.groups_count - 1) \cup {NoTag}
       /\ cache.dino \in (EXT2FS_FIRSTINO .. fs.last_inum - 1) \cup {NoTag}

(* Spec §4.1: a handle ext2fs_open returns has the geometry of its        *)
(* superblock and image: block_size = 1024 << log, inode_size raised to   *)
(* the structure's, groups_count = ceil((blocks - first_data_block) /     *)
(* blocks_per_group), last_inum = inodes + 1 and last_block_act =         *)
(* min(blocks - 1, floor(image / block_size) - 1), in exact integers.     *)
GeometryMatchesSpec ==
  pc = "open" =>
    LET sb == disk.sb
        Ceil(x, y) == -((-x) \div y)
        Lesser(x, y) == IF x < y THEN x ELSE y
    IN /\ fs.block_size = 2 ^ sb.log_block_size
       /\ fs.inode_size = IF sb.inode_size < InodeStructSize THEN InodeStructSize
                          ELSE sb.inode_size
       /\ fs.groups_count = Ceil(sb.blocks_count - sb.first_data_block,
                                 sb.blocks_per_group)
       /\ fs.last_inum = sb.inodes_count + 1
       /\ fs.last_block = sb.blocks_count - 1
       /\ fs.last_block_act = Lesser(sb.blocks_count - 1,
                                     disk.avail \div fs.block_size - 1)

(* Spec §1, §7: a corrupt file system is tolerated, every Ext operation   *)
(* returning with an error slot filled; neither ext2fs_open nor a lookup  *)
(* on the handle it returns divides by zero.                              *)
NoDivideByZero == pc # "crashed"

(* ext2fs_fsstat returns: its orphan list (1271-1295) is followed until a *)
(* zero link, a number out of range or an error, and its group loop until *)
(* groups_count; a call in progress eventually returns, unless it crashes *)
FsstatReturns == call.op # "none" ~> (call.op = "none" \/ pc = "crashed")

(* Spec §3 (buffers are owned and freed): every TSK_FS_FILE fsstat and    *)
(* istat allocate is closed before they return, on error paths as well.  *)
FsstatClosesFiles == ~leaked

(* fsstat's report of the last group is consistent: its free inodes and   *)
(* blocks are shown as shares (1476-1501) of the counts that its own      *)
(* Inode Range and Block Range lines (1347-1370) list.                    *)
LastGroupSharesOfItsRanges ==
  out # NoTag /\ out.op = "fsstat" =>
    out.inum_left = out.inodes /\ out.blk_left = out.blocks

(* istat shows the record of the inode it is asked for: whenever dino_buf *)
(* is allocated it reads the generation, flags and EA block from it; the  *)
(* comment at 1616 allows only that it be unset for a virtual file.       *)
IstatShowsAskedInode ==
  out # NoTag /\ out.op = "istat" /\ out.shown => out.dino = out.asked

(* istat lists an attribute block written as Linux writes it exactly: one *)
(* line per attribute in order, names and values as stored, each ACL with *)
(* its entries, whatever the block size; the entry walk (1738-1745) must  *)
(* find each entry where the previous one ends, rounded to 4 bytes.       *)
EaBlockListedExactly ==
  out # NoTag /\ out.op = "istat" /\ out.listed
  /\ out.blk \in DOMAIN EaAttrs =>
    out.ea = [NoItems EXCEPT !.items = EaExpected(EaAttrs[out.blk])]

(* spec.md's note on the attribute block: every read of istat's entry     *)
(* walk stays within the block it read, and the copies into its local     *)
(* name[256] and val[256] stay within those arrays.                       *)
EaAccessesInBounds ==
  out # NoTag /\ out.op = "istat" => ~out.ea.past /\ ~out.ea.valpast
=============================================================================
