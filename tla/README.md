# TLA+ models of the ext2/ext3 and NTFS directory code of vmxray's Sleuth Kit

The code modelled here is in two files:

- `src/original_src/sleuthkit-3.1.2/tsk3/fs/ext2fs.c` is the ext driver: the superblock, four single-slot caches, the inode and block iterators, and printing.
- `src/src/tools/sleuthkit/tsk3/fs/ntfs_dent.c` is the NTFS directory layer: index-entry parsing, index-record fixup, the orphan map, opening directories and resolving paths.

Every module is translated from these sources. Where a definition stands for code outside them, PROJECT.json marks it `spec_modelled`. `spec.md` is the design those sources implement.

## 1. Inventory

| Id | Component | Code | State it owns | Operations that change state |
|----|-----------|------|---------------|------------------------------|
| C1 | ExtSuper | `ext2fs_open` (ext2fs.c 2025-2258), `ext2fs_close` (1988-2011) | the superblock copy; geometry: block_size, inode_size, groups_offset, groups_count, first/last inode and block, last_block_act; the cache slots set empty | open, close |
| C2 | ExtGroupCache | `ext2fs_group_load` (40-119) | `grp_buf`, `grp_num` | load |
| C3 | ExtBitmapCache | `ext2fs_bmap_load` (142-200), `ext2fs_imap_load` (208-267) | `bmap_buf`/`bmap_grp_num`, `imap_buf`/`imap_grp_num` | load |
| C4 | ExtInodeCache | `ext2fs_dinode_load` (275-363), `ext2fs_dinode_copy` (370-615), `ext2fs_inode_lookup` (626-664) | `dino_buf`, `dino_inum`; the caller's TSK_FS_META | load, copy, lookup |
| C5 | Inode iterator | `ext2fs_inode_walk` (677-877) | the loop's `inum` and `ibase`, its TSK_FS_FILE, `fs->list_inum_named` | walk, calling back the caller |
| C6 | Block iterator | `ext2fs_block_getflags` (881-973), `ext2fs_block_walk` (985-1080) | the loop's `addr`, its TSK_FS_BLOCK | getflags, walk |
| C7 | Ext diagnostics | `ext2fs_fsstat` (1104-1511), `ext2fs_istat` (1592-1982), `fscheck`, `print_map` | none of their own: they load through C2-C4 and print; fsstat's orphan cursor and group index | fsstat, istat |
| C8 | NtfsIndexParser | `ntfs_proc_idxentry` (307-508), `is_time`, `ntfs_dent_copy` | the listing (TSK_FS_DIR) | parse an entry list |
| C9 | NtfsFixup | `ntfs_fix_idxrec` (520-608) | the index record's bytes | fixup |
| C10 | NtfsOrphanMap | `ntfs_orphan_map_*` (42-183), `ntfs_orphan_act` | `ntfs->orphan_map`: a sorted list of (parent, children[]) | add, get, free |
| C11 | NtfsDirOpener | `ntfs_dir_open_meta` (611-1141) | the listing; the cached orphan map | open a directory |
| C12 | NtfsPathResolver | `ntfs_find_file_rec`, `ntfs_find_file` (1150-1453) | `NTFS_DINFO`: depth, `didx[]`, `dirs[]` | resolve |

How the parts interact:

- C1 derives the geometry every other Ext part works within, from an untrusted superblock; C2-C4 divide by its fields again on every load.
- C7 prints the superblock, follows the orphan list through C4's lookups and loads every group through C2; istat looks an inode up and reads its raw record in C4's slot.
- C2-C4 are caches that load lazily and are never invalidated. Each has one slot, keyed by a generation tag: a group or inode number, or 0xffffffff for "never loaded".
- C5 and C6 fill these caches as they go.
- C5 and C6 also call the caller's callback in the middle of their loop. The callback may call back into the same handle (`inode_lookup`, `block_getflags`), and such a call replaces the slots under the walk.
- C11 builds C10 with a full NTFS inode walk and keeps the result.
- C12 opens the target and each parent through the MFT and calls the caller's callback once per path found; it shares no state with C8-C11.

Hard behaviours:

- Slots are written before the data is validated or the read is checked.
- Tags are tested in different places with different conditions.
- Nested calls from callbacks disturb the walk's state.
- There are error returns in the middle of walks.
- Images may be truncated, so reads can come up short.
- Numbers come from an untrusted superblock or index record.

## 2. Modules

### ExtSuper (C1, and fsstat and istat of C7)

The superblock is a record of the uint32 fields `ext2fs_open` reads (`Supers`); the image is the KiB from the file system's start (`Avails`). The code's integer types are kept at a scaled width: a `uint32_t` is taken modulo `2^WordBits`, a `TSK_DADDR_T` modulo `2^DaddrBits`, and the `int` shift `1024 << s_log_block_size` masks its count to the word and is 0 from `ShiftZeroAt` on (22 on the real 32-bit `int`). A division by zero is a crash (`pc = "crashed"`).

- `open_checks` is the chain of early returns of `ext2fs_open` in their order: the ftype, the two `tsk_malloc`s, the superblock read (short when the image holds less than 2 KiB), the magic, `inum_count < 10` (computed in uint32, so `s_inodes_count = 2^32 - 1` wraps to 0), the fragment size, then the two divisions that can crash (2178, 2189-2194).
- `Handle` is what the open fills in: the resolved ftype, `deentry_type`, `inode_size`, `last_inum`, `block_size`, `last_block`, `last_block_act`, `groups_offset` and `groups_count`, each an operator named after its field.
- `Open` takes an ftype, a superblock and an image size. `InodeLoad(inum)` is `ext2fs_dinode_load` on the handle with the `ext2fs_group_load` it calls: the range check, the slot allocation and hit test, the division by `s_inodes_per_group` (312), group_load's sanity check (50), its allocation and the descriptor read (short past the image). What the descriptor holds is ExtCache's concern; here it either passes the check at 92-96 or not, and the inode read it locates is complete or not. `Close` is `ext2fs_close`.
- `heap` holds the allocations the handle owns; `cache` holds the tags of the inode and group slots.
- `inode_lookup` is `ext2fs_inode_lookup` on a fresh file: the meta's allocation, the orphan directory (its meta made by a function outside the repository and taken to succeed, with no load at all), `dinode_load` and `dinode_copy`. Of `dinode_copy` only its `imap_load` can change what the handle holds (`CopyResults`: the bitmap slot allocated and read or short, or an earlier allocation failing); ExtCache models it in full.
- A call's `tsk_malloc`s run in order and it returns at the first NULL, so fsstat and istat choose which of them fails first (`FirstFailures`) instead of one boolean each.
- `Contents` is what the image holds beyond the superblock: `s_last_orphan` and each inode's `dtime` and `i_file_acl`. The attribute blocks are constants (`EaBlocks`, byte offset to byte), since nothing writes them; `EaListed` computes each block's listing once per block size.
- fsstat is four actions, because its orphan loop can run forever: `FsstatStart` (the error reset and the list head, 1104-1269), `FsstatOrphan` (one pass of 1271-1295: the range check, `tsk_fs_file_alloc`, the lookup, and the next link `NextOrphan`, the inode's dtime, 0 for the orphan directory's fresh meta; a failure resets the error and breaks, and after a failed lookup `leaked` is set because the file is not closed), `FsstatGroup` (one group: `group_load`, whose failure returns 1, then the division by `s_inodes_per_group` and, in the last group, `LastGroupReport`: the size of the printed inode and block ranges and the counts its free shares are taken over), and `FsstatReturn`. `call` is the loop in progress; no other operation runs while it is.
- `Istat(inum)` is `ext2fs_istat` through the extended-attribute block: the lookup through `tsk_fs_file_open_meta`, whether `dino_buf` is allocated (then its generation, flags and `i_file_acl` are printed), the block buffer, the check against `last_block`, the read (short past `last_block_act`, which returns 1), and the listing of the block by ExtEaBlock's `EaListing`. `out` records what the last fsstat or istat reported, for istat the listing included.

### ExtEaBlock (the attribute block istat lists, part of C7)

Pure operators over a block: a function from byte offsets to bytes, 0 where undefined, and its size `bs`. `ext2fs.h`, which declares the on-disk structures and the `EXT2_EA_*` constants, is not in the repository; its layout is taken as Linux and TSK define it (header of 32 bytes, entries of 16 bytes plus the name, `EXT2_EA_LEN` rounding to 4, ACL entries of 4 bytes, 8 for USER and GRP), and those definitions are marked spec_modelled.

- `EaWalk` is the `for` loop of 1738-1902, one entry per recursion: the loop bound, the stop at four zero bytes, the skip of an entry with a value block, the value check of 1763-1767 (`U32Gt`, and `AddU16`, the uint16 plus uint32 that wraps as in C), the name `strncpy`, and the three kinds of entry. `EaNext` is the advance by `EXT2_EA_LEN(nlen)`.
- A user, trusted or security entry copies at most 256 bytes of its value (`StrN`); a POSIX ACL entry checks the header's version and walks its entries (`AclWalk`) while they start below `val_off + val_size`, a bound the code computes on pointers, where it does not wrap.
- A copy that runs to `bs` without a NUL (`StrReadsPast`), or an ACL header or entry past `bs`, reads past the buffer: the listing records `past` and stops, because the bytes past the block are not the image's. `valpast` records the write of `val[256]`.
- The reference half of the module writes a block the way Linux does (`EaEncode`: entries packed from offset 32, values packed down from byte 1024, each rounded to 4) and says what istat should list for it (`EaExpected`).


### ExtCache (C2, C3, C4 and block_getflags of C6)

The state:

- `cache` holds the eight fields of EXT2FS_INFO.
- `disk` holds the inode side of the image: each inode's bitmap bit and whether its ctime is non-zero, chosen in Init.
- `res` holds what the last call returned.

Block-bitmap bits and the group descriptors are constants (`BlockAlloc`, `Desc`).

Data is abstracted to its provenance. A slot holds one of:

- the number of the group or inode whose bytes it has;
- `Zero`, the zeroed bytes of a fresh `tsk_malloc`;
- `Torn`, the bytes of a read that reached the end of the image;
- `NULL`, for a slot never allocated.

`ReadOf(blk, g, old)` stands for `tsk_fs_read`:

- a full read when `blk <= LastBlockAct`;
- `Torn` when the image ends inside the block (`PartialTail`);
- otherwise nothing is copied, the read returns -1, and the buffer keeps `old`.

Each C loader is a functional operator from the cache to `[c |-> cache', ok |-> ...]`. An `ok` of FALSE is the C function's `return 1`. Each operator keeps the C function's order: hit test, allocation, read into the slot, checks, tag update. `group_load` begins, as the code does at line 50, by refusing a group number at or past `groups_count`. The inodes are `1 .. InodesCount` (`s_inodes_count`), and `OrphanDirInum` is `InodesCount + 1`, as `ext2fs_open` sets `last_inum` (2123-2126). An inode past the groups' tables is therefore refused, not read.

The actions are the two entry points a caller uses: `InodeLookup(i)` (`ext2fs_inode_lookup`) and `BlockGetFlags(a)` (`ext2fs_block_getflags`).

`dinode_copy` is reduced to what it reads through the caches:

- the inode bitmap bit, through its own `imap_grp_num` test;
- the ctime;
- which inode's record was copied.

### ExtWalk (C5, C6), composing ExtCache

`iw` and `bw` are the frames of a running inode walk and block walk: program counter, current inode or block, `ibase`, and the canonicalised flags.

One step of a walk is one loop iteration up to and including its call of `a_action`. After that the frame is at `"cb"`:

- the caller may make up to `MaxNested` calls into the same handle (`Lookup`, `GetFlags`);
- the callback then returns CONT, STOP or ERROR (`InodeWalkCallbackReturn`, `BlockWalkCallbackReturn`).

Other variables:

- `shell` is the walk's TSK_FS_FILE / TSK_FS_BLOCK.
- `named` is `fs->list_inum_named`.

`tsk_fs_dir_load_inum_named` is called by an ORPHAN walk before its loop and is outside this repository. Its effect on the caches is taken to be the lookup of the root directory. The names it finds are the constant `NamedInodes`.

`tsk_fs_block_get` (block_walk, 1058) is taken to succeed.

### NtfsOrphanMap (C10)

The orphan map's functions as operators on the list, with no state of their own. The list is `ntfs->orphan_map` as a sequence of entries `[par, addrs, alloc, lost]` in list order:

- `addrs` holds the used part of the C array;
- `alloc` is `alloc_cnt`;
- `lost` records that a failed `tsk_realloc` set `addrs` to NULL.

| Operator | C code |
|----------|--------|
| `orphan_map_get` | `ntfs_orphan_map_get` |
| `splice_at` | the insertion loop (108-129) |
| `orphan_map_add` | `ntfs_orphan_map_add`, with `_alloc` and `_extend` |
| `orphan_act` | `ntfs_orphan_act` |
| `OrphanNames` | the loop of `ntfs_dir_open_meta` over `addrs` and each orphan's names (1096-1116) |

With `MallocMayFail`, each add may fail at any one of its allocations (`FailPoints`).

### NtfsDirOpener (C11), composing NtfsOrphanMap and refining OrphanMap

`ntfs_dir_open_meta` for one directory after another on one file system. The state:

- `omap` is the orphan map. It is NULL (`<<>>`) until the first open that reaches "get the orphan files" builds it.
- `names[c]` lists the parents of orphan `c`'s `$FILE_NAME` attributes, chosen in Init.
- `dir` is the open in progress: its phase, its address, the shape of its MFT entry, and the walk position.
- `listing` is its TSK_FS_DIR, a sequence of entries tagged by kind: `.`, `..`, a token per index list, an orphan's name `[c, j]`, and `$OrphanFiles`.
- `ret` is the last return value (OK, COR or ERR).
- `crashed` is set by a NULL dereference.
- `leaked` is set when an open returns with `fs_file_orp` still open.

A directory's shape (`DirShapes`) is what the checks before the listing read from its MFT entry:

- whether the checks at 672-727 pass;
- the parents of its names, for `..`;
- whether the `$INDEX_ROOT` offsets pass 800-813;
- `$INDEX_ALLOCATION` absent, resident or not;
- the child flag.

The shape is chosen at each open. No property relates two opens of one directory except through the map, which depends only on the orphans.

There is one action per phase, each with the code's early returns:

| Action | Lines | What it does |
|--------|-------|--------------|
| `DirOpen(d)` | 635-727 | the range check (ERR before the reset), the orphan directory delegated to `tsk_fs_dir_find_orphans`, then the MFT and `$INDEX_ROOT` checks (COR) |
| `AddDots` | 744-792 | `.` and one `..` per name, unless the directory is the root; the name and each add may fail |
| `RootList` | 794-830 | the offsets check (COR), then the `$INDEX_ROOT` list |
| `AllocPart` | 832-1071 | an absent attribute with the child flag set, or a resident one, is COR; otherwise the scan ends OK, COR or ERR |
| `OrphanWalkStep`, `OrphanWalkEnd` | 1076-1081 | the inode walk with `ntfs_orphan_act`, only when the map is NULL; a failed walk returns ERR and keeps the partial map |
| `ListOrphans` | 1083-1118 | the names of the directory's orphans; `fs_file_orp` is opened and never closed; a failed `tsk_fs_dir_add` is ignored (`KeptAdds`) |
| `OrphanDirEntry` | 1120-1140 | the `$OrphanFiles` entry of the root, then `return retval_final` |
| `FsReopen` | 167-183 | between opens, the file system is closed, `ntfs_orphan_map_free` frees the map and sets it to NULL, and the image is opened again |

The entries of the two index lists are one token each here. Their content is NtfsIndexParser's, and how the scan reaches each record is NtfsIdxAlloc's. NtfsDirOpener takes their possible results as inputs:

- `RootParseResults`: the parser never returns COR, and ERR is an allocation failure.
- `AllocScanResults`: OK, any of the early COR returns, and ERR.

Because the parser never returns TSK_COR, `retval_final` is TSK_OK at every return that reaches line 1140.

`OrphanMap` is the abstract map, from each parent to the orphans recorded under it. `AbsChildren` maps the list to it through `orphan_map_get`. `OrphanMapRefined` checks `OM!Spec` as a PROPERTY. The abstract map's `Reset` is the close: the whole map is emptied at once, and only between opens.

### NtfsFixup (C9)

`fix_idxrec` is `ntfs_fix_idxrec` as an operator over a word-addressed buffer. It returns whether the record was accepted, the buffer after the in-place repair, and the offsets it read and wrote.

- A read past the buffer yields a value chosen by the caller.
- uint32 values are int32 bit patterns, and `ULT` compares them unsigned, as line 533 does.

The module's own behaviour is one call on one record chosen in Init. `RefOk` and `RefMem` are spec §4.6 written directly. `FixupMatchesReference` compares them with the code on every record whose update array is clear of the sector tails.

### NtfsIdxAlloc (the $INDEX_ALLOCATION part of C11), using NtfsFixup

The state:

- `img` describes each cluster of `idxalloc`: magic or not, and the header fields that matter (`upd_off`, `upd_cnt`, tails sound, `begin_off`, `seqend_off`).
- `off` and `prev` are the loop's `off` and `idxrec_p`.
- `final` and `ret` are `retval_final` and the return value.
- `processed`, `touched` and `spans` record:
  - which records were fixed up;
  - the byte offsets the fixups read and wrote;
  - the lists handed to `ntfs_proc_idxentry`.

The actions:

- `Load` is the copy at 864-899.
- `ScanSkip` and `ScanFirst` are loop iterations without processing.
- `ScanRecord` is 942-1005.
- `FinalRecord` is 1010-1068.
- `ScanEnd` is the end of a scan that found no record.

Here `ntfs_proc_idxentry` returns OK, COR or ERR nondeterministically. NtfsIndexParser models it in full, and the two are checked apart: NtfsIdxAlloc's properties are about the spans it hands over, whatever the parser returns.

`skew` is `2 * (uintptr_t) idxalloc mod 2^32`. The final record's length at 1015-1017 depends on it:

- `MCSkewExact = {0}` is a buffer at an address that is 0 mod 2^31. There the code's length is the true one.
- `MCSkewHeap = {96}` is an ordinary 16-aligned heap address, 48 mod 2^31.

### NtfsIndexParser (C8)

`ntfs_proc_idxentry` scans one list of index entries. The buffer it is given is modelled as an index node after deletions:

- `old` is the list as first written from offset 0: entries, then a 16-byte end entry.
- `del` is the set of entries later removed. The rest, `cur`, were written again from 0 with a new end entry.
- The bytes past the new list (the slack) still hold the old list.
- `damage` is one header past the old list, with field values from a small set.
- `base` is the list's address mod 4, and `wrap` is whether the caller's `used_len` wrapped (seqend_off < begin_off).

`HeaderAt(p)` gives what the code reads at offset p:

- a current entry, where the new list put one;
- the new end entry, followed by the `$FILE_NAME` of the old entry that started there if there was one (the "deleted entries have strlen == 0 and idxlen == 16" theory of line 481);
- an old entry, or the old end entry, whose header lies in the slack;
- the damaged header;
- otherwise bytes that fail the first sanity check, such as the middle of a name.

An entry is a record of its name (a model value), `nlen`, name space, whether it has a child pointer, whether the size and name checks pass, and its timestamp. `is_time` is translated on the timestamp divided by 10^9.

The state is `pc`, the entry pointer `p`, the return value, whether the name buffer is held, the listing (name and ALLOC/UNALLOC, in order), and the spans `ntfs_dent_copy` read.

The actions:

- `Start` is 315-332: the name allocation, which may fail, and the length check.
- `Skip` is every `continue` that advances by 4 (359-411).
- `SkipDos` is the DOS name (429-436).
- `AddName` is 438-477: copy, flags, `tsk_fs_dir_add`, which may fail, then the advance of 479-502.
- `Finish` is 504-507.

### NtfsPathResolver (C12)

`ntfs_find_file` finds the paths of one MFT entry. For each `$FILE_NAME` of the target it calls back at once if the parent is the root, and otherwise calls `ntfs_find_file_rec` on that name. `ntfs_find_file_rec` opens the parent and walks the parent's own names, prepending `"/name"` to a 4096-byte buffer filled from the right, until a name's parent is the root.

The model keeps the recursion as an explicit stack of frames. A frame holds the name being resolved (`fs_name_list`), the position `k` in the parent's names (`fs_name_list_par`) and `decrem`. The buffer `dirs` is a function from positions to cells: `"/"`, NUL, the i-th character of a name, or of the orphan prefix. A pointer is a position, `NULL`, or `WILD`, an address outside `dirs`.

The input is the MFT: entries 5 (the root), 20, 21 and 22 (the target), each a directory or not, with a sequence number and a list of names `[name, par, pseq]`. The constant `Mfts` is a set of such tables.

The actions:

- `Start` is 1326-1411: the open of the target, the allocation filter, the name allocation (a failure does not close the target), the setup of `dinfo`, and the attribute lookup.
- `Top` is one pass of the name loop of `ntfs_find_file` (1413-1452).
- `Enter` is 1189-1240: the parent check and open, and the orphan branch, which writes `TSK_FS_ORPHAN_STR` if it fits, calls back and returns.
- `Loop` is one pass of the name loop of `ntfs_find_file_rec` (1242-1301): the fit check, the write or the reuse of `didx[depth]`, then the callback at the root or the recursive call.
- `Ret` is what the caller does with the value a call returned: `Unwind` (close and return 1) and `Resume` (undo the depth increment, next name) in a frame, or 1443-1447 in `ntfs_find_file`.

Every callback records the pointer it got, the string at that pointer, and the path it should have seen: the names of the chain of parents, each followed by `"/"`, below the orphan prefix for an orphan.

## 3. Runs

| Run | Expect | What it shows |
|-----|--------|---------------|
| `ext_stale_desc` | violation | `block_getflags` classifies META/CONT with another group's descriptor |
| `ext_walk` | pass | with callbacks that make no nested calls, inode walks of every filter (ORPHAN included) deliver exactly what the filter admits (`InodeWalkExact`); interleaved with walks, top-level lookups and getflags keep each tag naming its slot (`CachesCoherent`) and each lookup returns the inode asked for (`LookupCorrect`) |
| `ext_super` | pass | over sound and rejected superblocks, images of 1, 4 and 64 KiB and allocation failures, every handle `ext2fs_open` returns has spec §4.1's geometry in exact integers (`GeometryMatchesSpec`), inode loads leave the group slot on a group of the handle (`TypeOK`), istat of inode 9 after loads of other inodes shows inode 9's record (`IstatShowsAskedInode`) and lists its attribute block, written as Linux writes it, attribute by attribute with names, values and ACL entries (`EaBlockListedExactly`), and fsstat on the list 9, 17, 1 returns whatever fails on the way (`FsstatReturns`) |
| `ext_zero_divisor` | violation | a block-size shift past the `int`, `s_blocks_per_group = 0` or `s_inodes_per_group = 0` makes `ext2fs_open` or the first inode load divide by zero |
| `walk_nested_ibase` | violation | a callback's lookup in the next group leaves the walk with a stale `ibase` |
| `dir_opener` | pass | without allocation failure, over opens of every directory shape, the map stays sorted and refines OrphanMap, and every open that returns OK lists each of its orphans (`DirListsItsOrphans`) in the order of spec §5: `.`, `..`, the index entries, the orphans by ascending address, and `$OrphanFiles` exactly for the root (`ListingInOrder`) |
| `ntfs_fixup` | pass | fixup agrees with spec §4.6 on every record whose array is clear of the tails, and never writes past `len` |
| `ntfs_idxalloc` | pass | with the exact final length, fixups stay in the buffer, each parsed list is the rest of its record, and OK means every record was parsed |
| `idx_final_overflow` | violation | with an ordinary heap address, the final length is huge and fixup writes past `idxalloc` |
| `idx_parser` | pass | on a node left by deletions, the scan ends (`Termination`), lists exactly the current entries as ALLOC in order (`ListingIsCurrentDirectory`), and lists every deleted entry whose header or `$FILE_NAME` survives as UNALLOC (`DeletedEntriesRecovered`) |
| `parser_name_overread` | violation | a `$FILE_NAME` in the slack that claims 255 characters passes the deleted-entry checks, and `ntfs_dent_copy` reads 504 bytes past the buffer (bytes 192-695 of a 192-byte list) |
| `path_resolver` | pass | when the buffer and `MAX_DEPTH` hold every chain, over names in the root and in directories, directories with two names, orphans by type and by sequence number, bad parent references, failed opens and every callback result, each callback sees the full path (`PathIsChain`), every opened file is closed on every return (`FilesClosedOnReturn`), and `ntfs_find_file` returns (`Termination`) |

### Further configurations that show violations

Each cfg below checks one property of the module named in its file name, and TLC finds it violated. They show the same kinds of fault as the runs above, at other lines of the code. PROJECT.json lists them under "hazards", not as runs.

| Cfg | Property | What TLC shows |
|-----|----------|----------------|
| `ExtCache_corrupt_desc.cfg` | `LookupCorrect` | a rejected corrupt descriptor stays in the slot under the previous group's tag |
| `ExtWalk_corrupt_leak.cfg` | `WalkReleasesShell` | `inode_walk` leaks its TSK_FS_FILE on two error paths |
| `ExtWalk_corrupt_filter.cfg` | `BlockWalkRespectsFilter` | `block_walk` delivers a block whose flags could not be read to a META-only caller |
| `ExtWalk_orphan_unused.cfg` | `OrphanWalkDeliversAllOrphans` | an orphan with ctime 0 is not delivered, against spec §8 scenario 3 |
| `NtfsDirOpener_oom_partial.cfg` | `DirListsItsOrphans` | a failed add of an orphan's name is ignored and the open returns OK; a walk that fails part way caches a partial map, and later opens return OK without the missing orphans |
| `NtfsIdxAlloc_final_span.cfg` | `SpansInRecord` | with the same length, a final list starting past `idxalloc` is handed to the parser |
| `NtfsIdxAlloc_upd_off.cfg` | `FixupReadsInBuffer` | the unchecked `upd_off` makes fixup read the update array past `idxalloc` |
| `NtfsDirOpener_dup_names.cfg` | `ListingOncePerName` | an orphan with two names in one directory is handed to `tsk_fs_dir_add` four times |
| `NtfsDirOpener_handle_leak.cfg` | `HandlesReleased` | listing a directory with orphans leaves `fs_file_orp` open |
| `NtfsIdxAlloc_cor_aborts.cfg` | `CorruptionDoesNotAbort` | one corrupt record aborts the open, against spec §4.9 step 10 |
| `NtfsIndexParser_unaligned.cfg` | `DeletedEntriesRecovered` | with the list at an address 2 mod 4, a deleted entry after a recovered one is missed, against spec §4.7's advance |
| `NtfsIndexParser_leak.cfg` | `NameFreedOnReturn` | a wrapped `used_len` makes the parser return ERR without freeing its name buffer |
| `ExtCache_truncated.cfg` | `LookupCorrect` | a short inode read leaves torn bytes under the previous inode's tag |
| `NtfsDirOpener_oom_crash.cfg` | `NoNullDeref` | a failed realloc leaves `addrs` NULL, and the next listing dereferences it |
| `NtfsPathResolver_stop_ignored.cfg` | `StopEndsWalk` | a callback is made after one returned `TSK_WALK_STOP` |
| `NtfsPathResolver_cycle.cfg` | `Termination` | a loop of parent references recurses until the C stack overflows |
| `NtfsPathResolver_name_leak.cfg` | `FilesClosedOnReturn` | a failed name allocation returns without closing the target |
| `NtfsPathResolver_truncation.cfg` | `PathIsChain` | with a buffer too short for the chain, the callback gets a NULL path or a reused `didx[depth]`; spec §9 already lists the truncation |
| `ExtSuper_edges.cfg` | `GeometryMatchesSpec` | no blocks, or an image shorter than one block, wraps `last_block_act` to 2^64 - 1 where spec §4.1 gives -1 |
| `ExtSuper_orphan_cycle.cfg` | `FsstatReturns` | an orphan list whose dtime links loop keeps fsstat in its loop forever |
| `ExtSuper_orphan_leak.cfg` | `FsstatClosesFiles` | a failed lookup of an orphan leaves fsstat's TSK_FS_FILE open |
| `ExtSuper_last_group.cfg` | `LastGroupSharesOfItsRanges` | fsstat shows a full last group's free inodes and blocks as shares of 1 |
| `ExtSuper_istat_orphan_dir.cfg` | `IstatShowsAskedInode` | istat of the orphan directory prints another inode's record |
| `ExtSuper_ea_overread.cfg` | `EaAccessesInBounds` | an ACL value whose size wraps the check at 1765 is walked past the 1 KiB block |
| `ExtSuper_ea_value_write.cfg` | `EaAccessesInBounds` | a 256-byte value, which Linux writes, makes istat write `val[256]` |

The traces, in brief:

- **`ExtCache_corrupt_desc.cfg`:** `group_load` writes a corrupt descriptor into the slot at line 77 and keeps the previous tag. A later lookup in the previous group uses it.
- **`ExtWalk_corrupt_leak.cfg`:** `inode_walk` returns at line 782 and at 833-835 without closing its TSK_FS_FILE.
- **`ExtWalk_corrupt_filter.cfg`:** `block_getflags` returns 0 at line 903, and `block_walk` delivers the block to a META-only callback.
- **`ExtWalk_orphan_unused.cfg`:** ORPHAN forces USED at line 717, so an orphan with ctime 0 is skipped. This is against spec §8 scenario 3.
- **`NtfsDirOpener_oom_partial.cfg`:** the first open of the root walks the orphans, and the add of orphan 9's name fails at line 1111. The result is ignored, and the open returns OK without it. A walk that fails part way (line 1076) reaches the same state on the next open, over a longer trace.
- **`NtfsIdxAlloc_final_span.cfg`:** with the skew of 96, a final record whose `begin_off` is 80 passes the check at 1040 (`list_len` is 2^32-40, `rec_len` 2^32-32). Its list is handed to the parser 40 bytes past `idxalloc`.
- **`NtfsIdxAlloc_upd_off.cfg`:** a last record with `upd_off` 60 has its update array read at byte 192 of the 192-byte buffer. Line 544 never bounds `upd_off`.
- **`NtfsDirOpener_dup_names.cfg`:** an orphan with a long and a DOS name in one directory is recorded twice (line 197) and each record lists both names (1108).
- **`NtfsDirOpener_handle_leak.cfg`:** the first open of the root walks the orphans and lists orphan 9. `fs_file_orp` is opened at line 1102, and nothing closes it before line 1140.
- **`NtfsIdxAlloc_cor_aborts.cfg`:** a stale sector tail makes the open return COR at line 958, and the records after it are never parsed.
- **`NtfsIndexParser_unaligned.cfg`:** the end entry of an emptied node is followed by a deleted DOS name. The jump of line 495 rounds the address `2 + 0 + 84` to 88, offset 86, and the steps of 4 from there never meet the deleted entry at offset 88.
- **`NtfsIndexParser_leak.cfg`:** `fs_name` is allocated at 315, and the return at 332 does not free it.
- **`ExtCache_truncated.cfg`:** `dinode_load` reads into the slot at line 332 before checking the count, and keeps the previous inode's tag.
- **`NtfsDirOpener_oom_crash.cfg`:** `tsk_realloc` fails at line 45 and overwrites `addrs` with NULL while `used_cnt` stays; the next listing of that parent reads it.
- **`NtfsPathResolver_stop_ignored.cfg`:** file 22 is named in directory 21, 21 in directory 20, and 20 has two names in the root. The callback for `c/b/` returns STOP; line 1278 tests only for ERROR, and the loop calls back again with `a/b/`.
- **`NtfsPathResolver_cycle.cfg`:** 21's parent is 20 and 20's parent is 21. The recursion at 1287 follows the loop, and the fifth frame overflows the modelled stack.
- **`NtfsPathResolver_name_leak.cfg`:** `tsk_fs_name_alloc` fails at 1359 and the return at 1361 leaves the target open.
- **`NtfsPathResolver_truncation.cfg`:** with `DirStrSz = 5` the orphan prefix does not fit and the callback is called with `begin = NULL` (1220-1233); a name that does not fit takes `didx[depth]` (1264-1267).
- **`ExtSuper_edges.cfg`:** `s_blocks_count = 0` on a 2 KiB image: `last_block` and `last_block_act` are 0 - 1 in `TSK_DADDR_T` (2157), 65535 at the model's 16-bit width, and `groups_count` is 0. The 4 KiB-block superblock on the same image has `(size - offset) / block_size = 0`, and 0 - 1 is stored the same way (2181).
- **`ExtSuper_orphan_cycle.cfg`:** `s_last_orphan` is 9, inode 9's dtime is 1 and inode 1's is 9. Each lookup succeeds, and `while (or_in)` at 1271 goes round 9, 1, 9, ... with both slots changing on every pass; nothing counts the passes or remembers the inodes seen.
- **`ExtSuper_orphan_leak.cfg`:** the lookup of orphan 9 fails (at an allocation, or on a rejected group descriptor). Line 1288 resets the error and breaks; the `tsk_fs_file_close` of 1293 is skipped, and fsstat returns 0.
- **`ExtSuper_last_group.cfg`:** 16 inodes and 17 blocks from block 1, eight of each per group: two full groups. Group 1 prints Inode Range 9 - 16 and Block Range 9 - 16, but `inum_left = last_inum % 8 = 17 % 8 = 1` (1479; `last_inum` counts the virtual orphan directory) and `blk_left = 17 % 8 = 1` (1492; `block_count` counts block 0, which no group holds), so every free inode and block shows as a percentage of 1.
- **`ExtSuper_istat_orphan_dir.cfg`:** a load of inode 9 is refused by `group_load` after `dino_buf` was allocated. istat of 17, the orphan directory, then succeeds without touching `dino_buf` (`inode_lookup` returns at 652), and 1617-1687 read the generation, flags and EA block of the zeroed buffer; after a good load of 9 they are inode 9's. The comment at 1616 allows only that `dino_buf` be unset for a virtual file.
- **`ExtSuper_ea_overread.cfg`:** inode 9's block 3 holds one ACL entry (nlen 0) with `val_off = 1020` and `val_size = 0xffffffff`. At 1765, `1020 + 0xffffffff` is 1019 in uint32, not above 1024, so the entry passes; the header at 1020 has version 1, and the loop of 1838 compares on pointers, where `buf + 1020 + 0xffffffff` does not wrap, so the first entry is read at byte 1024 of the 1024-byte buffer.
- **`ExtSuper_ea_value_write.cfg`:** block 3 is `EaEncode` of one user attribute `a` whose value is 256 bytes, which Linux stores in a 1 KiB block. The copy is capped at 256 (1783-1788) and then `val[256] = '\0'` (1790) writes one byte past `char val[256]`.

`ExtCache.cfg` is the configuration of ExtCache alone, `INIT CacheInit NEXT CacheNext`: lookups and getflags with no walk running. It passes; its properties are checked in the run `ext_walk`, whose lookups and getflags are those of ExtCache's, with walks interleaved.

PROJECT.json "findings" gives the trace and the source lines for each violation.

### Bounds

The image has two groups of five blocks and two inodes each (`FirstDataBlock = 1`, blocks 0-10). The superblock gives `InodesCount = 9`, the least `ext2fs_open` accepts. Only inodes 1-4 lie in a group; loads of 5-9 fail at `group_load`'s sanity check (line 50), and the orphan directory is 10.

- The descriptors put each group's bitmaps and inode table inside the group. Blocks 5 and 10 are free.
- Init enumerates all 256 combinations of allocation and ctime of the four inodes in a group. Inodes 5-9 are read as zero, but no load reaches them.
- Lookups ask for inodes 1, 3, 4, 5 and 10 (`LookupInums`): two in one group, one in the other group, one with no group, and the orphan directory. Inode 2, the root, is loaded by every ORPHAN walk. 6-9 behave like 5.
- Two groups are the least that lets one slot hold another group's data, which every finding needs.
- Two inodes per group, at two per block, put inode 3 in group 1. A walk from inode 2 then crosses a group boundary with the bitmap of the next group loadable from a callback.
- The inode walk ranges are 1-10 and 10-10. Every filter shape a caller can pass is used with both. 1-10 crosses from group 0 into group 1 and fails at inode 5, whose group does not exist. 10-10 delivers only the orphan directory. 979,333 distinct states.

The violation runs change one constant each:

- `MCDescCorrupt` puts group 1's block bitmap past the last block.
- `LastBlockAct = 7` with `PartialTail` makes the image end inside group 1's inode table.
- `MaxNested = 1` lets a callback make one nested call.

NtfsDirOpener:

- Directories 5 (the root) and 6, the orphan directory 10, and the out-of-range address 11.
- Orphans 7-9.
- Each orphan's names are any of `<<>>`, `<<5>>`, `<<6>>`, `<<5, 6>>`, `<<6, 5>>` and `<<5, 5>>`. The last is a long name and a DOS name in one directory.
- `AddrChunk = 1` makes the growth boundary at line 133 occur on the second child of a parent. The code's chunk is 8, and the boundary logic does not depend on its size.
- Six directory shapes, one per way an open ends: a clean entry with `$INDEX_ALLOCATION` and two names (so two `..`), a clean one without it, a failed MFT or `$INDEX_ROOT` check, bad offsets, a missing `$INDEX_ALLOCATION` with the child flag set, and a resident one. 75,857 distinct states, with closes and reopens between opens.

NtfsFixup:

- 16-byte sectors and a 2-sector record.
- `upd_off` of 8 (clear of the tails), 12 (over the first tail) or 26 (over the last).
- `upd_cnt` of 0-4, so the wrap at 0 and a count longer than the record both occur.
- `len` of one or two sectors.

NtfsIdxAlloc:

- Three 64-byte clusters of two 32-byte sectors, so records of one cluster (upd_cnt 3) and two clusters (upd_cnt 5) both occur.
- Every cluster may or may not start a record.
- `begin_off` and `seqend_off` each take a value that fits one cluster and one that needs two.
- `upd_off` 60 puts the update array across the end of a one-cluster record.

NtfsIndexParser:

- Entries of 1, 2 and 5 characters, so lengths of 88 and 104 bytes occur, with a child pointer on one. Name spaces WIN32, POSIX and DOS occur, and one entry has a 2020 timestamp, which `is_time` rejects.
- Old lists of one to three distinct entries, with every subset deleted: 1984 initial states. A deleted entry then lies behind the new end entry, further into the slack, or where neither its header nor its `$FILE_NAME` survives.
- 88 bytes past the old list, enough for the loop to reach the damaged header after it (the loop needs 83).
- `MCDamaged` is a header with idxlen 0 that claims a DOS name. The check `idxlen <= strlen` is what rejects it.
- `MCDamagedLong`, for the violation run, is an end entry whose `$FILE_NAME` claims 255 characters.

NtfsPathResolver:

- Names of one and two characters and an orphan prefix of two, so a name and the prefix do not fit in the same places.
- Name lists for the target: in a directory, in the root and a directory, under a parent whose sequence number moved on, under a reference outside the MFT, and in two directories. Directory 21 may have a second name in the root or be named under the target, a file. Directory 20 may have a second name in the root. 30 tables, 903 distinct states.
- `DirStrSz = 8` and `MaxDepth = 4` hold the longest chain, `"c/b/"` three levels down. `DirStrSz = 5` (`NtfsPathResolver_truncation.cfg`) does not.
- `StackBound = 4` is one more frame than the longest acyclic chain needs; only a parent loop reaches it.

ExtSuper:

- `WordBits = 8`, `DaddrBits = 16`, `ShiftZeroAt = 4`: the widths are scaled down from 32, 64 and 22 so that TLC's integers hold them. What is kept is where each wrap and each zero happens: `x - 1` of a uint64 0 is `2^DaddrBits - 1`, and a shift count of `ShiftZeroAt` up to `WordBits - 1` gives a block size of 0. Every value of the sound superblocks is far below both widths.
- The sound superblocks have 1 KiB or 4 KiB blocks, 9 or 20 blocks from block 0 or 1, eight blocks and eight inodes per group, 16 inodes or 40 (more than 20 blocks' three groups hold, so loads of inode 33 are refused by group_load), and an `s_inode_size` of 0 or 256. Three more are rejected: no magic, 5 inodes, a fragment size other than the block size.
- Images of 1 KiB (the superblock read is short), 4 KiB (one 4 KiB block, so `last_block_act` is lowered and group descriptors at 4 KiB are past the end) and 64 KiB.
- Loads of inodes 0, 9 and 33: below the first inode, the inode istat asks for (so its record may be in the slot or another's), and in a group the handle does not have or past `last_inum - 1` for 16 inodes. fsstat's orphan lookups reach 17 and 1.
- The journal and filetype flags only name the type and the directory entry format, which nothing later reads; both values occur, tied to `first_data_block`.
- fsstat runs on the orphan list 9, 17, 1 (`MCListContents`): 17 is the orphan directory with 16 inodes and an ordinary inode of group 2 with 40; inode 9's EA block is 3 and inode 1's is past the last block. istat asks for inode 9. Block 3 is `EaEncode(MCAttrs)`: `user.abc = "xy"`, an access ACL with an owner, user 500 (an 8-byte entry) and other, `security.selinux` of 5 bytes, and an entry of index 5, which istat reports as unsupported; names of 0, 3, 7 and 1 bytes, so three of the four entries end off a 4-byte boundary and need the rounding. The block is listed at 1 KiB and at 4 KiB. 37,918 distinct states.
- The two EA cfgs use `MCOneSound` with block 3 crafted (`MCWrappedBlocks`) or Linux-written with a 256-byte value (`MCLongValueBlocks`); one open, istat of inode 9, no allocation failure.
- The further cfgs use one superblock each (`MCOneSound`, `MCFullGroups`) and the list contents of `MCContents`: none, 9-17-1, 33-9-200 (out of range, or in no group) and the loop 9-1-9 (`MCCycleContents`).
- `MCZeroDivisors` (run `ext_zero_divisor`): one shift of 4 with a matching fragment size, one superblock with `s_blocks_per_group = 0`, one with `s_inodes_per_group = 0`. `MCEdges`: no blocks, and 4 KiB blocks on a 2 KiB image.

### Fairness

The walks of ExtWalk and the cluster loop of NtfsIdxAlloc are bounded by their ranges. A callback may block forever in the code, so no fairness is assumed there.

NtfsDirOpener checks safety only. ExtSuper's runs stop once the open fails or the handle is closed, so they say `CHECK_DEADLOCK FALSE`. Its `FairSpec` has weak fairness on the three steps of fsstat's loops: `ext2fs_fsstat` runs them on one thread and calls nothing that blocks, so once it is called it keeps going. The steps carry their allocation and read outcomes, and fairness only asks that some step be taken, not that one fail; so `FsstatReturns` holds in the run because the list ends, and a loop that keeps changing state (the cycle cfg, or the mutant that restarts the list) violates it.

NtfsPathResolver's `Spec` has `WF_vars(Next)` for the same reason as NtfsIndexParser: one thread, no blocking call. The callback is taken to return. `Termination` then fails only if the recursion does not end: a loop of parent references, or a name loop that does not advance.

NtfsIndexParser's `Spec` has `WF_vars(Next)`. The function runs on one thread and makes no call that blocks, so a step that is enabled is taken. The run checks `Termination`, `<>(pc = "done")`. Under this fairness it fails only if the loop can stop moving: a step that leaves `p` where it is is a stuttering step, and fairness does not force the behaviour past it. This is what happens when `idxlen <= strlen` is dropped and a header with idxlen 0 passes.

## 4. Plan and what is not modelled

Done in this version: ExtSuper (with fsstat and istat), ExtEaBlock, NtfsOrphanMap, NtfsFixup, NtfsIndexParser, NtfsIdxAlloc, NtfsDirOpener and NtfsPathResolver. NtfsDirOpener composes the orphan map with the phases of `ntfs_dir_open_meta`, and takes the results of the other two modules as inputs.

Planned, in order:

1. **Composition of ExtSuper with ExtCache:** ExtCache's geometry constants taken from a handle ExtSuper opens, instead of being chosen to match.
2. **Composition of NtfsPathResolver with the MFT cache** behind `tsk_fs_file_open_meta`, which lives outside these two files.

Not modelled:

- Of C7: the block walks that end istat, through `tsk_fs_file_walk` and `tsk_fs_attr_walk` outside the repository; `ext2fs_fscheck`, which only reports that it is unsupported; `print_map`, `make_acl_str` and `print_addr_act`, which only format.
- In ExtSuper, the bitmap slot's tag is not kept, so every `dinode_copy` may load or fail to load the bitmap.
- In ExtEaBlock, the block is read little-endian; a big-endian image's attribute block is not modelled. The header's magic is only printed (1731) and is not checked.
- In ExtSuper, the byte-order guess is one field of the superblock (little-endian, big-endian or no magic), the 16-byte `fs_id` copy and the verbose statistics are left out, and `tsk_fs_read` of the superblock is short exactly when the image holds less than 2 KiB from the file system's start.
- Field decoding in `dinode_copy`: mode, times, block pointers, fast symlinks.
- UTF-16 conversion and the cleanup of control characters in `ntfs_dent_copy`: the name is a model value.
- In NtfsIndexParser, bytes that are not an entry header are taken to fail the child-reference check. Random bytes that pass every check are left out, except for the one damaged header.
- Journals.
- In NtfsPathResolver, the `":attr"` suffix that `ntfs_find_file` puts in `fs_file->name` (1418-1426): it is not part of the path. `didx[128]` past the array is `WILD`, whatever bytes of `dirs` it reads.
- In NtfsDirOpener, `tsk_fs_file_open_meta` of an orphan that the inode walk has just read is taken to succeed. `tsk_fs_dir_alloc` is not modelled: the caller is taken to pass an FS_DIR, which is reset.
