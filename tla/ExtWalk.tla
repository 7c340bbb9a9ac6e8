----------------------------- MODULE ExtWalk ------------------------------
(***************************************************************************)
(* ext2fs_inode_walk and ext2fs_block_walk over the caches of ExtCache.    *)
(* A walk is a loop whose body ends in a call of the caller's callback;    *)
(* each loop iteration up to that call is one step, and while the          *)
(* callback runs the caller may call back into the same file system        *)
(* (inode_lookup, block_getflags), at most MaxNested times, before it      *)
(* returns CONT, STOP or ERROR.  Between walks the caller makes top-level  *)
(* calls.  The list of inodes that surviving names point to                *)
(* (list_inum_named) is built by the directory layer outside ext2fs.c: it  *)
(* is the constant NamedInodes, loaded on the first ORPHAN walk.           *)
(***************************************************************************)
EXTENDS ExtCache, TLC

CONSTANTS
  MaxNested,        \* calls into the file system a callback may make
  InodeRanges,      \* the <<start_inum, end_inum>> a caller passes
  InodeFlagSets,    \* the flags a caller passes to inode_walk
  BlockRanges,      \* the <<a_start_blk, a_end_blk>> a caller passes
  BlockFlagSets,    \* the flags a caller passes to block_walk
  NamedInodes,      \* inodes some surviving directory entry points to
  RootInum          \* EXT2FS_ROOTINO

VARIABLES
  iw,       \* the frame of the running ext2fs_inode_walk
  bw,       \* the frame of the running ext2fs_block_walk
  nested,   \* calls the running callback has made
  shell,    \* the walk's TSK_FS_FILE / TSK_FS_BLOCK is allocated
  named     \* fs->list_inum_named has been built

vars == <<disk, cache, res, iw, bw, nested, shell, named>>

Idle == [pc |-> "idle"]
InCallback == iw.pc = "cb" \/ bw.pc = "cb"

(* flag canonicalisation at the top of ext2fs_inode_walk *)
CanonInodeFlags(f) ==
  IF "ORPHAN" \in f THEN (f \cup {"UNALLOC", "USED"}) \ {"ALLOC", "UNUSED"}
  ELSE f \cup (IF f \cap {"ALLOC", "UNALLOC"} = {} THEN {"ALLOC", "UNALLOC"} ELSE {})
    \cup (IF f \cap {"USED", "UNUSED"} = {} THEN {"USED", "UNUSED"} ELSE {})
CanonBlockFlags(f) ==
  f \cup (IF f \cap {"ALLOC", "UNALLOC"} = {} THEN {"ALLOC", "UNALLOC"} ELSE {})
    \cup (IF f \cap {"META", "CONT"} = {} THEN {"META", "CONT"} ELSE {})

BoolFlag(b, yes, no) == CASE b = TRUE -> {yes} [] b = FALSE -> {no} [] OTHER -> {Torn}

(***************************************************************************)
(* ext2fs_inode_walk                                                       *)
(***************************************************************************)
(* the sanity checks, the flag canonicalisation, the list of named inodes *)
(* for ORPHAN, the allocation of fs_file, and the first loop bound.        *)
(* tsk_fs_dir_load_inum_named walks the directory tree from the root      *)
(* through this same handle; its effect on the caches is reduced to the    *)
(* lookup of the root directory, and it fails when that lookup fails.      *)
InodeWalkStart(s, e, f) ==
  /\ iw.pc = "idle" /\ bw.pc = "idle"
  /\ s \in Inodes \cup {OrphanDirInum} /\ e \in Inodes \cup {OrphanDirInum}
  /\ s <= e                                   \* else TSK_ERR_FS_WALK_RNG
  /\ LET flags == CanonInodeFlags(f)
         load  == "ORPHAN" \in flags /\ ~named
         r     == IF load THEN inode_lookup(cache, RootInum)
                  ELSE [c |-> cache, ok |-> TRUE]
     IN /\ cache' = r.c
        /\ named' = (named \/ (load /\ r.ok))
        /\ IF r.ok
           THEN /\ iw' = [pc |-> "loop", start |-> s, end |-> e, flags |-> flags,
                          inum |-> s, ibase |-> 0,
                          endTmp |-> IF e = OrphanDirInum THEN e - 1 ELSE e]
                /\ shell' = TRUE
                /\ res' = [op |-> "iwalk", seen |-> {}]
           ELSE /\ res' = [op |-> "iwalk", seen |-> {}]
                /\ UNCHANGED <<iw, shell>>     \* return 1 before the alloc
  /\ UNCHANGED <<disk, bw, nested>>

(* mutant: ibase recomputed only when the bitmap is reloaded *)
walk_ibase_reload_only(reload, i, g) ==
  IF reload THEN g * IPG + 1 ELSE iw.ibase

(* the loop's local ibase: recomputed when the inode bitmap is (re)loaded, *)
(* or at the first inode when the bitmap was already cached                *)
walk_ibase(reload, i, g) ==
  IF reload \/ i = iw.start THEN g * IPG + 1 ELSE iw.ibase

(* one iteration of the for loop: the bitmap test, the inode test, the     *)
(* copy and the call of a_action; or the continue / return 1 before it     *)
InodeWalkStep ==
  /\ iw.pc = "loop" /\ iw.inum <= iw.endTmp
  /\ LET i  == iw.inum
         g  == igroup(i)
         reload == cache.imap_buf = NULL \/ cache.imap_grp_num # g
         r0 == IF reload THEN imap_load(cache, g) ELSE [c |-> cache, ok |-> TRUE]
         ibase == walk_ibase(reload, i, g)
         f1 == BoolFlag(InodeBit(r0.c.imap_buf, i - ibase), "ALLOC", "UNALLOC")
         r1 == dinode_load(r0.c, i)
         f2 == f1 \cup BoolFlag(CtimeSet(r1.c.dino_buf), "USED", "UNUSED")
         r2 == dinode_copy(r1.c)
         next == [iw EXCEPT !.inum = i + 1, !.ibase = ibase]
     IN CASE ~r0.ok ->                         \* return 1, fs_file not closed
               cache' = r0.c /\ iw' = Idle /\ UNCHANGED <<shell, res>>
          [] ~(f1 \subseteq iw.flags) ->
               cache' = r0.c /\ iw' = next /\ UNCHANGED <<shell, res>>
          [] ~r1.ok ->
               cache' = r1.c /\ iw' = Idle /\ shell' = FALSE /\ UNCHANGED res
          [] \/ ~(f2 \subseteq iw.flags)
             \/ "UNALLOC" \in f1 /\ "ORPHAN" \in iw.flags /\ i \in NamedInodes ->
               cache' = r1.c /\ iw' = next /\ UNCHANGED <<shell, res>>
          [] ~r2.ok ->                         \* only the meta is closed
               cache' = r2.c /\ iw' = Idle /\ UNCHANGED <<shell, res>>
          [] OTHER ->
               /\ cache' = r2.c
               /\ iw' = [next EXCEPT !.pc = "cb"]
               /\ res' = [res EXCEPT !.seen = @ \cup {i}]
               /\ UNCHANGED shell
  /\ UNCHANGED <<disk, bw, nested, named>>

(* after the loop: the virtual orphan directory, then cleanup *)
InodeWalkEnd ==
  /\ iw.pc = "loop" /\ iw.inum > iw.endTmp
  /\ IF iw.end = OrphanDirInum /\ {"ALLOC", "USED"} \subseteq iw.flags
     THEN /\ iw' = [iw EXCEPT !.pc = "cb", !.inum = OrphanDirInum + 1]
          /\ res' = [res EXCEPT !.seen = @ \cup {OrphanDirInum}]
          /\ UNCHANGED shell
     ELSE iw' = Idle /\ shell' = FALSE /\ UNCHANGED res
  /\ UNCHANGED <<disk, cache, bw, nested, named>>

InodeWalkCallbackReturn(ret) ==
  /\ iw.pc = "cb"
  /\ IF ret = "CONT" /\ iw.inum <= OrphanDirInum
     THEN iw' = [iw EXCEPT !.pc = "loop"] /\ UNCHANGED shell
     ELSE iw' = Idle /\ shell' = FALSE     \* STOP, ERROR, or after $OrphanFiles
  /\ nested' = 0
  /\ UNCHANGED <<disk, cache, res, bw, named>>

(***************************************************************************)
(* ext2fs_block_walk                                                       *)
(***************************************************************************)
BlockWalkStart(s, e, f) ==
  /\ iw.pc = "idle" /\ bw.pc = "idle"
  /\ s \in Blocks /\ e \in Blocks /\ s <= e
  /\ bw' = [pc |-> "loop", addr |-> s, end |-> e, flags |-> CanonBlockFlags(f)]
  /\ shell' = TRUE
  /\ res' = [op |-> "bwalk", seen |-> {}, got |-> [b \in {} |-> {}]]
  /\ UNCHANGED <<disk, cache, iw, nested, named>>

BlockWalkStep ==
  /\ bw.pc = "loop" /\ bw.addr <= bw.end
  /\ LET a == bw.addr
         r == block_getflags(cache, a)
     IN /\ cache' = r.c
        /\ IF \A fl \in r.flags \cap {"ALLOC", "UNALLOC", "META", "CONT"} :
                 fl \in bw.flags
           THEN /\ bw' = [bw EXCEPT !.pc = "cb", !.addr = a + 1]
                /\ res' = [res EXCEPT !.seen = @ \cup {a},
                                      !.got = @ @@ (a :> r.flags)]
           ELSE bw' = [bw EXCEPT !.addr = a + 1] /\ UNCHANGED res
  /\ UNCHANGED <<disk, iw, nested, shell, named>>

BlockWalkEnd ==
  /\ bw.pc = "loop" /\ bw.addr > bw.end
  /\ bw' = Idle /\ shell' = FALSE
  /\ UNCHANGED <<disk, cache, res, iw, nested, named>>

BlockWalkCallbackReturn(ret) ==
  /\ bw.pc = "cb"
  /\ IF ret = "CONT" THEN bw' = [bw EXCEPT !.pc = "loop"] /\ UNCHANGED shell
     ELSE IF ret = "STOP" THEN bw' = [bw EXCEPT !.pc = "loop", !.addr = bw.end + 1]
                                 /\ UNCHANGED shell        \* break; then free
     ELSE bw' = Idle /\ shell' = FALSE
  /\ nested' = 0
  /\ UNCHANGED <<disk, cache, res, iw, named>>

(***************************************************************************)
(* Calls into the file system: top-level, or from inside a callback        *)
(***************************************************************************)
CallGuard ==
  \/ iw.pc = "idle" /\ bw.pc = "idle"
  \/ InCallback /\ nested < MaxNested

Lookup(i) ==
  /\ CallGuard
  /\ LET r == inode_lookup(cache, i) IN
     /\ cache' = r.c
     /\ res' = IF InCallback THEN res
               ELSE [op |-> "lookup", arg |-> i, ok |-> r.ok, meta |-> r.meta]
  /\ nested' = IF InCallback THEN nested + 1 ELSE nested
  /\ UNCHANGED <<disk, iw, bw, shell, named>>

GetFlags(a) ==
  /\ CallGuard
  /\ LET r == block_getflags(cache, a) IN
     /\ cache' = r.c
     /\ res' = IF InCallback THEN res
               ELSE [op |-> "getflags", arg |-> a, flags |-> r.flags]
  /\ nested' = IF InCallback THEN nested + 1 ELSE nested
  /\ UNCHANGED <<disk, iw, bw, shell, named>>

Init ==
  /\ CacheInit
  /\ iw = Idle /\ bw = Idle /\ nested = 0 /\ shell = FALSE /\ named = FALSE

Next ==
  \/ \E r \in InodeRanges, f \in InodeFlagSets : InodeWalkStart(r[1], r[2], f)
  \/ InodeWalkStep
  \/ InodeWalkEnd
  \/ \E ret \in {"CONT", "STOP", "ERROR"} : InodeWalkCallbackReturn(ret)
  \/ \E r \in BlockRanges, f \in BlockFlagSets : BlockWalkStart(r[1], r[2], f)
  \/ BlockWalkStep
  \/ BlockWalkEnd
  \/ \E ret \in {"CONT", "STOP", "ERROR"} : BlockWalkCallbackReturn(ret)
  \/ \E i \in LookupInums : Lookup(i)
  \/ \E a \in Blocks : GetFlags(a)

Spec == Init /\ [][Next]_vars

(***************************************************************************)
(* Properties                                                              *)
(***************************************************************************)
TypeOK ==
  /\ CacheTypeOK
  /\ iw.pc \in {"idle", "loop", "cb"} /\ bw.pc \in {"idle", "loop", "cb"}
  /\ nested \in 0 .. MaxNested /\ shell \in BOOLEAN /\ named \in BOOLEAN

TrueInodeFlags(i) ==
  (IF disk.ialloc[i] THEN {"ALLOC"} ELSE {"UNALLOC"})
    \cup (IF disk.iused[i] THEN {"USED"} ELSE {"UNUSED"})

(* what the walk should deliver: the filter admits the on-disk flags, and  *)
(* under ORPHAN no surviving name points to the inode                      *)
Wanted(i) ==
  /\ TrueInodeFlags(i) \subseteq iw.flags
  /\ "ORPHAN" \in iw.flags => i \notin NamedInodes

(* Spec §4.4/§8: an inode walk delivers exactly the inodes of its range    *)
(* whose on-disk flags the (canonicalised) filter admits: none it should   *)
(* skip, and, by the time the loop has passed an inode, every one it       *)
(* should deliver.  The walk's local ibase and the shared bitmap slot must *)
(* agree for this, across callbacks that use the same handle.              *)
InodeWalkExact ==
  iw.pc # "idle" /\ res.op = "iwalk" =>
    \A i \in iw.start .. iw.endTmp :
      i < iw.inum => (i \in res.seen <=> Wanted(i))

(* Spec §4.5/§8: a block walk hands its callback only blocks that are     *)
(* exactly one of ALLOC/UNALLOC and one of META/CONT, both admitted by the *)
(* caller's filter; a block whose flags could not be determined is not a   *)
(* block the caller asked for.                                             *)
BlockWalkRespectsFilter ==
  bw.pc # "idle" /\ res.op = "bwalk" =>
    \A b \in res.seen :
      \A kind \in {{"ALLOC", "UNALLOC"}, {"META", "CONT"}} :
        /\ Cardinality(res.got[b] \cap kind) = 1
        /\ res.got[b] \cap kind \subseteq bw.flags

(* Spec §4.4 and §8 scenario 3: an ORPHAN walk surfaces every unallocated *)
(* inode of its range that no surviving name points to, one whose ctime is *)
(* 0 included.                                                             *)
OrphanWalkDeliversAllOrphans ==
  iw.pc # "idle" /\ res.op = "iwalk" /\ "ORPHAN" \in iw.flags =>
    \A i \in iw.start .. iw.endTmp :
      i < iw.inum /\ ~disk.ialloc[i] /\ i \notin NamedInodes => i \in res.seen

(* Spec §5: the TSK_FS_FILE / TSK_FS_BLOCK a walk allocates is released on *)
(* every exit path, the error paths included.                              *)
WalkReleasesShell == iw.pc = "idle" /\ bw.pc = "idle" => ~shell

=============================================================================
