--------------------------- MODULE NtfsDirOpener ---------------------------
(***************************************************************************)
(* ntfs_dir_open_meta (ntfs_dent.c 611-1141): one directory open after     *)
(* another on one file system, with the orphan map (NtfsOrphanMap) built   *)
(* by the first open that gets as far as "get the orphan files".           *)
(*                                                                         *)
(* An open runs in phases, each an action: the argument and $INDEX_ROOT    *)
(* checks, the "." and ".." entries, the $INDEX_ROOT entry list, the       *)
(* $INDEX_ALLOCATION scan, the orphan walk (first open only), the orphan   *)
(* names and the $OrphanFiles entry of the root.  The index entries are    *)
(* a token per list here: what ntfs_proc_idxentry adds is NtfsIndexParser, *)
(* and how the scan reaches each record is NtfsIdxAlloc; their results     *)
(* are the sets RootParseResults and AllocScanResults.  The listing holds  *)
(* records tagged by kind; an orphan's name is [c, j], the j-th $FILE_NAME *)
(* of orphan c.                                                            *)
(***************************************************************************)
EXTENDS Naturals, Sequences, SequencesExt, FiniteSets, NtfsOrphanMap

CONSTANTS
  Dirs,             \* directory MFT addresses a $FILE_NAME may name
  Orphans,          \* unallocated MFT entries the inode walk visits
  Root,             \* a_fs->root_inum
  OrphanDirAddr,    \* TSK_FS_ORPHANDIR_INUM(a_fs)
  BadAddr,          \* an address outside first_inum .. last_inum
  NameLists,        \* parent lists the names (meta->name2) of an orphan may have
  DirShapes         \* what the MFT entry of a directory may hold (see below)

(* A directory's MFT entry, as the checks before the listing see it:      *)
(*   front: "ok", or "cor" when one of the checks at 672-727 fails (no     *)
(*          entry, no attributes, no or non-resident $INDEX_ROOT, a sort   *)
(*          type other than $FILE_NAME);                                   *)
(*   pars:  the parents of its $FILE_NAMEs (meta->name2), for "..";        *)
(*   offs:  the offsets of the $INDEX_ROOT list pass the check at 800-813; *)
(*   alloc: "none", "res" or "nonres": its $INDEX_ALLOCATION attribute;    *)
(*   child: the NTFS_IDXELIST_CHILD flag of the $INDEX_ROOT list.          *)
ASSUME /\ Root \in Dirs /\ NameLists \subseteq Seq(Dirs)
       /\ OrphanDirAddr \notin Dirs /\ BadAddr \notin Dirs \cup {OrphanDirAddr}
       /\ \A s \in DirShapes : s.front \in {"ok", "cor"} /\ s.pars \in Seq(Dirs)
                               /\ s.offs \in BOOLEAN /\ s.child \in BOOLEAN
                               /\ s.alloc \in {"none", "res", "nonres"}

VARIABLES
  names,    \* names[c]: parents of the $FILE_NAMEs of orphan c, in name2 order
  omap,     \* ntfs->orphan_map
  dir,      \* the running ntfs_dir_open_meta: [pc, addr, shape, next]
  listing,  \* the names it has added to fs_dir
  ret,      \* what the last ntfs_dir_open_meta returned
  crashed,  \* the process dereferenced a NULL addrs buffer
  leaked    \* an open returned with its fs_file_orp still open

vars == <<names, omap, dir, listing, ret, crashed, leaked>>

OrderedOrphans == SetToSortSeq(Orphans, <)

(* What ntfs_proc_idxentry returns for the $INDEX_ROOT list (it never      *)
(* returns TSK_COR, see NtfsIndexParser; TSK_ERR is an allocation failure) *)
RootParseResults == IF MallocMayFail THEN {"OK", "ERR"} ELSE {"OK"}

(* How the $INDEX_ALLOCATION part (832-1071) ends: "COR" is any of its     *)
(* early corruption returns; "ERR" the failed tsk_malloc or parse          *)
AllocScanResults == IF MallocMayFail THEN {"OK", "COR", "ERR"} ELSE {"OK", "COR"}

(* the allocations of one step that may fail: 0 none, else the i-th       *)
AllocFails(n) == IF MallocMayFail THEN 0 .. n ELSE {0}

(* the phase after the index entries: the walk if the map is still NULL   *)
OrphanPhase == IF omap = <<>> THEN "walk" ELSE "list"

(* return r from ntfs_dir_open_meta *)
Return(r) == dir' = [dir EXCEPT !.pc = "idle"] /\ ret' = r

Init ==
  /\ names \in [Orphans -> NameLists]
  /\ omap = <<>>
  /\ dir = [pc |-> "idle", addr |-> Root, shape |-> CHOOSE s \in DirShapes : TRUE, next |-> 1]
  /\ listing = <<>>
  /\ ret = "none"
  /\ crashed = FALSE
  /\ leaked = FALSE

(* a caller opens directory d (635-727): the range check returns before   *)
(* fs_dir is reset; the orphan directory is delegated to                   *)
(* tsk_fs_dir_find_orphans; then the MFT entry and $INDEX_ROOT checks      *)
DirOpen(d) ==
  /\ dir.pc = "idle" /\ ~crashed
  /\ \E s \in DirShapes :
       LET stop == d \in {BadAddr, OrphanDirAddr} \/ s.front = "cor"
       IN /\ dir' = [pc |-> CASE stop -> "idle" [] d = Root -> "root" [] OTHER -> "dots",
                     addr |-> d, shape |-> s, next |-> 1]
          /\ CASE d = BadAddr       -> ret' = "ERR" /\ UNCHANGED listing
               [] d = OrphanDirAddr -> ret' \in {"OK", "ERR"} /\ listing' = <<>>
               [] s.front = "cor"   -> ret' = "COR" /\ listing' = <<>>
               [] OTHER             -> ret' = "none" /\ listing' = <<>>
  /\ UNCHANGED <<names, omap, crashed, leaked>>

(* "." and one ".." per $FILE_NAME parent (744-792); f is the allocation  *)
(* that fails: 1 the name, 2 the "." add, 2 + i the i-th ".." add          *)
AddDots ==
  /\ dir.pc = "dots"
  /\ LET d == dir.addr
         dots == <<[k |-> "dot", a |-> d]>>
                 \o [i \in DOMAIN dir.shape.pars |-> [k |-> "dotdot", a |-> dir.shape.pars[i]]]
     IN \E f \in AllocFails(2 + Len(dir.shape.pars)) :
          IF f = 0
          THEN listing' = listing \o dots /\ dir' = [dir EXCEPT !.pc = "root"] /\ ret' = ret
          ELSE listing' = listing \o SubSeq(dots, 1, f - 2) /\ Return("ERR")
  /\ UNCHANGED <<names, omap, crashed, leaked>>

(* the $INDEX_ROOT list (799-830): the offset check, then its entries      *)
RootList ==
  /\ dir.pc = "root"
  /\ IF ~dir.shape.offs
     THEN Return("COR") /\ UNCHANGED listing
     ELSE \E r \in RootParseResults :
            IF r = "ERR"
            THEN Return("ERR") /\ UNCHANGED listing
            ELSE /\ listing' = Append(listing, [k |-> "index", a |-> "root"])
                 /\ dir' = [dir EXCEPT !.pc = "alloc"] /\ ret' = ret
  /\ UNCHANGED <<names, omap, crashed, leaked>>

(* $INDEX_ALLOCATION (832-1071): absent with the child flag set, or       *)
(* resident, is corruption; otherwise the scan adds its entries            *)
AllocPart ==
  /\ dir.pc = "alloc"
  /\ CASE dir.shape.alloc = "none" /\ dir.shape.child -> Return("COR") /\ UNCHANGED listing
       [] dir.shape.alloc = "none" ->
            dir' = [dir EXCEPT !.pc = OrphanPhase] /\ UNCHANGED <<listing, ret>>
       [] dir.shape.alloc = "res" -> Return("COR") /\ UNCHANGED listing
       [] OTHER ->
            \E r \in AllocScanResults :
              IF r = "OK"
              THEN /\ listing' = Append(listing, [k |-> "index", a |-> "alloc"])
                   /\ dir' = [dir EXCEPT !.pc = OrphanPhase] /\ ret' = ret
              ELSE Return(r) /\ UNCHANGED listing
  /\ UNCHANGED <<names, omap, crashed, leaked>>

(* the inode walk delivers the next unallocated entry to ntfs_orphan_act; *)
(* a failed walk returns TSK_ERR and leaves the map built so far (1076-1080) *)
OrphanWalkStep ==
  /\ dir.pc = "walk" /\ dir.next <= Len(OrderedOrphans)
  /\ LET c == OrderedOrphans[dir.next] IN
     \E f \in FailPoints(names[c]) :
       LET r == orphan_act(omap, c, names[c], 1, f) IN
       /\ omap' = r.m
       /\ CASE r.st = "ok"    -> dir' = [dir EXCEPT !.next = @ + 1] /\ UNCHANGED <<ret, crashed>>
            [] r.st = "err"   -> Return("ERR") /\ UNCHANGED crashed
            [] r.st = "crash" -> dir' = [dir EXCEPT !.pc = "idle"] /\ crashed' = TRUE
                                 /\ UNCHANGED ret
  /\ UNCHANGED <<names, listing, leaked>>

OrphanWalkEnd ==
  /\ dir.pc = "walk" /\ dir.next > Len(OrderedOrphans)
  /\ dir' = [dir EXCEPT !.pc = "list"]
  /\ UNCHANGED <<names, omap, listing, ret, crashed, leaked>>

(* s without the elements at the positions in D *)
KeptAdds(s, D) == FlattenSeq([i \in DOMAIN s |-> IF i \in D THEN <<>> ELSE <<s[i]>>])

(* the orphans of the directory (1083-1118): ntfs_orphan_map_get, the name *)
(* buffer, and for each address the names whose parent is the directory.  *)
(* fs_file_orp is reopened for each address and never closed, and the     *)
(* result of tsk_fs_dir_add is ignored: D are the adds that fail.         *)
ListOrphans ==
  /\ dir.pc = "list"
  /\ LET d == dir.addr
         k == orphan_map_get(omap, d)
         after == IF d = Root THEN "orphandir" ELSE "idle"
         retAfter == IF d = Root THEN ret ELSE "OK"       \* retval_final
     IN IF k = 0
        THEN dir' = [dir EXCEPT !.pc = after] /\ ret' = retAfter
             /\ UNCHANGED <<listing, crashed, leaked>>
        ELSE \E f \in AllocFails(1) :
               CASE f = 1 -> Return("ERR") /\ UNCHANGED <<listing, crashed, leaked>>
                 [] omap[k].lost /\ omap[k].addrs # <<>> ->
                      crashed' = TRUE /\ dir' = [dir EXCEPT !.pc = "idle"]
                      /\ UNCHANGED <<listing, ret, leaked>>
                 [] OTHER ->
                      LET orph == OrphanNames(omap[k], d, names) IN
                      \E D \in IF MallocMayFail THEN SUBSET DOMAIN orph ELSE {{}} :
                        /\ listing' = listing \o KeptAdds(orph, D)
                        /\ leaked' = (leaked \/ omap[k].addrs # <<>>)
                        /\ dir' = [dir EXCEPT !.pc = after] /\ ret' = retAfter
                        /\ UNCHANGED crashed
  /\ UNCHANGED <<names, omap>>

(* the $OrphanFiles entry of the root (1120-1137): the name allocation,   *)
(* tsk_fs_dir_make_orphan_dir_name and the add may each fail; then the    *)
(* open returns retval_final, which nothing above has set to TSK_COR      *)
OrphanDirEntry ==
  /\ dir.pc = "orphandir"
  /\ \E f \in AllocFails(3) :
       IF f = 0 THEN listing' = Append(listing, [k |-> "orphandir"]) /\ Return("OK")
                ELSE Return("ERR") /\ UNCHANGED listing
  /\ UNCHANGED <<names, omap, crashed, leaked>>

(* the file system is closed, which calls ntfs_orphan_map_free (167-183) *)
(* and sets orphan_map to NULL, and the image is opened again              *)
FsReopen ==
  /\ dir.pc = "idle" /\ ~crashed
  /\ omap' = <<>>
  /\ UNCHANGED <<names, dir, listing, ret, crashed, leaked>>

Next ==
  \/ \E d \in Dirs \cup {OrphanDirAddr, BadAddr} : DirOpen(d)
  \/ FsReopen
  \/ AddDots
  \/ RootList
  \/ AllocPart
  \/ OrphanWalkStep
  \/ OrphanWalkEnd
  \/ ListOrphans
  \/ OrphanDirEntry

Spec == Init /\ [][Next]_vars

(***************************************************************************)
(* Properties                                                              *)
(***************************************************************************)
Entry == [par : Dirs, addrs : Seq(Orphans), alloc : Nat, lost : BOOLEAN]

IsListed(e) == \/ e \in [k : {"dot", "dotdot"}, a : Dirs]
               \/ e \in [k : {"index"}, a : {"root", "alloc"}]
               \/ e \in [k : {"orphan"}, c : Orphans, j : Nat]
               \/ e = [k |-> "orphandir"]

(* the list holds entries, and no entry has more addresses in use than    *)
(* its buffer has room for (map->used_cnt <= map->alloc_cnt)              *)
MapTypeOK ==
  /\ omap \in Seq(Entry)
  /\ \A k \in DOMAIN omap : Len(omap[k].addrs) <= omap[k].alloc
  /\ \A i \in DOMAIN listing : IsListed(listing[i])
  /\ dir.pc \in {"idle", "dots", "root", "alloc", "walk", "list", "orphandir"}
  /\ ret \in {"none", "OK", "COR", "ERR"}

(* ntfs_orphan_map_add keeps the list strictly ascending in par_addr, the *)
(* order ntfs_orphan_map_get's early exit relies on, across any sequence   *)
(* of adds that create entries at the front, middle and end.               *)
MapSorted ==
  \A k \in 1 .. Len(omap) - 1 : omap[k].par < omap[k + 1].par

(* Spec §4.9 step 8 and §8: when ntfs_dir_open_meta returns OK, the       *)
(* listing has, for every orphan and every one of its $FILE_NAMEs whose    *)
(* parent is the directory, that name.                                     *)
DirListsItsOrphans ==
  ret = "OK" =>
    \A c \in Orphans : \A j \in DOMAIN names[c] :
      names[c][j] = dir.addr => [k |-> "orphan", c |-> c, j |-> j] \in ToSet(listing)

(* Spec §4.9 step 8: each orphan's name under the directory is added once. *)
ListingOncePerName ==
  ret = "OK" => IsInjective(SelectSeq(listing, LAMBDA e : e.k = "orphan"))

(* where an entry of each kind belongs in a listing (spec §5) *)
Rank(e) == CASE e.k = "dot" -> 1 [] e.k = "dotdot" -> 2
             [] e.k = "index" /\ e.a = "root" -> 3 [] e.k = "index" -> 4
             [] e.k = "orphan" -> 5 [] OTHER -> 6

Precedes(e, f) == Rank(e) < Rank(f) \/ (Rank(e) = Rank(f) /\ (e.k = "orphan" => e.c <= f.c))

(* Spec §5 ordering and §4.9 steps 4-9: a listing that ntfs_dir_open_meta  *)
(* returns OK has ".", "..", the $INDEX_ROOT and the $INDEX_ALLOCATION      *)
(* entries, the orphans in ascending MFT address, and the $OrphanFiles      *)
(* entry last, exactly when the directory is the root.  The orphan order   *)
(* is the order in which the inode walk, on the first open only, appended  *)
(* each orphan to its parent's addrs.                                      *)
ListingInOrder ==
  ret = "OK" /\ dir.addr \in Dirs =>
    /\ \A i, j \in DOMAIN listing : i < j => Precedes(listing[i], listing[j])
    /\ ([k |-> "orphandir"] \in ToSet(listing) <=> dir.addr = Root)

(* Spec §5 resource discipline: an open releases what it opened on every   *)
(* exit path; fs_file_orp, opened once per orphan listed, never is.        *)
HandlesReleased == ~leaked

(* The orphan map is never left with an addrs buffer that a later add or   *)
(* listing dereferences as NULL.                                           *)
NoNullDeref == ~crashed

(* the orphans the list holds under each parent, as ntfs_orphan_map_get   *)
(* finds them                                                              *)
AbsChildren ==
  [p \in Dirs |-> LET k == orphan_map_get(omap, p)
                  IN IF k = 0 THEN <<>> ELSE omap[k].addrs]

OM == INSTANCE OrphanMap WITH Parents <- Dirs, Children <- Orphans,
                              children <- AbsChildren

(* The linked list implements the map of spec §4.8: every step of         *)
(* ntfs_dir_open_meta either leaves the children found under each parent   *)
(* unchanged or records one orphan under the parent of each of its names.  *)
OrphanMapRefined == OM!Spec
=============================================================================
