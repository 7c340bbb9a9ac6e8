--------------------------- MODULE NtfsOrphanMap ---------------------------
(***************************************************************************)
(* The NTFS orphan map of ntfs_dent.c (ntfs_orphan_map_alloc, _extend,    *)
(* _add, _get and ntfs_orphan_act), as operators on the list; the          *)
(* directory opener that builds the map and lists from it is               *)
(* NtfsDirOpener.                                                          *)
(*                                                                         *)
(* The map is the linked list ntfs->orphan_map, as a sequence of entries   *)
(* in list order: [par, addrs, alloc, lost], where addrs is the used part  *)
(* of the addrs buffer (used_cnt = Len(addrs)), alloc is alloc_cnt and     *)
(* lost means the buffer pointer was set to NULL by a failed tsk_realloc.  *)
(* The empty sequence is the NULL list.                                    *)
(***************************************************************************)
EXTENDS Naturals, Sequences, SequencesExt

CONSTANTS
  AddrChunk,        \* the 8 of alloc_cnt = 8 and alloc_cnt += 8
  MallocMayFail     \* tsk_malloc / tsk_realloc may return NULL

ASSUME AddrChunk \in Nat \ {0} /\ MallocMayFail \in BOOLEAN

(***************************************************************************)
(* The map operations, as operators on the list                            *)
(***************************************************************************)
(* mutant: the scan returns the first entry not below par, equal or not *)
orphan_map_get_no_eq(m, par) ==
  LET k == SelectInSeq(m, LAMBDA e : e.par >= par)
  IN IF k # 0 THEN k ELSE 0

(* ntfs_orphan_map_get: the index of par's entry, or 0; the scan stops at  *)
(* the first entry with a larger parent                                    *)
orphan_map_get(m, par) ==
  LET k == SelectInSeq(m, LAMBDA e : e.par >= par)
  IN IF k # 0 /\ m[k].par = par THEN k ELSE 0

(* mutant: a new entry is always linked at the end of the list *)
splice_at_end(m, par) == Len(m) + 1

(* where ntfs_orphan_map_add splices a new entry for par: before the first *)
(* entry with a larger parent, or at the end                               *)
splice_at(m, par) ==
  LET k == SelectInSeq(m, LAMBDA e : e.par > par)
  IN IF k = 0 THEN Len(m) + 1 ELSE k

(* ntfs_orphan_map_alloc *)
orphan_map_alloc(par) == [par |-> par, addrs |-> <<>>, alloc |-> AddrChunk, lost |-> FALSE]

(* mutant: the buffer is extended only once used_cnt has passed alloc_cnt *)
orphan_map_add_overrun(m, par, child, fail) ==
  LET k  == orphan_map_get(m, par)
      j  == IF k # 0 THEN k ELSE splice_at(m, par)
      m1 == IF k # 0 THEN m ELSE InsertAt(m, j, orphan_map_alloc(par))
      full == Len(m1[j].addrs) > m1[j].alloc
  IN CASE k = 0 /\ fail -> [m |-> m, st |-> "err"]
       [] full /\ fail ->
            [m |-> [m1 EXCEPT ![j].alloc = @ + AddrChunk, ![j].lost = TRUE], st |-> "err"]
       [] m1[j].lost -> [m |-> m1, st |-> "crash"]
       [] OTHER ->
            [m |-> [m1 EXCEPT ![j].alloc = IF full THEN @ + AddrChunk ELSE @,
                              ![j].addrs = Append(@, child)], st |-> "ok"]

(* ntfs_orphan_map_add(par, child); fail: the allocation this call makes,  *)
(* if it makes one, returns NULL.  st is "ok", "err" (return 1) or         *)
(* "crash" (a store through the NULL addrs of an earlier failed extend).   *)
orphan_map_add(m, par, child, fail) ==
  LET k  == orphan_map_get(m, par)
      j  == IF k # 0 THEN k ELSE splice_at(m, par)
      m1 == IF k # 0 THEN m ELSE InsertAt(m, j, orphan_map_alloc(par))
      full == Len(m1[j].addrs) = m1[j].alloc
  IN CASE k = 0 /\ fail -> [m |-> m, st |-> "err"]
       [] full /\ fail ->           \* ntfs_orphan_map_extend: alloc_cnt grown, addrs = NULL
            [m |-> [m1 EXCEPT ![j].alloc = @ + AddrChunk, ![j].lost = TRUE], st |-> "err"]
       [] m1[j].lost -> [m |-> m1, st |-> "crash"]
       [] OTHER ->
            [m |-> [m1 EXCEPT ![j].alloc = IF full THEN @ + AddrChunk ELSE @,
                              ![j].addrs = Append(@, child)], st |-> "ok"]

(* mutant: only the first $FILE_NAME of an orphan is recorded *)
orphan_act_first_name(m, child, pars, i, failAt) ==
  IF i > Len(pars) THEN [m |-> m, st |-> "ok"]
  ELSE orphan_map_add(m, pars[i], child, i = failAt)

(* ntfs_orphan_act: one add per name, in name2 order, stopping at the     *)
(* first that fails; failAt is the add whose allocation fails (0: none)    *)
RECURSIVE orphan_act(_, _, _, _, _)
orphan_act(m, child, pars, i, failAt) ==
  IF i > Len(pars) THEN [m |-> m, st |-> "ok"]
  ELSE LET r == orphan_map_add(m, pars[i], child, i = failAt)
       IN IF r.st = "ok" THEN orphan_act(r.m, child, pars, i + 1, failAt) ELSE r

FailPoints(pars) == IF MallocMayFail THEN 0 .. Len(pars) ELSE {0}

(* mutant: the listing loop runs from used_cnt - 1 down to 0 *)
OrphanNames_reversed(e, d, names) ==
  FlattenSeq([a \in DOMAIN e.addrs |->
    LET c  == Reverse(e.addrs)[a]
        js == SetToSortSeq({j \in DOMAIN names[c] : names[c][j] = d}, <)
    IN [i \in DOMAIN js |-> [k |-> "orphan", c |-> c, j |-> js[i]]]])

(* the names the listing loop adds for the orphans of entry e: for each    *)
(* address in addrs, each of its names (names[c]) whose parent is d       *)
OrphanNames(e, d, names) ==
  FlattenSeq([a \in DOMAIN e.addrs |->
    LET c  == e.addrs[a]
        js == SetToSortSeq({j \in DOMAIN names[c] : names[c][j] = d}, <)
    IN [i \in DOMAIN js |-> [k |-> "orphan", c |-> c, j |-> js[i]]]])
=============================================================================
