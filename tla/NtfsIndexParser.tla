--------------------------- MODULE NtfsIndexParser ---------------------------
(***************************************************************************)
(* ntfs_proc_idxentry (ntfs_dent.c 307-508): the scan of one buffer of     *)
(* index entries, with the tolerant search for deleted entries.            *)
(*                                                                         *)
(* The buffer is the state an index node is left in after entries were     *)
(* deleted from it: the old list `old` (entries, then a 16-byte end        *)
(* entry) was written from offset 0, then the entries in `del` were        *)
(* removed and the rest written again from 0 with a new end entry.  The    *)
(* bytes past the new list (the slack) still hold the old list.  A read    *)
(* of an entry header at offset p therefore finds                          *)
(*   - a current entry, or the new end entry, where the new list put one;  *)
(*   - an old entry, or the old end entry, whose header lies in the slack; *)
(*   - the damaged header `damage` at the first offset past the old list;  *)
(*   - otherwise bytes that fail the first sanity check (the child         *)
(*     reference is out of range): the middle of a name, zeros.            *)
(* The $FILE_NAME read at p+16 behind the new end entry is the one of the  *)
(* old entry that started at p, whose header the end entry overwrote (the  *)
(* "deleted entries have strlen == 0 and idxlen == 16" theory of line      *)
(* 481), or garbage.  Offsets are relative to the buffer; `base` is the    *)
(* buffer's address mod 4, which the rounding of line 495 sees.            *)
(***************************************************************************)
EXTENDS Integers, Sequences, SequencesExt

CONSTANTS
  Entries,      \* index entries: [name, nlen, ns, child, fn_ok, t]
  MaxOld,       \* most entries in the old list
  Extra,        \* bytes of the buffer past the old list
  Bases,        \* address of the buffer mod 4
  Damaged,      \* header values a damaged header may hold
  NoDamage,     \* no damaged header
  UsedWrap,     \* used_len values as passed by the caller: FALSE, or TRUE for seqend < begin
  Junk,         \* the name decoded from garbage
  Hdr, FnOff, FnSize   \* 16, 66 and sizeof(ntfs_attr_fname)

NSpaces == {"POSIX", "WIN32", "DOS", "WINDOS"}

(* is_time (271-289) on a timestamp already divided by 10^9 (line 277) *)
SEC_1970 == (369 * 365 + 89) * 24 * 36
SEC_2010 == SEC_1970 + (40 * 365 + 6) * 24 * 36
is_time(t) == t # 0 /\ t >= SEC_1970 /\ t <= SEC_2010

RoundUp(x, a) == ((x + a - 1) \div a) * a

(* the on-disk length of an entry and of its $FILE_NAME stream *)
Size(e)   == RoundUp(Hdr + FnOff + 2 * e.nlen, 8) + (IF e.child THEN 8 ELSE 0)
StrLen(e) == FnOff + 2 * e.nlen

(* offset of the i-th entry of a list written from 0, and of its end entry *)
StartOf(s, i) == FoldLeft(+, 0, [k \in 1 .. i - 1 |-> Size(s[k])])
EndOf(s)      == StartOf(s, Len(s) + 1)

Garbage == [ref_ok |-> FALSE, idxlen |-> 0, strlen |-> 0, ns |-> "none",
            nlen |-> 0, fn_ok |-> FALSE, t |-> 0, name |-> Junk]

(* the header of entry e with the $FILE_NAME of entry f behind it *)
Header(e, f) == [ref_ok |-> TRUE, idxlen |-> Size(e), strlen |-> StrLen(e),
                 ns |-> f.ns, nlen |-> f.nlen, fn_ok |-> f.fn_ok, t |-> f.t, name |-> f.name]

(* an end entry: file_ref 0, idxlen 16, strlen 0, and whatever $FILE_NAME follows *)
EndHeader(f) == [ref_ok |-> TRUE, idxlen |-> Hdr, strlen |-> 0, ns |-> f.ns,
                 nlen |-> f.nlen, fn_ok |-> f.fn_ok, t |-> f.t, name |-> f.name]

VARIABLES
  old, del, len, base, is_del, damage, wrap,   \* the buffer and the call's arguments
  pc, p, ret, held, listed, reads

vars == <<old, del, len, base, is_del, damage, wrap, pc, p, ret, held, listed, reads>>

kept     == SelectSeq([i \in 1 .. Len(old) |-> i], LAMBDA i : i \notin del)
cur      == [k \in 1 .. Len(kept) |-> old[kept[k]]]
used     == EndOf(cur) + Hdr
old_used == EndOf(old) + Hdr

HeaderAt(q) ==
  IF \E j \in 1 .. Len(cur) : StartOf(cur, j) = q
    THEN LET j == CHOOSE j \in 1 .. Len(cur) : StartOf(cur, j) = q IN Header(cur[j], cur[j])
  ELSE IF q = used - Hdr
    THEN IF \E i \in 1 .. Len(old) : StartOf(old, i) = q
           THEN EndHeader(old[CHOOSE i \in 1 .. Len(old) : StartOf(old, i) = q])
           ELSE EndHeader(Garbage)
  ELSE IF q >= used /\ \E i \in 1 .. Len(old) : StartOf(old, i) = q
    THEN LET i == CHOOSE i \in 1 .. Len(old) : StartOf(old, i) = q IN Header(old[i], old[i])
  ELSE IF q >= used /\ q = old_used - Hdr THEN EndHeader(Garbage)
  ELSE IF q = old_used /\ damage # NoDamage THEN damage
  ELSE Garbage

(* used_len as the caller computes it: seqend_off - begin_off in uint32,  *)
(* which wraps to at least 2^32 - 1024 when seqend_off < begin_off; 2^30  *)
(* stands for any such value, all of them above every buffer length        *)
UsedArg == IF wrap THEN 2^30 ELSE used

Init ==
  /\ \E k \in 1 .. MaxOld : old \in {s \in [1 .. k -> Entries] : IsInjective(s)}
  /\ del \in SUBSET (1 .. Len(old))
  /\ len = old_used + Extra
  /\ base \in Bases
  /\ is_del \in BOOLEAN
  /\ damage \in Damaged \cup {NoDamage}
  /\ wrap \in UsedWrap
  /\ pc = "start" /\ p = 0 /\ ret = "none" /\ held = FALSE
  /\ listed = <<>> /\ reads = {}

Args == <<old, del, len, base, is_del, damage, wrap>>

(* the length check answering TSK_COR, which the callers let pass *)
Start_cor ==
  /\ pc = "start"
  /\ held' = TRUE
  /\ IF len < UsedArg THEN ret' = "COR" /\ pc' = "done" ELSE pc' = "scan" /\ ret' = ret
  /\ UNCHANGED <<Args, p, listed, reads>>

(* lines 315-338: the name buffer, then the check of the two lengths *)
Start ==
  /\ pc = "start"
  /\ \/ /\ ret' = "ERR" /\ pc' = "done" /\ held' = FALSE      \* tsk_fs_name_alloc fails
     \/ /\ held' = TRUE
        /\ IF len < UsedArg
             THEN ret' = "ERR" /\ pc' = "done"                  \* returns with fs_name held
             ELSE pc' = "scan" /\ ret' = ret
  /\ UNCHANGED <<Args, p, listed, reads>>

(* the loop bounded by endaddr_alloc in place of endaddr *)
InBuf_used == base + p + Hdr + FnSize < base + UsedArg

(* the loop condition of line 341, on addresses *)
InBuf == base + p + Hdr + FnSize < base + len

(* the sanity check without idxlen <= strlen *)
HeadBad_no_strlen(h) ==
  \/ ~h.ref_ok
  \/ h.idxlen % 4 # 0
  \/ h.idxlen > len

(* lines 360-371: the header fails its sanity check *)
HeadBad(h) ==
  \/ ~h.ref_ok
  \/ h.idxlen <= h.strlen
  \/ h.idxlen % 4 # 0
  \/ h.idxlen > len

(* lines 375-377: the entry looks deleted *)
LooksDeleted(h) == h.strlen = 0 \/ p + h.idxlen > UsedArg

(* lines 378-411: a deleted entry fails one of its checks *)
DelBad(h) ==
  /\ LooksDeleted(h)
  /\ \/ h.ns \notin NSpaces
     \/ ~h.fn_ok \/ h.nlen = 0
     \/ ~is_time(h.t)

(* lines 479-502: the next entry, from the rounded $FILE_NAME end if strlen is 0 *)
incr_entry(h) ==
  IF h.strlen = 0 THEN RoundUp(base + p + Hdr + FnOff + 2 * h.nlen, 4) - base
  ELSE p + h.idxlen

(* the end of the buffer in place of the end of the used data *)
Flags_endaddr(h) == IF is_del \/ h.strlen = 0 \/ p + h.idxlen > len THEN "UNALLOC" ELSE "ALLOC"

(* lines 446-461 *)
Flags(h) == IF is_del \/ h.strlen = 0 \/ p + h.idxlen > UsedArg THEN "UNALLOC" ELSE "ALLOC"

(* the name ntfs_dent_copy reads, 2*nlen bytes at offset 82 (lines 222-228) *)
NameSpan(h) == [lo |-> p + Hdr + FnOff, hi |-> p + Hdr + FnOff + 2 * h.nlen]

(* lines 359-371 and 375-411: skip 4 bytes past a header that fails a check *)
Skip ==
  /\ pc = "scan" /\ InBuf
  /\ LET h == HeaderAt(p) IN HeadBad(h) \/ DelBad(h)
  /\ p' = p + 4
  /\ UNCHANGED <<Args, pc, ret, held, listed, reads>>

(* lines 429-436: a DOS name is not added *)
SkipDos ==
  /\ pc = "scan" /\ InBuf
  /\ LET h == HeaderAt(p) IN
       /\ ~HeadBad(h) /\ ~DelBad(h) /\ h.ns = "DOS"
       /\ p' = incr_entry(h)
  /\ UNCHANGED <<Args, pc, ret, held, listed, reads>>

(* lines 438-477: copy the name (ntfs_dent_copy always returns 0), flag    *)
(* it and add it to the directory; a failed tsk_fs_dir_add frees the name *)
(* and returns TSK_ERR                                                     *)
AddName ==
  /\ pc = "scan" /\ InBuf
  /\ LET h == HeaderAt(p) IN
       /\ ~HeadBad(h) /\ ~DelBad(h) /\ h.ns # "DOS"
       /\ reads' = reads \cup {NameSpan(h)}
       /\ \/ /\ listed' = Append(listed, [name |-> h.name, flags |-> Flags(h)])
             /\ p' = incr_entry(h)
             /\ UNCHANGED <<pc, ret, held>>
          \/ /\ pc' = "done" /\ ret' = "ERR" /\ held' = FALSE
             /\ UNCHANGED <<p, listed>>
  /\ UNCHANGED Args

(* lines 504-507 *)
Finish ==
  /\ pc = "scan" /\ ~InBuf
  /\ pc' = "done" /\ ret' = "OK" /\ held' = FALSE
  /\ UNCHANGED <<Args, p, listed, reads>>

Next == Start \/ Skip \/ SkipDos \/ AddName \/ Finish

(* the function runs on one thread and never blocks: it keeps stepping *)
Spec == Init /\ [][Next]_vars /\ WF_vars(Next)
-----------------------------------------------------------------------------
TypeOK ==
  /\ pc \in {"start", "scan", "done"}
  /\ ret \in {"none", "OK", "ERR"}
  /\ p \in 0 .. len + 2 * 255 + Hdr + FnOff
  /\ held \in BOOLEAN
  /\ listed \in Seq([name : {e.name : e \in Entries} \cup {Junk}, flags : {"ALLOC", "UNALLOC"}])

(* The scan ends: every pass of the loop of lines 341-504 moves the entry  *)
(* pointer forward, whatever the bytes hold, so ntfs_proc_idxentry returns. *)
Termination == <>(pc = "done")

Names(s) == [k \in 1 .. Len(s) |-> s[k].name]
IsAlloc(r) == r.flags = "ALLOC"
NotDos(e)  == e.ns # "DOS"

(* A successful scan lists as allocated exactly the current entries of the *)
(* node, in their order and without their DOS names, and none of the old   *)
(* entries still in the slack (none at all in a deleted directory): the    *)
(* walk by idxlen (line 500), the end-of-used test of line 453 and the     *)
(* search of the slack by 4 bytes must agree.                              *)
ListingIsCurrentDirectory ==
  ret = "OK" =>
    Names(SelectSeq(listed, IsAlloc)) = IF is_del THEN <<>> ELSE Names(SelectSeq(cur, NotDos))

(* a deleted entry whose header, or whose $FILE_NAME behind the new end    *)
(* entry, survives in the slack before the loop's end                      *)
Recoverable(i) ==
  LET q == StartOf(old, i) IN
  /\ i \in del
  /\ old[i].ns # "DOS" /\ old[i].fn_ok /\ is_time(old[i].t)
  /\ q = used - Hdr \/ q >= used
  /\ q + Hdr + FnSize < len

(* A successful scan lists every recoverable deleted entry as unallocated  *)
(* (spec §4.7 and its example 5): neither the search by 4 bytes nor the     *)
(* jump of line 495 past an entry taken from the slack steps over one.     *)
DeletedEntriesRecovered ==
  ret = "OK" =>
    \A i \in DOMAIN old :
       Recoverable(i) => [name |-> old[i].name, flags |-> "UNALLOC"] \in Range(listed)

(* Every name ntfs_dent_copy decodes lies inside the buffer the caller     *)
(* passed: nlen comes from the $FILE_NAME and only the header was checked  *)
(* against the end of the buffer (line 341).                               *)
NameReadsInBuffer ==
  \A r \in reads : r.hi <= len

(* Every return of ntfs_proc_idxentry frees the name buffer of line 315.    *)
NameFreedOnReturn ==
  pc = "done" => ~held
====
