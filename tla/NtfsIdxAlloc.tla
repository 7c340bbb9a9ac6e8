----------------------------- MODULE NtfsIdxAlloc -----------------------------
(***************************************************************************)
(* The $INDEX_ALLOCATION part of ntfs_dir_open_meta (ntfs_dent.c 864-1071):*)
(* the attribute is copied into one buffer `idxalloc` of NClust clusters,  *)
(* which is scanned cluster by cluster for the INDX magic.  Between two    *)
(* magics the previous record is fixed up (ntfs_fix_idxrec), its entry-list *)
(* offsets are checked, and its list is handed to ntfs_proc_idxentry.  The *)
(* record after the last magic is handled after the loop.                  *)
(*                                                                         *)
(* Offsets are bytes from the start of idxalloc.  The buffer's address     *)
(* enters only through the final record's length (lines 1015-1017), which  *)
(* subtracts it twice: `skew` is 2 * idxalloc mod 2^32 as an int32.        *)
(* ntfs_proc_idxentry is a separate component; here it returns OK, COR or  *)
(* ERR, and what it is given is recorded in `spans`.                       *)
(***************************************************************************)
EXTENDS Integers, FiniteSets

CONSTANTS
  NClust,       \* clusters in idxalloc
  CSize,        \* ntfs->csize_b
  SSize,        \* ntfs->ssize_b
  ListOff,      \* offset of idxrec->list in an index record header
  RecUpdOffs,   \* upd_off values of a record header
  RecUpdCnts,   \* upd_cnt values of a record header
  BeginOffs,    \* idxelist->begin_off values
  SeqendOffs,   \* idxelist->seqend_off values
  HeapSkews,    \* values of 2 * (uintptr_t) idxalloc mod 2^32, as int32
  Seq, Stale, Fill   \* a record's sequence number, a stale tail, other words

L == NClust * CSize                     \* idxalloc_len
Clusters == 0 .. NClust - 1

F == INSTANCE NtfsFixup WITH NSect <- 1, UpdOffs <- {}, UpdCnts <- {}, Lens <- {},
                             Vals <- {Stale}, Outside <- Fill,
                             mem <- <<>>, upd_off <- 0, upd_cnt <- 0, len <- 0,
                             called <- FALSE, res <- <<>>

NoRec == [magic |-> FALSE, upd_off |-> 0, upd_cnt |-> 0, tails |-> FALSE, begin |-> 0, seqend |-> 0]
Recs  == [magic : {TRUE}, upd_off : RecUpdOffs, upd_cnt : RecUpdCnts, tails : BOOLEAN,
          begin : BeginOffs, seqend : SeqendOffs]

(* images of the attribute: each cluster starts a record or does not *)
Images == [Clusters -> Recs \cup {NoRec}]

VARIABLES
  img,          \* the attribute's contents, per cluster
  skew,         \* where tsk_malloc put idxalloc
  pc,           \* "load", "scan", "done"
  off,          \* the loop's off, in clusters
  prev,         \* idxrec_p, in clusters; -1 for NULL
  final,        \* retval_final
  ret,          \* what ntfs_dir_open_meta returns; "none" while running
  processed,    \* records ntfs_fix_idxrec was called on
  touched,      \* byte offsets ntfs_fix_idxrec read and wrote
  spans         \* the lists handed to ntfs_proc_idxentry

vars == <<img, skew, pc, off, prev, final, ret, processed, touched, spans>>

Magic == {c \in Clusters : img[c].magic}

(* the words of the record r that starts at byte b and ends at byte e,   *)
(* as the attribute walk left them; the words ntfs_fix_idxrec compares     *)
(* (upd_val and the sector tails) lie in it whenever it accepts the length *)
RecWords(r, b, e) ==
  [o \in {w \in b .. e - 2 : w % 2 = 0} |->
     IF (o - b) % SSize = SSize - 2 THEN (IF r.tails THEN Seq ELSE Stale)
     ELSE IF o - b = r.upd_off THEN Seq
     ELSE Fill]

(* byte just past the record that starts at cluster c, as the layout has it *)
RecEnd(c) ==
  LET nx == {d \in Magic : d > c} IN IF nx = {} THEN L ELSE (CHOOSE d \in nx : \A e \in nx : d <= e) * CSize

Init ==
  /\ img \in Images
  /\ skew \in HeapSkews
  /\ pc = "load"
  /\ off = 0
  /\ prev = -1
  /\ final \in {"OK", "COR"}        \* the $INDEX_ROOT list may already have been COR
  /\ ret = "none"
  /\ processed = {}
  /\ touched = [reads |-> {}, writes |-> {}]
  /\ spans = {}

(* lines 867-899: tsk_malloc, then tsk_fs_attr_walk into the buffer *)
Load(outcome) ==
  /\ pc = "load"
  /\ pc' = IF outcome = "ok" THEN "scan" ELSE "done"
  /\ ret' = CASE outcome = "ok"    -> "none"
              [] outcome = "nomem" -> "ERR"
              [] OTHER             -> "COR"      \* the walk failed, or left bytes uncopied
  /\ UNCHANGED <<img, skew, off, prev, final, processed, touched, spans>>

(* lines 947-948: the length of the record at cluster p whose successor is at cluster o *)
rec_len_mid(p, o) == (o - p) * CSize

(* the final record's length taken as the whole of idxalloc *)
rec_len_last_whole(p) == L - skew

(* lines 1015-1017: (uint32_t) (idxalloc_len - (uintptr_t) idxrec_p - (uintptr_t) idxalloc) *)
rec_len_last(p) == L - p * CSize - skew

(* lines 974-977 without the test of idxe against the next record *)
list_bad_mid_seqend_only(b, r, endb) == b + ListOff + r.seqend > endb

(* lines 974-977: idxe or the end of the used list lies past the next record *)
list_bad_mid(b, r, endb) ==
  \/ b + ListOff + r.begin > endb
  \/ b + ListOff + r.seqend > endb

(* lines 1035-1043: list_len > rec_len, or the used list ends past idxalloc *)
list_bad_last(b, r, recLen) ==
  \/ F!ULT(recLen, L - (b + ListOff + r.begin))
  \/ b + ListOff + r.seqend > L

(* One record: ntfs_fix_idxrec, the offset checks, ntfs_proc_idxentry     *)
(* returning pres, and what the code does with each outcome.  `out` is    *)
(* what the heap past idxalloc holds where a read lands there.            *)
(* Continue is what the code does next when the record was accepted.      *)
ProcessPrev(recLen, endb, bad, out, pres, Continue) ==
  LET b    == prev * CSize
      r    == img[prev]
      f    == F!fix_idxrec(RecWords(r, b, RecEnd(prev)), out, b, recLen, r.upd_off, r.upd_cnt)
      idxe == b + ListOff + r.begin
      stop == IF ~f.ok \/ bad THEN "COR" ELSE IF pres = "ERR" THEN "ERR" ELSE "cont"
  IN /\ processed' = processed \cup {prev}
     /\ touched' = [reads |-> touched.reads \cup f.reads, writes |-> touched.writes \cup f.writes]
     /\ spans' = IF f.ok /\ ~bad
                   THEN spans \cup {[rec |-> prev, start |-> idxe, len |-> endb - idxe]}
                   ELSE spans
     /\ IF stop = "cont"
          THEN /\ final' = IF pres = "COR" THEN "COR" ELSE final
               /\ Continue
          ELSE /\ pc' = "done" /\ ret' = stop
               /\ UNCHANGED <<off, prev, final>>

(* lines 918-932: a cluster without the INDX magic *)
ScanSkip ==
  /\ pc = "scan" /\ off < NClust
  /\ ~img[off].magic
  /\ off' = off + 1
  /\ UNCHANGED <<img, skew, pc, prev, final, ret, processed, touched, spans>>

(* the first magic, with idxrec_p set one cluster on *)
ScanFirst_next_cluster ==
  /\ pc = "scan" /\ off < NClust
  /\ img[off].magic /\ prev = -1
  /\ prev' = off + 1 /\ off' = off + 1
  /\ UNCHANGED <<img, skew, pc, final, ret, processed, touched, spans>>

(* lines 937-940: the first magic *)
ScanFirst ==
  /\ pc = "scan" /\ off < NClust
  /\ img[off].magic /\ prev = -1
  /\ prev' = off /\ off' = off + 1
  /\ UNCHANGED <<img, skew, pc, final, ret, processed, touched, spans>>

(* lines 942-1005: a later magic ends the previous record, which is processed *)
ScanRecord(out, pres) ==
  /\ pc = "scan" /\ off < NClust
  /\ img[off].magic /\ prev # -1
  /\ ProcessPrev(rec_len_mid(prev, off), off * CSize,
                 list_bad_mid(prev * CSize, img[prev], off * CSize), out, pres,
                 prev' = off /\ off' = off + 1 /\ UNCHANGED <<pc, ret>>)
  /\ UNCHANGED <<img, skew>>

(* the loop's end without the final record's block *)
FinalRecord_skipped(out, pres) ==
  /\ pc = "scan" /\ off = NClust /\ prev # -1
  /\ pc' = "done" /\ ret' = final
  /\ UNCHANGED <<img, skew, off, prev, final, processed, touched, spans>>

(* lines 1010-1068: the record after the last magic, up to the end of idxalloc *)
FinalRecord(out, pres) ==
  /\ pc = "scan" /\ off = NClust /\ prev # -1
  /\ ProcessPrev(rec_len_last(prev), L,
                 list_bad_last(prev * CSize, img[prev], rec_len_last(prev)), out, pres,
                 pc' = "done" /\ ret' = final' /\ UNCHANGED <<off, prev>>)
  /\ UNCHANGED <<img, skew>>

(* line 1011 false: no magic in the whole buffer *)
ScanEnd ==
  /\ pc = "scan" /\ off = NClust /\ prev = -1
  /\ pc' = "done" /\ ret' = final
  /\ UNCHANGED <<img, skew, off, prev, final, processed, touched, spans>>

Next ==
  \/ \E o \in {"ok", "nomem", "walk_fail", "short"} : Load(o)
  \/ ScanSkip
  \/ ScanFirst
  \/ \E out \in {Seq, Fill}, pres \in {"OK", "COR", "ERR"} : ScanRecord(out, pres) \/ FinalRecord(out, pres)
  \/ ScanEnd

Spec == Init /\ [][Next]_vars

-----------------------------------------------------------------------------
TypeOK ==
  /\ img \in Images /\ skew \in HeapSkews
  /\ pc \in {"load", "scan", "done"}
  /\ off \in 0 .. NClust /\ prev \in -1 .. NClust - 1
  /\ final \in {"OK", "COR"} /\ ret \in {"none", "OK", "COR", "ERR"}
  /\ processed \subseteq Magic
  /\ touched \in [reads : SUBSET Int, writes : SUBSET Int]
  /\ \A s \in spans : s.rec \in Magic /\ s.start \in Int /\ s.len \in Int

(* Every word ntfs_fix_idxrec overwrites, in any record of the scan, lies  *)
(* inside idxalloc: the record lengths passed at lines 956 and 1025 keep   *)
(* the sector loop inside the buffer.                                      *)
FixupWritesInBuffer == \A w \in touched.writes : 0 <= w /\ w + 2 <= L

(* Every word ntfs_fix_idxrec reads, the update array included, lies       *)
(* inside idxalloc.                                                        *)
FixupReadsInBuffer == \A w \in touched.reads : 0 <= w /\ w + 2 <= L

(* Each list handed to ntfs_proc_idxentry (lines 989 and 1054) starts      *)
(* inside its own record and is exactly the rest of that record, up to the *)
(* next INDX magic or the end of idxalloc.                                 *)
SpansInRecord ==
  \A s \in spans :
     /\ s.rec * CSize <= s.start /\ s.start <= RecEnd(s.rec)
     /\ s.len = RecEnd(s.rec) - s.start

(* When the scan returns OK, the entry list of every record in the buffer  *)
(* was handed to ntfs_proc_idxentry, the final one included.               *)
OkMeansAllParsed ==
  pc = "done" /\ ret = "OK" => \A c \in Magic : \E s \in spans : s.rec = c

(* a record whose tails, update count and list offsets are all sound *)
WellFormed(c) ==
  LET r == img[c]  size == RecEnd(c) - c * CSize
  IN /\ r.tails
     /\ 1 <= r.upd_cnt /\ (r.upd_cnt - 1) * SSize <= size
     /\ ListOff + r.begin <= size /\ ListOff + r.seqend <= size

(* Spec §4.9 step 10: corruption downgrades the return to CORRUPT but does *)
(* not abort.  So once idxalloc is loaded and no hard error occurs, every  *)
(* well-formed record's list is parsed, whatever other records hold.       *)
CorruptionDoesNotAbort ==
  pc = "done" /\ off > 0 /\ ret # "ERR" =>
     \A c \in Magic : WellFormed(c) => \E s \in spans : s.rec = c
=============================================================================
