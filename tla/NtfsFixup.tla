------------------------------ MODULE NtfsFixup ------------------------------
(***************************************************************************)
(* ntfs_fix_idxrec (ntfs_dent.c 520-591): the update-sequence repair of   *)
(* one NTFS index record, in place in the buffer that holds it.            *)
(*                                                                         *)
(* Memory is a function from the even byte offsets of a buffer to 16-bit   *)
(* words, each an abstract value.  A read outside the buffer yields        *)
(* `out`, whatever the heap holds there.  A write outside the buffer       *)
(* leaves the function alone, and the offset is still recorded in          *)
(* `writes`.  uint32 values are kept as int32 bit patterns, and the code's *)
(* unsigned comparisons are done on those patterns (ULT).                  *)
(*                                                                         *)
(* The module's behaviour is one call on one record chosen in Init, so it  *)
(* can be checked against the reference of spec §4.6.                      *)
(***************************************************************************)
EXTENDS Integers, FiniteSets

CONSTANTS
  SSize,        \* ntfs->ssize_b, the sector size in bytes
  NSect,        \* sectors in the record of the single-call behaviour
  UpdOffs,      \* upd_off values of the header (even)
  UpdCnts,      \* upd_cnt values of the header
  Lens,         \* len values a caller passes
  Seq,          \* the value of the update sequence number
  Vals,         \* the other values a word may hold
  Fill,         \* the value of every other word of the record
  Outside       \* what a read past the buffer returns

(* `a < b` on the uint32 values whose bit patterns are the int32 a and b *)
ULT(a, b) == IF (a < 0) = (b < 0) THEN a < b ELSE b < 0

Get(m, out, o) == IF o \in DOMAIN m THEN m[o] ELSE out

Put(m, o, v) == IF o \in DOMAIN m THEN [m EXCEPT ![o] = v] ELSE m

(* the sector loop reading its replacements from upd_val, not upd_seq *)
RECURSIVE FixLoopUpdVal(_, _, _, _, _, _, _, _, _)
FixLoopUpdVal(m, out, p, uoff, ucnt, i, seq, reads, writes) ==
  IF i >= ucnt THEN [ok |-> TRUE, mem |-> m, reads |-> reads, writes |-> writes]
  ELSE LET t == p + i * SSize - 2
           a == p + uoff + 2 * (i - 1)
       IN IF Get(m, out, t) # seq
            THEN [ok |-> FALSE, mem |-> m, reads |-> reads \cup {t, a}, writes |-> writes]
            ELSE FixLoopUpdVal(Put(m, t, Get(m, out, a)), out, p, uoff, ucnt, i + 1, seq,
                               reads \cup {t, a}, writes \cup {t})

(* the sector loop of lines 551-588, from sector i on *)
RECURSIVE FixLoop(_, _, _, _, _, _, _, _, _)
FixLoop(m, out, p, uoff, ucnt, i, seq, reads, writes) ==
  IF i >= ucnt THEN [ok |-> TRUE, mem |-> m, reads |-> reads, writes |-> writes]
  ELSE LET t == p + i * SSize - 2                   \* offset, line 554
           a == p + uoff + 2 + 2 * (i - 1)          \* &upd->upd_seq + (i-1)*2
       IN IF Get(m, out, t) # seq                   \* cur_seq != orig_seq
            THEN [ok |-> FALSE, mem |-> m, reads |-> reads \cup {t, a}, writes |-> writes]
            ELSE FixLoop(Put(m, t, Get(m, out, a)), out, p, uoff, ucnt, i + 1, seq,
                         reads \cup {t, a}, writes \cup {t})

(* the sanity check compares (upd_cnt - 2) * ssize_b with len *)
fix_idxrec_short_check(m, out, p, len, uoff, ucnt) ==
  IF ULT(len, (ucnt - 2) * SSize)
    THEN [ok |-> FALSE, mem |-> m, reads |-> {}, writes |-> {}]
    ELSE FixLoop(m, out, p, uoff, ucnt, 1, Get(m, out, p + uoff), {p + uoff}, {})

(* the loop entered without the sanity check *)
fix_idxrec_no_check(m, out, p, len, uoff, ucnt) ==
  FixLoop(m, out, p, uoff, ucnt, 1, Get(m, out, p + uoff), {p + uoff}, {})

(* ntfs_fix_idxrec(ntfs, idxrec at byte p, len) with the header's upd_off and upd_cnt *)
fix_idxrec(m, out, p, len, uoff, ucnt) ==
  IF ULT(len, (ucnt - 1) * SSize)                   \* line 533: (unsigned) ... > len
    THEN [ok |-> FALSE, mem |-> m, reads |-> {}, writes |-> {}]
    ELSE FixLoop(m, out, p, uoff, ucnt, 1, Get(m, out, p + uoff), {p + uoff}, {})

-----------------------------------------------------------------------------
(* One call on one record.  The record is NSect sectors at offset 0 of a   *)
(* buffer of the same size, as every caller's record that ends inside the  *)
(* buffer is.                                                              *)

RecBytes == NSect * SSize
Words    == {o \in 0 .. RecBytes - 2 : o % 2 = 0}
Tail(i)  == i * SSize - 2

VARIABLES mem, upd_off, upd_cnt, len, called, res

vars == <<mem, upd_off, upd_cnt, len, called, res>>

(* the record as on disk: the update array at upd_off, then the sector tails *)
Records(uoff) ==
  { [o \in Words |-> IF \E i \in 1 .. NSect : o = Tail(i) THEN tl[(o + 2) \div SSize]
                     ELSE IF o = uoff THEN Seq
                     ELSE IF o > uoff /\ (o - uoff) \div 2 \in DOMAIN arr THEN arr[(o - uoff) \div 2]
                     ELSE Fill]
    : tl \in [1 .. NSect -> {Seq} \cup Vals], arr \in [1 .. NSect -> Vals] }

Init ==
  /\ upd_off \in UpdOffs
  /\ upd_cnt \in UpdCnts
  /\ len \in Lens
  /\ mem \in Records(upd_off)
  /\ called = FALSE
  /\ res = [ok |-> FALSE, mem |-> mem, reads |-> {}, writes |-> {}]

Fix ==
  /\ ~called
  /\ called' = TRUE
  /\ res' = fix_idxrec(mem, Outside, 0, len, upd_off, upd_cnt)
  /\ UNCHANGED <<mem, upd_off, upd_cnt, len>>

Next == Fix

Spec == Init /\ [][Next]_vars

-----------------------------------------------------------------------------
TypeOK ==
  /\ upd_off \in UpdOffs /\ upd_cnt \in UpdCnts /\ len \in Lens
  /\ mem \in [Words -> {Seq, Fill} \cup Vals]
  /\ called \in BOOLEAN
  /\ res.ok \in BOOLEAN /\ res.mem \in [Words -> {Seq, Fill} \cup Vals]
  /\ res.reads \subseteq Words /\ res.writes \subseteq Words

(* the update array, upd_cnt words from upd_off, lies in the buffer and   *)
(* clear of every sector tail the loop visits                              *)
ArrayClear ==
  \A j \in 0 .. upd_cnt - 1 :
     /\ upd_off + 2 * j \in Words
     /\ \A i \in 1 .. upd_cnt - 1 : upd_off + 2 * j # Tail(i)

(* spec §4.6: the check, the expected value, and each tail replaced by its entry *)
RefOk ==
  /\ upd_cnt >= 1
  /\ (upd_cnt - 1) * SSize <= len
  /\ \A i \in 1 .. upd_cnt - 1 : mem[Tail(i)] = mem[upd_off]

RefMem ==
  [o \in Words |-> IF \E i \in 1 .. upd_cnt - 1 : o = Tail(i)
                     THEN mem[upd_off + 2 * ((o + 2) \div SSize)]
                     ELSE mem[o]]

(* Whenever the update array is clear of the tails and the caller's len   *)
(* is no more than the buffer, ntfs_fix_idxrec accepts exactly the records *)
(* spec §4.6 accepts, and leaves each sector tail holding its entry of the *)
(* update array (the round trip of spec §6).                               *)
FixupMatchesReference ==
  called /\ ArrayClear /\ len <= RecBytes =>
     /\ res.ok = RefOk
     /\ res.ok => res.mem = RefMem

(* Every word ntfs_fix_idxrec writes, accepted record or not, lies in the  *)
(* first len bytes of the record: the check at line 533 bounds the loop.   *)
FixupWritesWithinLen ==
  called => \A w \in res.writes : 0 <= w /\ w + 2 <= len
=============================================================================
