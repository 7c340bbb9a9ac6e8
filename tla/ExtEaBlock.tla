----------------------------- MODULE ExtEaBlock -----------------------------
(***************************************************************************)
(* The extended-attribute block ext2fs_istat prints (ext2fs.c 1729-1905): *)
(* the entry list from the top of the block, each entry's checks, its     *)
(* name, and its value as a string or as a POSIX ACL.  A block is a       *)
(* function from byte offsets to bytes, 0 wherever it is not defined; bs  *)
(* is the block's size in bytes.  Multi-byte fields are little-endian; a  *)
(* uint32 is kept as its two 16-bit halves so that sums wrap as in C      *)
(* without leaving TLC's integers.  A read at or past bs is a read past   *)
(* the tsk_malloc'd buffer: the walk records it and stops there, since    *)
(* what follows depends on bytes the image does not hold.                 *)
(***************************************************************************)
EXTENDS Integers, Sequences

(* ext2fs.h, outside this repository, as TSK and Linux lay the block out *)
EaEntryOff  == 32                 \* offsetof(ext2fs_ea_header, entry)
EaEntrySize == 17                 \* sizeof(ext2fs_ea_entry), name byte included
EA_LEN(nlen) == ((nlen + 16 + 3) \div 4) * 4
IDX_USER == 1
IDX_POSIX_ACL_ACCESS == 2
IDX_POSIX_ACL_DEFAULT == 3
IDX_TRUSTED == 4
IDX_SECURITY == 6
PACL_TAG_USER == 2
PACL_TAG_GRP  == 8

Byte(blk, o) == IF o \in DOMAIN blk THEN blk[o] ELSE 0
GetU16(blk, o) == Byte(blk, o) + 256 * Byte(blk, o + 1)
(* tsk_getu32 as [lo, hi] halves *)
GetU32(blk, o) == [lo |-> GetU16(blk, o), hi |-> GetU16(blk, o + 2)]
Zero32 == [lo |-> 0, hi |-> 0]
(* x > n for a uint32 x and 0 <= n < 2^16 *)
U32Gt(x, n) == x.hi > 0 \/ x.lo > n
(* a uint16 plus a uint32, in uint32 arithmetic (1765-1767) *)
AddU16(a, x) ==
  LET s == x.lo + a IN [lo |-> s % 65536, hi |-> (x.hi + s \div 65536) % 65536]

(* strncpy of at most n bytes from o: the bytes up to the first NUL *)
RECURSIVE StrN(_, _, _)
StrN(blk, o, n) ==
  IF n = 0 \/ Byte(blk, o) = 0 THEN <<>> ELSE <<Byte(blk, o)>> \o StrN(blk, o + 1, n - 1)

(* whether that strncpy reads past the block: it reaches bs before a NUL *)
StrReadsPast(bs, blk, o, n) ==
  n > 0 /\ o + n > bs /\ \A j \in o .. bs - 1 : Byte(blk, j) # 0

NoItems == [items |-> <<>>, past |-> FALSE, valpast |-> FALSE]

(* the ACL entries from a while a is below voff + sz, the bound computed *)
(* on pointers (1838-1842), where the uint32 does not wrap; perm is read *)
(* for make_acl_str before the tag's switch (1848-1891), the id only for *)
(* USER and GRP, whose entries are 8 bytes long                          *)
RECURSIVE AclWalk(_, _, _, _, _)
AclWalk(bs, blk, a, voff, sz) ==
  IF ~(sz.hi > 0 \/ a < voff + sz.lo) THEN [acl |-> <<>>, past |-> FALSE]
  ELSE IF a + 4 > bs THEN [acl |-> <<>>, past |-> TRUE]
  ELSE
    LET tag  == GetU16(blk, a)
        long == tag \in {PACL_TAG_USER, PACL_TAG_GRP}
    IN IF long /\ a + 8 > bs THEN [acl |-> <<>>, past |-> TRUE]
       ELSE LET e    == [tag |-> tag, perm |-> GetU16(blk, a + 2),
                         id |-> IF long THEN GetU32(blk, a + 4) ELSE Zero32]
                rest == AclWalk(bs, blk, a + (IF long THEN 8 ELSE 4), voff, sz)
            IN [rest EXCEPT !.acl = <<e>> \o @]

Item(kind, idx, name, val, acl) ==
  [kind |-> kind, idx |-> idx, name |-> name, val |-> val, acl |-> acl]

(* mutant: the next entry without the 4-byte rounding *)
EaNext_unrounded(e, nlen) == e + 16 + nlen

(* the for loop's advance (1743-1745) *)
EaNext(e, nlen) == e + EA_LEN(nlen)

(* the for loop over the entries from offset e (1738-1902) *)
RECURSIVE EaWalk(_, _, _)
EaWalk(bs, blk, e) ==
  LET nlen == Byte(blk, e)
      nidx == Byte(blk, e + 1)
      voff == GetU16(blk, e + 2)
      size == GetU32(blk, e + 8)
      next == EaWalk(bs, blk, EaNext(e, nlen))
      Then(it, r) == [r EXCEPT !.items = <<it>> \o @]
      Past(its) == [NoItems EXCEPT !.items = its, !.past = TRUE]
  IN
  IF e >= bs - EaEntrySize THEN NoItems
  ELSE IF nlen = 0 /\ nidx = 0 /\ voff = 0 THEN NoItems
  ELSE IF GetU32(blk, e + 4) # Zero32
    THEN Then(Item("skipped", nidx, <<>>, <<>>, <<>>), next)
  (* the value check reads val_off with tsk_getu32, val_blk's low half *)
  ELSE IF U32Gt(GetU32(blk, e + 2), bs) \/ U32Gt(AddU16(voff, size), bs) THEN next
  ELSE IF StrReadsPast(bs, blk, e + 16, nlen) THEN Past(<<>>)
  ELSE IF nidx \in {IDX_USER, IDX_TRUSTED, IDX_SECURITY} THEN
    LET n == IF U32Gt(size, 256) THEN 256 ELSE size.lo IN
    IF StrReadsPast(bs, blk, voff, n) THEN Past(<<>>)
    ELSE LET r == Then(Item("xattr", nidx, StrN(blk, e + 16, nlen),
                            StrN(blk, voff, n), <<>>), next)
         (* val[n] = '\0' with char val[256] *)
         IN [r EXCEPT !.valpast = @ \/ n >= 256]
  ELSE IF nidx \in {IDX_POSIX_ACL_ACCESS, IDX_POSIX_ACL_DEFAULT} THEN
    (* the header's version (1820-1829) *)
    IF voff + 4 > bs THEN Past(<<>>)
    ELSE IF GetU32(blk, voff) # [lo |-> 1, hi |-> 0]
      THEN Then(Item("badacl", nidx, <<>>, <<>>, <<>>), next)
    ELSE LET w == AclWalk(bs, blk, voff + 4, voff, size) IN
         IF w.past THEN Past(<<Item("acl", nidx, <<>>, <<>>, w.acl)>>)
         ELSE Then(Item("acl", nidx, <<>>, <<>>, w.acl), next)
  ELSE Then(Item("unsupported", nidx, <<>>, <<>>, <<>>), next)

(* what istat prints of block blk of bs bytes *)
EaListing(bs, blk) == EaWalk(bs, blk, EaEntryOff)

(***************************************************************************)
(* Reference: a block written the way Linux ext2/ext3 writes one.  An     *)
(* attribute is [idx, name, val, acl]: a name of non-NUL bytes, and a     *)
(* value of non-NUL bytes or, for the ACL indexes, a list of ACL entries  *)
(* [tag, perm, id].  Entries are packed from offset 32, values down from  *)
(* offset 1024 (the end of the smallest block), each to 4 bytes; four     *)
(* zero bytes end the list.                                               *)
(***************************************************************************)
IsAcl(a) == a.idx \in {IDX_POSIX_ACL_ACCESS, IDX_POSIX_ACL_DEFAULT}
LE(v, k) == [j \in 1 .. k |-> (v \div (256 ^ (j - 1))) % 256]
AclEntryBytes(x) ==
  IF x.tag \in {PACL_TAG_USER, PACL_TAG_GRP}
  THEN LE(x.tag, 2) \o LE(x.perm, 2) \o LE(x.id, 4)
  ELSE LE(x.tag, 2) \o LE(x.perm, 2)
RECURSIVE AclBytes(_)
AclBytes(s) == IF s = <<>> THEN <<>> ELSE AclEntryBytes(Head(s)) \o AclBytes(Tail(s))
ValueBytes(a) == IF IsAcl(a) THEN LE(1, 4) \o AclBytes(a.acl) ELSE a.val
Round4(n) == ((n + 3) \div 4) * 4

RECURSIVE EntryAt(_, _)
EntryAt(attrs, k) ==
  IF k = 1 THEN EaEntryOff ELSE EntryAt(attrs, k - 1) + EA_LEN(Len(attrs[k - 1].name))
RECURSIVE ValueAt(_, _)
ValueAt(attrs, k) ==
  (IF k = 1 THEN 1024 ELSE ValueAt(attrs, k - 1)) - Round4(Len(ValueBytes(attrs[k])))

(* the <<offset, byte>> pairs of the encoded block *)
EncodedPairs(attrs) ==
  LET Seg(o, s) == {<<o + j - 1, s[j]>> : j \in 1 .. Len(s)}
      Ent(k) == LET a == attrs[k] IN
        Seg(EntryAt(attrs, k),
            <<Len(a.name), a.idx>> \o LE(ValueAt(attrs, k), 2) \o LE(0, 4)
            \o LE(Len(ValueBytes(a)), 4) \o LE(0, 4) \o a.name)
        \cup Seg(ValueAt(attrs, k), ValueBytes(a))
  IN Seg(0, <<0, 0, 2, 234>>) \cup UNION {Ent(k) : k \in 1 .. Len(attrs)}

EaEncode(attrs) ==
  LET P == EncodedPairs(attrs) IN
  [o \in {p[1] : p \in P} |-> (CHOOSE p \in P : p[1] = o)[2]]

(* what istat should list for attrs *)
EaExpected(attrs) ==
  [k \in 1 .. Len(attrs) |->
     LET a == attrs[k] IN
     IF IsAcl(a)
     THEN Item("acl", a.idx, <<>>, <<>>,
               [j \in 1 .. Len(a.acl) |->
                  [tag |-> a.acl[j].tag, perm |-> a.acl[j].perm,
                   id |-> IF a.acl[j].tag \in {PACL_TAG_USER, PACL_TAG_GRP}
                          THEN [lo |-> a.acl[j].id, hi |-> 0] ELSE Zero32]])
     ELSE IF a.idx \in {IDX_USER, IDX_TRUSTED, IDX_SECURITY}
     THEN Item("xattr", a.idx, a.name, a.val, <<>>)
     ELSE Item("unsupported", a.idx, <<>>, <<>>, <<>>)]
=============================================================================
