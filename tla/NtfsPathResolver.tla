------------------------- MODULE NtfsPathResolver --------------------------
(***************************************************************************)
(* ntfs_find_file and ntfs_find_file_rec (ntfs_dent.c 1150-1453): the     *)
(* paths of one MFT entry, found by following the parent reference of     *)
(* each of its $FILE_NAMEs up to the root.  The path is built in          *)
(* dinfo.dirs from the right: dinfo.didx[d] is where level d starts and    *)
(* dinfo.depth the next free level.                                       *)
(*                                                                         *)
(* The recursion of ntfs_find_file_rec is an explicit call stack: a frame *)
(* per active call holds the name entry it resolves (fs_name_list), the   *)
(* position k in its parent's name list (fs_name_list_par) and decrem.    *)
(* A character of dirs is a cell <<name, i>>, the i-th character of a     *)
(* name; "/" and the terminating NUL are cells of their own.  A pointer   *)
(* is a position of dirs, NULL, or WILD: an address outside dirs.         *)
(***************************************************************************)
EXTENDS Naturals, Sequences, SequencesExt, FiniteSets

CONSTANTS
  Inums,         \* fs->first_inum .. fs->last_inum
  RootIno,       \* NTFS_ROOTINO
  BadInum,       \* a parent reference outside Inums
  Target,        \* inode_toid
  Mfts,          \* the MFT tables the file system may hold (see below)
  NameLen,       \* strlen of each name
  OrphLen,       \* strlen(TSK_FS_ORPHAN_STR)
  MaxDepth,      \* MAX_DEPTH
  DirStrSz,      \* DIR_STRSZ
  StackBound,    \* ntfs_find_file_rec frames the C stack holds
  CbResults,     \* what the action callback may return
  OpenMayFail,   \* tsk_fs_file_open_meta may fail (read error)
  MallocMayFail  \* tsk_fs_name_alloc may fail

(* An MFT table maps an entry to [dir, seq, name2]: whether its type is   *)
(* TSK_FS_META_TYPE_DIR, its sequence number, and its $FILE_NAMEs, each   *)
(* [name, par, pseq] (name, par_inode, par_seq).                          *)
ASSUME /\ RootIno \in Inums /\ BadInum \notin Inums /\ Target \in Inums
       /\ CbResults \subseteq {"CONT", "STOP", "ERROR"}
       /\ MaxDepth \in Nat \ {0} /\ DirStrSz >= 2

NULL == -1
WILD == -2
Positions == 0 .. DirStrSz - 1
Slash == <<"/", 0>>
Nul == <<"nul", 0>>
Chars(n) == [i \in 1 .. NameLen[n] |-> <<n, i>>]
OrphanStr == [i \in 1 .. OrphLen |-> <<"$orphan", i>>]

VARIABLES
  mft,      \* the MFT table
  pc,       \* "start", "top", "rec", "loop", "ret", "done" or "overflow"
  tk,       \* position of fs_name_list in the target's name2 (1414)
  stack,    \* the active ntfs_find_file_rec calls, outermost first
  rv,       \* the value the innermost returned call returns
  depth,    \* dinfo.depth
  didx,     \* dinfo.didx
  dirs,     \* dinfo.dirs
  handles,  \* TSK_FS_FILEs opened and not yet closed
  cb,       \* the last callback: [ptr, path, want, late]
  stopped,  \* a callback has returned TSK_WALK_STOP
  ret       \* what ntfs_find_file returned

vars == <<mft, pc, tk, stack, rv, depth, didx, dirs, handles, cb, stopped, ret>>

(* The string a pointer shows the callback: ds from p up to the NUL.      *)
ReadStr(ds, p) ==
  LET e == CHOOSE q \in p .. DirStrSz - 1 :
             ds[q] = Nul /\ \A o \in p .. q - 1 : ds[o] # Nul
  IN  [i \in 1 .. e - p |-> ds[p + i - 1]]

(* begin[i] = str[i] for each cell of str                                 *)
WriteAt(p, str) ==
  [q \in Positions |-> IF q >= p /\ q < p + Len(str) THEN str[q - p + 1] ELSE dirs[q]]

(* The name of the parent that frame i of s is at in its loop             *)
FrameName(s, i) == mft[s[i].nl.par].name2[s[i].k].name

(* The path the callback should see from frame n: the name of each       *)
(* directory on the chain of parents, the nearest last, each followed by  *)
(* "/".                                                                   *)
ChainPath(s, n) ==
  FlattenSeq([j \in 1 .. n |-> Chars(FrameName(s, n - j + 1)) \o <<Slash>>])

(* dinfo->didx[d]; at MAX_DEPTH it reads past the array                   *)
DidxAt(d) == IF d < MaxDepth THEN didx[d] ELSE WILD
Plus1(p) == IF p >= 0 THEN p + 1 ELSE WILD

(* action(fs_file, path, ptr) returns r; want is the path it should see    *)
Deliver(ds, ptr, want, r) ==
  /\ cb' = [ptr  |-> IF ptr >= 0 THEN "ok" ELSE IF ptr = NULL THEN "NULL" ELSE "WILD",
            path |-> IF ptr >= 0 THEN ReadStr(ds, ptr) ELSE <<>>,
            want |-> want, late |-> stopped]
  /\ stopped' = (stopped \/ r = "STOP")

(* A call of ntfs_find_file_rec from the frames s; a full C stack         *)
(* overflows.                                                             *)
Call(s, nl) ==
  IF Len(s) = StackBound
  THEN /\ pc' = "overflow" /\ stack' = s
  ELSE /\ stack' = Append(s, [nl |-> nl, k |-> 0, decrem |-> FALSE])
       /\ pc' = "rec"

(* the innermost call of s returns r                                      *)
Return(s, r) == /\ stack' = Front(s) /\ pc' = "ret" /\ rv' = r

OpenOutcomes == IF OpenMayFail THEN {"ok", "fail"} ELSE {"ok"}

(* how ntfs_find_file gets past opening the target: "filtered" is the     *)
(* allocation-flag check (1345-1355) or a missing attribute (1397-1406)   *)
StartOutcomes == {"ok", "filtered"} \cup (IF MallocMayFail THEN {"nomem"} ELSE {})

Init ==
  /\ mft \in Mfts
  /\ pc = "start" /\ tk = 0 /\ stack = <<>> /\ rv = 0 /\ depth = 0
  /\ didx = [d \in 0 .. MaxDepth - 1 |-> NULL]
  /\ dirs = [q \in Positions |-> Nul]
  /\ handles = 0
  /\ cb = [ptr |-> "ok", path |-> <<>>, want |-> <<>>, late |-> FALSE]
  /\ stopped = FALSE /\ ret = -1

(* The target cannot be opened (1336-1343); the close of the NULL handle *)
(* closes nothing.                                                        *)
TargetOpenFails_close ==
  /\ ret' = 1 /\ pc' = "done" /\ handles' = handles - 1
  /\ UNCHANGED <<tk, depth, didx, dirs>>
TargetOpenFails ==
  /\ ret' = 1 /\ pc' = "done" /\ UNCHANGED <<handles, tk, depth, didx, dirs>>

(* ntfs_find_file up to the name loop (1326-1411): open the target, check *)
(* it, allocate its name (a failure returns without closing it), set up   *)
(* dinfo.                                                                 *)
Start ==
  /\ pc = "start"
  /\ \E o \in OpenOutcomes, s \in StartOutcomes :
       CASE o = "fail" -> TargetOpenFails
         [] s = "filtered" -> /\ ret' = 1 /\ pc' = "done" /\ UNCHANGED <<handles, tk, depth, didx, dirs>>
         [] s = "nomem" -> /\ ret' = 1 /\ pc' = "done" /\ handles' = 1
                           /\ UNCHANGED <<tk, depth, didx, dirs>>
         [] OTHER -> /\ pc' = "top" /\ tk' = 1 /\ handles' = 1 /\ depth' = 1
                     /\ didx' = [didx EXCEPT ![0] = DirStrSz - 2]
                     /\ dirs' = [dirs EXCEPT ![DirStrSz - 2] = Slash] /\ ret' = ret
  /\ UNCHANGED <<mft, stack, rv, cb, stopped>>

(* One pass of the name loop of ntfs_find_file (1413-1452).               *)
Top ==
  /\ pc = "top"
  /\ LET ns == mft[Target].name2 IN
     IF tk > Len(ns)
     THEN /\ handles' = handles - 1 /\ ret' = 0 /\ pc' = "done"
          /\ UNCHANGED <<tk, stack, cb, stopped>>
     ELSE IF ns[tk].par = RootIno
     THEN \E r \in CbResults :
            /\ Deliver(dirs, didx[0], <<Slash>>, r)
            /\ CASE r = "STOP"  -> /\ handles' = handles - 1 /\ ret' = 0 /\ pc' = "done" /\ tk' = tk
                 [] r = "ERROR" -> /\ handles' = handles - 1 /\ ret' = 1 /\ pc' = "done" /\ tk' = tk
                 [] OTHER       -> /\ tk' = tk + 1 /\ UNCHANGED <<handles, ret, pc>>
            /\ UNCHANGED stack
     ELSE /\ Call(stack, ns[tk]) /\ UNCHANGED <<tk, handles, ret, cb, stopped>>
  /\ UNCHANGED <<mft, rv, depth, didx, dirs>>
(* The body of ntfs_find_file_rec up to its name loop (1189-1240): check *)
(* and open the parent; a parent that is not a directory or has another  *)
(* sequence number makes the file an orphan, reported under              *)
(* TSK_FS_ORPHAN_STR if that fits (else with a NULL path) and the call    *)
(* returns 1 only if the callback returned TSK_WALK_ERROR.               *)
Enter ==
  /\ pc = "rec"
  /\ LET n  == Len(stack)
         nl == stack[n].nl
         P  == mft[nl.par]
         fits  == didx[depth - 1] - OrphLen >= 0 /\ depth < MaxDepth
         begin == IF fits THEN didx[depth - 1] - OrphLen ELSE NULL
         ds    == IF fits THEN WriteAt(begin, OrphanStr) ELSE dirs
     IN
     IF nl.par \notin Inums
     THEN /\ Return(stack, 1) /\ UNCHANGED <<handles, didx, dirs, cb, stopped>>
     ELSE \E o \in OpenOutcomes :
       IF o = "fail"
       THEN /\ Return(stack, 1) /\ UNCHANGED <<handles, didx, dirs, cb, stopped>>
       ELSE IF ~P.dir \/ P.seq # nl.pseq
       THEN \E r \in CbResults :
              /\ didx' = IF fits THEN [didx EXCEPT ![depth] = begin] ELSE didx
              /\ dirs' = ds
              /\ Deliver(ds, begin, OrphanStr \o <<Slash>> \o ChainPath(stack, n - 1), r)
              /\ Return(stack, IF r = "ERROR" THEN 1 ELSE 0)
              /\ UNCHANGED handles
       ELSE /\ handles' = handles + 1
            /\ stack' = [stack EXCEPT ![n].k = 1]
            /\ pc' = "loop"
            /\ UNCHANGED <<rv, didx, dirs, cb, stopped>>
  /\ UNCHANGED <<mft, tk, depth, ret>>

(* One pass of the name loop of ntfs_find_file_rec (1242-1301): prepend   *)
(* "/name" if the depth limit and the space left allow it, else reuse    *)
(* didx[depth] as the start; then call back at the root or recurse.      *)
(* Past the last name the parent is closed and the call returns 0.       *)
Loop ==
  /\ pc = "loop"
  /\ LET n  == Len(stack)
         f  == stack[n]
         P  == mft[f.nl.par]
     IN
     IF f.k > Len(P.name2)
     THEN /\ handles' = handles - 1 /\ Return(stack, 0)
          /\ UNCHANGED <<depth, didx, dirs, cb, stopped>>
     ELSE
     LET np    == P.name2[f.k]
         len   == NameLen[np.name]
         fits  == didx[depth - 1] - len - 1 >= 0 /\ depth < MaxDepth
         begin == IF fits THEN didx[depth - 1] - len - 1 ELSE DidxAt(depth)
         ds    == IF fits THEN WriteAt(begin, <<Slash>> \o Chars(np.name)) ELSE dirs
         s1    == [stack EXCEPT ![n].decrem = fits]
         d1    == IF fits THEN depth + 1 ELSE depth
     IN
     /\ didx' = IF fits THEN [didx EXCEPT ![depth] = begin] ELSE didx
     /\ dirs' = ds
     /\ IF np.par = RootIno
        THEN \E r \in CbResults :
               /\ Deliver(ds, Plus1(begin), ChainPath(s1, n), r)
               /\ IF r = "ERROR"
                  THEN /\ handles' = handles - 1 /\ Return(s1, 1) /\ depth' = d1
                  ELSE /\ stack' = [s1 EXCEPT ![n].k = f.k + 1] /\ depth' = depth
                       /\ UNCHANGED <<handles, pc, rv>>
        ELSE /\ Call(s1, np) /\ depth' = d1
             /\ UNCHANGED <<handles, rv, cb, stopped>>
  /\ UNCHANGED <<mft, tk, ret>>

(* A call returned 1 to the frame below: close its parent and return 1 *)
(* (1287-1291).                                                          *)
Unwind_no_close == /\ UNCHANGED handles /\ Return(stack, 1)
Unwind == /\ handles' = handles - 1 /\ Return(stack, 1)

(* A call returned 0 to the frame below: undo its depth increment and   *)
(* go on with the next name (1294-1296, 1244).                            *)
Resume_no_decrem ==
  /\ depth' = depth
  /\ stack' = [stack EXCEPT ![Len(stack)].k = @ + 1]
  /\ pc' = "loop"
Resume_no_advance ==
  /\ depth' = IF stack[Len(stack)].decrem THEN depth - 1 ELSE depth
  /\ pc' = "loop" /\ UNCHANGED stack
Resume ==
  /\ depth' = IF stack[Len(stack)].decrem THEN depth - 1 ELSE depth
  /\ stack' = [stack EXCEPT ![Len(stack)].k = @ + 1]
  /\ pc' = "loop"

(* What the caller does with the value rv a call returned: a frame of   *)
(* ntfs_find_file_rec unwinds or resumes; ntfs_find_file (1443-1447)    *)
(* closes the target and returns 1, or goes on with its next name.      *)
Ret ==
  /\ pc = "ret"
  /\ IF stack = <<>>
     THEN IF rv = 1
          THEN /\ handles' = handles - 1 /\ ret' = 1 /\ pc' = "done"
               /\ UNCHANGED <<tk, stack, rv, depth>>
          ELSE /\ tk' = tk + 1 /\ pc' = "top" /\ UNCHANGED <<handles, ret, stack, rv, depth>>
     ELSE IF rv = 1
          THEN /\ Unwind /\ UNCHANGED <<tk, ret, depth>>
          ELSE /\ Resume /\ UNCHANGED <<handles, tk, ret, rv>>
  /\ UNCHANGED <<mft, didx, dirs, cb, stopped>>

(* ntfs_find_file has returned, or the process died of a stack overflow *)
Finished == pc \in {"done", "overflow"} /\ UNCHANGED vars

Next == Start \/ Top \/ Enter \/ Loop \/ Ret \/ Finished

(* The code runs one step after another with nothing to wait on; the    *)
(* callback is taken to return.                                          *)
Spec == Init /\ [][Next]_vars /\ WF_vars(Next)

-----------------------------------------------------------------------------
TypeOK ==
  /\ pc \in {"start", "top", "rec", "loop", "ret", "done", "overflow"}
  /\ depth \in 0 .. MaxDepth /\ rv \in {0, 1} /\ ret \in {-1, 0, 1}
  /\ didx \in [0 .. MaxDepth - 1 -> Positions \cup {NULL}]
  /\ handles \in 0 .. StackBound + 1
  /\ Len(stack) <= StackBound
  /\ cb.ptr \in {"ok", "NULL", "WILD"} /\ stopped \in BOOLEAN

(* Every path handed to the callback, by ntfs_find_file (1431) or by    *)
(* ntfs_find_file_rec at the root (1278) or for an orphan (1233), is a  *)
(* valid pointer to the names of the directories on the chain of parent *)
(* references, each followed by "/", below the orphan prefix for an     *)
(* orphan.  It fails if a level reuses a stale didx entry (1264-1267),  *)
(* or leaves the depth wrong after a name.                              *)
PathIsChain == cb.ptr = "ok" /\ cb.path = cb.want

(* No callback is made after one returned TSK_WALK_STOP: ntfs_find_file *)
(* returns at once (1432-1435), but ntfs_find_file_rec looks only for   *)
(* TSK_WALK_ERROR (1278, 1239).                                          *)
StopEndsWalk == ~cb.late

(* When ntfs_find_file has returned, every TSK_FS_FILE it or            *)
(* ntfs_find_file_rec opened, the target and each parent, is closed, on *)
(* the error returns as well.                                           *)
FilesClosedOnReturn == pc = "done" => handles = 0

(* ntfs_find_file returns: the recursion on parent references ends.     *)
Termination == <>(pc = "done")
====
