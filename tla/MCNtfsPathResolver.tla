------------------------ MODULE MCNtfsPathResolver -------------------------
(***************************************************************************)
(* The root (5), two directories (20, 21) and the target file (22).  The  *)
(* names have one or two characters and the orphan prefix two.  The name  *)
(* lists cover a file named in the root and in a directory, a chain of    *)
(* two directories, a directory with two names (one in the root), a       *)
(* parent that is a file, a parent whose sequence number moved on, and a  *)
(* parent reference outside the MFT.  MCMftsCyclic adds a parent loop     *)
(* 21 -> 20 -> 21.                                                        *)
(***************************************************************************)
EXTENDS NtfsPathResolver

E(name, par, pseq) == [name |-> name, par |-> par, pseq |-> pseq]

MCNameLen == [n \in {".", "a", "b", "c"} |-> IF n = "b" THEN 2 ELSE 1]

Names20 == {<<E("c", 5, 5)>>, <<E("c", 5, 5), E("a", 5, 5)>>}
Names21 == {<<E("b", 20, 1)>>, <<E("b", 20, 1), E("c", 5, 5)>>, <<E("b", 22, 1)>>}
Names22 == {<<E("a", 21, 1)>>, <<E("a", 5, 5), E("a", 21, 1)>>, <<E("a", 20, 2)>>,
            <<E("a", 99, 1)>>, <<E("a", 21, 1), E("c", 20, 1)>>}

Table(n20, n21, n22) ==
  [i \in {5, 20, 21, 22} |->
     CASE i = 5  -> [dir |-> TRUE,  seq |-> 5, name2 |-> <<E(".", 5, 5)>>]
       [] i = 20 -> [dir |-> TRUE,  seq |-> 1, name2 |-> n20]
       [] i = 21 -> [dir |-> TRUE,  seq |-> 1, name2 |-> n21]
       [] i = 22 -> [dir |-> FALSE, seq |-> 1, name2 |-> n22]]

MCMfts == {Table(x, y, z) : x \in Names20, y \in Names21, z \in Names22}

MCMftsCyclic == {Table(<<E("c", 21, 1)>>, <<E("b", 20, 1)>>, <<E("a", 21, 1)>>)}
====
