----------------------------- MODULE OrphanMap -----------------------------
(***************************************************************************)
(* What the NTFS orphan map promises (spec §3, §4.8): a map from a parent  *)
(* directory to the orphans whose $FILE_NAME attributes name it, in the    *)
(* order the orphans were recorded, one occurrence per such name.          *)
(* Recording an orphan adds it under the parent of each of its names at    *)
(* once.  Closing the handle frees the whole map.                          *)
(***************************************************************************)
EXTENDS Naturals, Sequences, FiniteSets

CONSTANTS
  Parents,      \* directories an orphan's names may point to
  Children,     \* the orphans
  NameLists     \* the parent lists an orphan's names may have

VARIABLE children       \* children[p]: the orphans recorded under parent p

Init == children = [p \in Parents |-> <<>>]

(* the orphan c, whose names have the parents pars, is recorded *)
Record(c, pars) ==
  children' = [p \in Parents |->
                 children[p] \o [k \in 1 .. Cardinality({j \in DOMAIN pars : pars[j] = p})
                                   |-> c]]

(* the handle is closed, which frees the map, and the file system opened *)
(* again: the next directory open that needs the map builds it anew      *)
Reset == children' = [p \in Parents |-> <<>>]

Next == (\E c \in Children, pars \in NameLists : Record(c, pars)) \/ Reset

Spec == Init /\ [][Next]_children
=============================================================================
