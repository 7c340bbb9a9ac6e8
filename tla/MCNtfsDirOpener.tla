-------------------------- MODULE MCNtfsDirOpener --------------------------
(***************************************************************************)
(* Two directories (the root, 5, and 6) and three orphans, each with up to *)
(* two $FILE_NAMEs.  A name list <<5, 5>> is a long and a DOS name in the  *)
(* same directory.  An addrs buffer of one slot lets a second orphan under *)
(* one parent take ntfs_orphan_map_extend.  The directory shapes are one   *)
(* per way an open can end: a clean entry with and without                *)
(* $INDEX_ALLOCATION (the first with two names, so two ".."), and one for  *)
(* each corruption return before the orphans.                              *)
(***************************************************************************)
EXTENDS NtfsDirOpener

MCNameLists == {<<>>, <<5>>, <<6>>, <<5, 6>>, <<6, 5>>, <<5, 5>>}

Shape(front, pars, offs, alloc, child) ==
  [front |-> front, pars |-> pars, offs |-> offs, alloc |-> alloc, child |-> child]

MCDirShapes ==
  { Shape("ok",  <<5, 5>>, TRUE,  "nonres", TRUE),
    Shape("ok",  <<5>>,    TRUE,  "none",   FALSE),
    Shape("cor", <<5>>,    TRUE,  "none",   FALSE),
    Shape("ok",  <<5>>,    FALSE, "none",   FALSE),
    Shape("ok",  <<5>>,    TRUE,  "none",   TRUE),
    Shape("ok",  <<5>>,    TRUE,  "res",    FALSE) }
=============================================================================
