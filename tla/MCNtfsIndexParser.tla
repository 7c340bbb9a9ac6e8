-------------------------- MODULE MCNtfsIndexParser --------------------------
EXTENDS NtfsIndexParser

CONSTANTS n1, n2, n3, n4

(* timestamps divided by 10^9: one in 2005, one in 2020 *)
T2005 == SEC_1970 + 35 * 365 * 24 * 36
T2020 == SEC_2010 + 10 * 365 * 24 * 36

MCEntries ==
  { [name |-> n1, nlen |-> 1, ns |-> "WIN32", child |-> FALSE, fn_ok |-> TRUE, t |-> T2005],
    [name |-> n2, nlen |-> 5, ns |-> "POSIX", child |-> TRUE,  fn_ok |-> TRUE, t |-> T2005],
    [name |-> n3, nlen |-> 1, ns |-> "DOS",   child |-> FALSE, fn_ok |-> TRUE, t |-> T2005],
    [name |-> n4, nlen |-> 2, ns |-> "WIN32", child |-> FALSE, fn_ok |-> TRUE, t |-> T2020] }

(* a header of length 0 that claims a DOS name with plausible fields *)
MCDamaged ==
  { [ref_ok |-> TRUE, idxlen |-> 0, strlen |-> 8, ns |-> "DOS", nlen |-> 1,
     fn_ok |-> TRUE, t |-> T2005, name |-> Junk] }

(* an end entry whose $FILE_NAME claims a 255-character name *)
MCDamagedLong ==
  { [ref_ok |-> TRUE, idxlen |-> 16, strlen |-> 0, ns |-> "WIN32", nlen |-> 255,
     fn_ok |-> TRUE, t |-> T2005, name |-> Junk] }
====
