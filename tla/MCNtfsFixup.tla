---------------------------- MODULE MCNtfsFixup ----------------------------
EXTENDS NtfsFixup

(* the values a word of the update array or a stale tail may hold *)
MCVals == {"A", "B"}
=============================================================================
