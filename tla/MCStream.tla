------------------------------ MODULE MCStream ------------------------------
(* Frames that are empty, fill inbuf, or do not fit; messages of the       *)
(* client of one byte and as long as two chunks.                           *)
EXTENDS Stream

MCSizes == {0, 2, 3}
MCLengths == {1, 4}
=============================================================================
