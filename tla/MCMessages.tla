---------------------------- MODULE MCMessages ----------------------------
(* Bytes of one bit: a field of four bytes has 16 values. *)
EXTENDS Messages

MCShorts  == {1, 2}                          \* differ in both bytes
MCInts    == {-8, -3, 6}                     \* the smallest int, -3 and 6
MCSizes   == {13}
MCStrings == {<<>>, <<1>>, <<1, 0>>, <<0, 1, 1>>}
=============================================================================
