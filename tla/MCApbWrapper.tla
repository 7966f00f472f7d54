---------------------------- MODULE MCApbWrapper ----------------------------
(* Command codes of the runs of ApbWrapper: a page read, and two commands *)
(* that take one clock, one that uses data_in and one that gives a byte.  *)
EXTENDS ApbWrapper
MCOperations == {6}
MCRegisters == {16, 17}
=============================================================================
