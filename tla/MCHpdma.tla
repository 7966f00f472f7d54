------------------------------- MODULE MCHpdma -------------------------------
(* Sizes below, at and above the four descriptors, and twice as many. *)
EXTENDS Hpdma
MCSizes == {1, 3, 4, 5, 8}
MCLong == {9}
MCErrors == {"SOURCE_ERROR", "DESTINATION_ERROR", "WORD_ALIGN_ERROR"}
MCCompleted == {"COMPLETED"}
==============================================================================
