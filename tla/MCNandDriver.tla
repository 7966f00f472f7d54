----------------------------- MODULE MCNandDriver -----------------------------
(* The pages, the calls and the answers of the chips for the runs of NandDriver. *)
EXTENDS NandDriver

\* Rows that differ in every field, and in the bits at its ends.
MCRows == {<<0, 127, 256>>, <<1, 0, 255>>}

\* Each byte tells the call that wrote it and its place.
MCHostByte == [n \in 1..9 |-> [k \in 1..9 |-> 16 * n + k]]

MCId        == [c \in {1, 2} |-> [i \in 1..5 |-> 200 + 10 * c + i]]
MCParamPage == [c \in {1, 2} |-> [i \in 1..ParamBytes |-> 230 + 10 * c + i]]

\* Writes that end at the end of the page, reads of the whole page and of its end.
MCWrites == {<<0, 3>>, <<1, 2>>}
MCReads  == {<<0, 3>>, <<2, 1>>}
\* A write of one byte at the start of the page.
MCShortWrites == {<<0, 3>>, <<0, 1>>}
==============================================================================
