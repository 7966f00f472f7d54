------------------------------ MODULE PageStore ------------------------------
(***************************************************************************)
(* What nand.h promises: two chips with pages, and calls that read a page, *)
(* write a page or identify a chip. There is no controller, no index, no   *)
(* buffer and no command here. A call changes the page it names, once, and *)
(* no other; what it returns is what the chip it names holds.              *)
(***************************************************************************)
EXTENDS Integers, Sequences

CONSTANTS Chip, Row, PageBytes, Calls, Id, ParamPage, X, Erased, NoCall
VARIABLES
  pages,      \* chip, row -> the bytes of the page
  call,       \* the call in progress
  pending,    \* whether it still has a page to write
  answer      \* what the last call returned

Programmed(old, byte) ==
  IF old = Erased \/ old = byte THEN byte ELSE IF byte = Erased THEN old ELSE X

\* The page a write leaves: the bytes of data from the column on.
Written(page, c) ==
  [i \in 1..PageBytes |-> IF i - c.column \in 1..c.size
                            THEN Programmed(page[i], c.data[i - c.column]) ELSE page[i]]

Answer(c) ==
  CASE c.op = "jedec" -> Id[c.chip]
    [] c.op = "param" -> ParamPage[c.chip]
    [] c.op = "read"  -> [i \in 1..c.size |-> pages[c.chip][c.row][c.column + i]]
    [] OTHER          -> <<>>

-----------------------------------------------------------------------------
Init ==
  /\ pages = [c \in Chip |-> [r \in Row |-> [i \in 1..PageBytes |-> Erased]]]
  /\ call = NoCall /\ pending = FALSE /\ answer = <<>>

Begin ==
  /\ call = NoCall /\ call' \in Calls
  /\ pending' = (call'.op = "write")
  /\ UNCHANGED <<pages, answer>>

Write ==
  /\ pending /\ pending' = FALSE
  /\ pages' = [pages EXCEPT ![call.chip][call.row] = Written(@, call)]
  /\ UNCHANGED <<call, answer>>

Return ==
  /\ call # NoCall /\ ~pending
  /\ call' = NoCall /\ answer' = Answer(call)
  /\ UNCHANGED <<pages, pending>>

\* A reset ends the call; a write it cuts short leaves bytes that cannot be relied on.
Crash ==
  /\ call' = NoCall /\ pending' = FALSE /\ answer' = <<>>
  /\ \/ UNCHANGED pages
     \/ /\ pending
        /\ pages' = [pages EXCEPT ![call.chip][call.row] =
                       [i \in 1..PageBytes |-> IF Written(@, call)[i] = @[i] THEN @[i] ELSE X]]

Next == Begin \/ Write \/ Return \/ Crash
Spec == Init /\ [][Next]_<<pages, call, pending, answer>>
=============================================================================
