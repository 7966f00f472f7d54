---------------------------- MODULE MCSysServices ----------------------------
(* A bitstream of two pages, the first of them longer than the FIFO. *)
EXTENDS SysServices
MCPages == <<<<1, 2, 3, 4>>, <<5>>>>
MCAddress == <<0, 5, 0, 32>>
MCEvents == {160, 224}
MCAddressOf241 == <<0, 241, 0, 32>>
==============================================================================
