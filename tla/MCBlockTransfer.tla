---------------------------- MODULE MCBlockTransfer ----------------------------
(* A near and a far block, and a scan that takes one distance at a time.   *)
EXTENDS BlockTransfer

MCOrder == <<"b0", "b1">>
MCDistance == [b0 |-> 0, b1 |-> 2]
=============================================================================
