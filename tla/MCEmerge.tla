------------------------------ MODULE MCEmerge ------------------------------
(* Blocks and chunks for TLC: two blocks of one chunk, one of another. *)
EXTENDS Emerge

MCChunkOf == [b \in Block |-> IF b = "b3" THEN "c2" ELSE "c1"]
=============================================================================
