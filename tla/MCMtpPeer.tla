----------------------------- MODULE MCMtpPeer -----------------------------
(****************************************************************************)
(* Peer ids and addresses are only compared, so TLC may permute them.       *)
(****************************************************************************)
EXTENDS MtpPeer, TLC

Symmetry == Permutations(Id) \union Permutations(Address)
=============================================================================
