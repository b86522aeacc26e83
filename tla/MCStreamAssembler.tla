------------------------- MODULE MCStreamAssembler -------------------------
(***************************************************************************)
(* StreamAssembler for TLC: lines of three bytes, reads of up to four bytes  *)
(* and every stream of up to MaxStream bytes, cut in every way.            *)
(***************************************************************************)
EXTENDS StreamAssembler
=============================================================================
