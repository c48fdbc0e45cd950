------------------------- MODULE MCCompressedStream -------------------------
(* Instance for TLC: the buffer holds fewer bytes than a file, so that it   *)
(* fills up, runs empty and is used around its end.                         *)
EXTENDS CompressedStream

MCKind == {"good", "corrupt", "truncated"}
MCGoodOnly == {"good"}
=============================================================================
