------------------------------ MODULE MCTexify ------------------------------
(* Instance for TLC: one key and one index entry, any number of edits and   *)
(* calls.                                                                   *)
EXTENDS Texify

CONSTANT key, entry
=============================================================================
