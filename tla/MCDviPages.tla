----------------------------- MODULE MCDviPages -----------------------------
(* A document that TeX writes once again while it is shown; it gets shorter. *)
EXTENDS DviPages, TLC

MCPageCount == 0 :> 2 @@ 1 :> 1

=============================================================================
