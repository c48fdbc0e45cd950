-------------------------- MODULE MCFndbChangeFile --------------------------
(* Instances for TLC: two sessions with two files, or with one file and one *)
(* rebuild more.  Sessions and files are interchangeable.                   *)
EXTENDS FndbChangeFile, TLC

CONSTANTS s1, s2, a, b

MCSession == {s1, s2}
MCPath == {a, b}
MCSinglePath == {a}
MCSymmetry == Permutations(MCSession) \cup Permutations(MCPath)
MCSessionSymmetry == Permutations(MCSession)

\* After a collision nothing is claimed until the next rebuild begins: when no
\* more rebuild can begin, TLC need not look any further.
MCCanRecover ==
  collided => rebuilds < MaxRebuilds \/ \E s \in Session : pc[s] = "scan"
=============================================================================
