------------------------- MODULE MCPackageInstaller -------------------------
(* Two packages that share a file.  Version 2 of "a" has given it up, has  *)
(* a new file instead and requires "b"; version 3 has the shared file      *)
(* again.  "b" has got one version only (FewReleases, a state constraint). *)
EXTENDS PackageInstaller, TLC

MCPackage == {"a", "b"}

MCFile == {"a.sty", "a.cfg", "b.sty", "shared.tex"}

MCContents ==
  [p \in MCPackage |-> [v \in 1..3 |->
     CASE p = "a" /\ v # 2 -> {"a.sty", "shared.tex"}
       [] p = "a" /\ v = 2 -> {"a.sty", "a.cfg"}
       [] p = "b"          -> {"b.sty", "shared.tex"}]]

MCRequires == [p \in MCPackage |-> [v \in 1..3 |-> IF p = "a" /\ v = 2 THEN {"b"} ELSE {}]]

FewReleases == newest["b"] = 1

Symmetry == Permutations(Process)
=============================================================================
