----------------------------- MODULE MCLockFile -----------------------------
(* Instance for TLC: two programs of the same name and one of another name  *)
(* and another user that cannot write to the directory of the lock file but *)
(* can inherit a pid; one lock object each.                                 *)
EXTENDS LockFile, TLC

CONSTANTS p1, p2, p3, o1, o2, o3, mpm, other

MCProcess == {p1, p2, p3}
MCLockObject == {o1, o2, o3}
MCProcessOf == (o1 :> p1) @@ (o2 :> p2) @@ (o3 :> p3)
MCName == {mpm, other}
MCNameOf == (p1 :> mpm) @@ (p2 :> other) @@ (p3 :> mpm)
MCPid == {1, 2}

\* p2 is of another user; p1 cannot see what p3 is, nor p2 what p1 is.
MCMaySignal == {<<p1, p3>>, <<p3, p1>>}
MCMayRead == {<<p2, p3>>, <<p3, p1>>, <<p1, p2>>, <<p3, p2>>}
=============================================================================
