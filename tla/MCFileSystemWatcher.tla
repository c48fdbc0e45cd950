------------------------ MODULE MCFileSystemWatcher ------------------------
(* Instance for TLC: two subscribers and a kernel queue that can overflow.  *)
(* A session starts its watcher once.                                       *)
EXTENDS FileSystemWatcher

CONSTANTS c1, c2

MCSubscriber == {c1, c2}

\* Once the set of subscribers has been changed in the middle of a traversal
\* anything can happen: TLC need not look any further.
MCDefined == ~ torn
=============================================================================
