--------------------------- MODULE MCFileWatcher ---------------------------
(* The instance of FileWatcher for TLC: a folder, a file in it, and a file  *)
(* with two spellings on a filesystem that folds case.                      *)
EXTENDS FileWatcher, TLC

CONSTANTS dir, inside, lower, upper

TreePaths == {dir, inside, lower, upper}
TreeKey == dir :> 1 @@ inside :> 2 @@ lower :> 3 @@ upper :> 3
TreeAbove == dir :> {} @@ inside :> {dir} @@ lower :> {} @@ upper :> {}
\* No path of the instance is in the folder dir becomes: what it takes along is out
\* of sight.
TreeInto(p, q, x) == Cancelled
=============================================================================
