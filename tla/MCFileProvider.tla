--------------------------- MODULE MCFileProvider ---------------------------
(***************************************************************************)
(* Two windows, c1 and c2, on files 1 and 3, whose temporary siblings are  *)
(* 2 and 4.                                                                *)
(***************************************************************************)
EXTENDS FileProvider

CONSTANTS o1, o2, o3, c1, c2

Job(c, kind, f, g) == [conn |-> c, kind |-> kind, path |-> f, other |-> g]
OnFile(c, kind, f) == Job(c, kind, f, IF kind = "atomicWrite" THEN Temp(f) ELSE f)

\* The window that may close, c1, against one that stays: every kind of
\* operation, pairs of locks taken in both directions, and streams of both.
\* c1 streams only to the file that pairs lock first, and clones nothing: see
\* CloneOntoStream.
Contended ==
  [o \in Op |->
     CASE o = o1 -> {OnFile(c1, "stream", 1), OnFile(c1, "write", 1),
                     OnFile(c1, "atomicWrite", 3), OnFile(c1, "atomicRead", 3)}
       [] o = o2 -> {Job(c2, "clone", 3, 1), OnFile(c2, "stream", 3)}
       [] o = o3 -> {OnFile(c1, "atomicWrite", 1), OnFile(c2, "atomicWrite", 3), Job(c2, "clone", 1, 3)}]

\* c1 streams to file 3 and writes file 1; c2 clones one onto the other.
CloneOntoStream ==
  [o \in Op |-> CASE o = o1 -> {OnFile(c1, "stream", 3)}
                  [] o = o2 -> {Job(c2, "clone", 1, 3)}
                  [] o = o3 -> {OnFile(c1, "write", 1)}]
=============================================================================
