---------------------------- MODULE MCJobManager ----------------------------
(* Small instances of JobManager: whose the records are, and of what kind.  *)
EXTENDS JobManager, TLC

CONSTANTS j1, j2, main

OwnedByMain == [j \in Jobs |-> main]
ForegroundAndTask == [j \in Jobs |-> IF j = j1 THEN "foreground" ELSE "task"]
=============================================================================
