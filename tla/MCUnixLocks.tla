---------------------------- MODULE MCUnixLocks -----------------------------
(***************************************************************************)
(* UnixLocks with two processes of two threads each.                       *)
(***************************************************************************)
EXTENDS UnixLocks, TLC

CONSTANTS p1, p2, f1, f2, f3, f4

\* f1 and f2 are handles of one process
TwoThreads == (f1 :> p1) @@ (f2 :> p1) @@ (f3 :> p2)

\* two handles in each of two processes
TwoByTwo == TwoThreads @@ (f4 :> p2)
=============================================================================
