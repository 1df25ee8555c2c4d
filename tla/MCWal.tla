------------------------------- MODULE MCWal --------------------------------
(***************************************************************************)
(* Wal with a few connections, pages and transactions.                     *)
(***************************************************************************)
EXTENDS Wal, TLC

\* connections, and pages, are interchangeable in safety runs
Interchangeable == Permutations(Conn) \cup Permutations(Page)
=============================================================================
