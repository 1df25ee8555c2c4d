------------------------------ MODULE MCPager -------------------------------
(***************************************************************************)
(* Pager with two connections and a few pages and transactions.            *)
(***************************************************************************)
EXTENDS Pager, TLC

Setting(mode, sync) == [journal_mode |-> mode, synchronous |-> sync]

\* what SQLite does unless it is told otherwise
Defaults == {Setting("DELETE", "FULL")}

\* what differs in the journal's syncs
AllSettings ==
  {Setting("DELETE", s) : s \in {"NORMAL", "FULL", "EXTRA"}}
    \cup {Setting("TRUNCATE", "FULL")}

\* connections are interchangeable in safety runs
ConnSymmetry == Permutations(Conn)
=============================================================================
