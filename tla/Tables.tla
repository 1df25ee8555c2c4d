------------------------------- MODULE Tables -------------------------------
(***************************************************************************)
(* SQL tables as functions from the primary keys in use to rows, with the  *)
(* two statements that change the set of keys.  All tables of              *)
(* app/models/models.py have an INTEGER PRIMARY KEY without AUTOINCREMENT: *)
(* SQLite then gives an inserted row the key after the largest one in use, *)
(* so the key of a deleted last row is given out again.                    *)
(***************************************************************************)
EXTENDS Integers

EmptyTable == [key \in {} |-> key]

Key == Nat \ {0}

IsNextKey(table, key) ==
  /\ \A k \in DOMAIN table : k < key
  /\ key - 1 \in DOMAIN table \cup {0}

\* the one key SQLite gives to the next row
NextKeys(table) == {key \in {k + 1 : k \in DOMAIN table \cup {0}} : IsNextKey(table, key)}

InsertRow(table, key, row) ==
  [k \in DOMAIN table \cup {key} |-> IF k = key THEN row ELSE table[k]]

DeleteRow(table, key) == [k \in DOMAIN table \ {key} |-> table[k]]
=============================================================================
