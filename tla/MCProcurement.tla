--------------------------- MODULE MCProcurement ---------------------------
(***************************************************************************)
(* Procurement with small tables, and the abstract API as a property.      *)
(***************************************************************************)
EXTENDS Procurement, TLC

OneLine(m, q, p) == <<[material |-> m, quantity |-> q, unit_price |-> p]>>

\* one line, the same material twice, two materials
MCCarts == {OneLine(1, 2, 3),
            OneLine(1, 1, 2) \o OneLine(1, 2, 2),
            OneLine(1, 1, 1) \o OneLine(2, 3, 1)}

\* no line at all, and one line
SmallCarts == {<<>>, OneLine(1, 1, 1)}

\* one line
OneCart == {OneLine(1, 1, 1)}

NoStatus == {}

\* workers are interchangeable in safety runs
WorkerSymmetry == Permutations(Workers)

API == INSTANCE ProcurementAPI

\* With one worker every handler behaves as one step of the API
\* (ProcurementAPI): main.py:119-120 runs a single uvicorn process.
ImplementsAPI == API!Spec
=============================================================================
