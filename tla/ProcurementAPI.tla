--------------------------- MODULE ProcurementAPI ---------------------------
(***************************************************************************)
(* What the API of materials and purchase orders promises: every request   *)
(* that changes something changes it in one step, from the state it finds  *)
(* at that step.  Stated from the docstrings and status checks of          *)
(* purchase_orders.py and materials.py; Procurement is shown to implement  *)
(* it when there is one worker.                                            *)
(***************************************************************************)
EXTENDS Tables, Sequences, FiniteSetsExt

CONSTANTS Null, Carts, Stocks, PutStatus

VARIABLES materials, purchase_orders

vars == <<materials, purchase_orders>>

OrderStatus == {"PENDING", "APPROVED", "ORDERED", "DELIVERED", "CANCELLED"}

Init == materials = EmptyTable /\ purchase_orders = EmptyTable

SumOver(S, value(_)) == MapThenSumSet(value, S)

-----------------------------------------------------------------------------
ItemFor(line) ==
  [material |-> line.material, quantity |-> line.quantity,
   total_price |-> line.quantity * line.unit_price]

OrderFor(lines) ==
  [status |-> "PENDING",
   items |-> [k \in DOMAIN lines |-> ItemFor(lines[k])],
   total_amount |-> SumOver(DOMAIN lines, LAMBDA k : ItemFor(lines[k]).total_price)]

\* a new order: every material exists, the total is the sum of its items
Order(lines) ==
  /\ \A k \in DOMAIN lines : lines[k].material \in DOMAIN materials
  /\ \E key \in NextKeys(purchase_orders) :
       purchase_orders' = InsertRow(purchase_orders, key, OrderFor(lines))
  /\ UNCHANGED materials

\* a status changes only from a status the operation allows
SetStatus(o, from, to) ==
  /\ purchase_orders[o].status \in from \cup {Null}
  /\ purchase_orders' = [purchase_orders EXCEPT ![o].status = to]

Approve(o) ==
  purchase_orders[o].status = "PENDING" /\ SetStatus(o, OrderStatus, "APPROVED") /\ UNCHANGED materials

Cancel(o) == SetStatus(o, OrderStatus \ {"DELIVERED"}, "CANCELLED") /\ UNCHANGED materials

Put(o, status) == SetStatus(o, OrderStatus, status) /\ UNCHANGED materials

\* the order is delivered and, in the same step, all its items are in stock
Received(o, m) ==
  LET items == purchase_orders[o].items
  IN SumOver({k \in DOMAIN items : items[k].material = m}, LAMBDA k : items[k].quantity)

Names(o, m) == \E k \in DOMAIN purchase_orders[o].items : purchase_orders[o].items[k].material = m

Receive(o) ==
  /\ SetStatus(o, OrderStatus \ {"DELIVERED"}, "DELIVERED")
  /\ \A m \in DOMAIN materials : Names(o, m) => materials[m] # Null
  /\ materials' = [m \in DOMAIN materials |->
                     IF Names(o, m) THEN materials[m] + Received(o, m) ELSE materials[m]]

-----------------------------------------------------------------------------
AddMaterial(stock) ==
  /\ \E key \in NextKeys(materials) : materials' = InsertRow(materials, key, stock)
  /\ UNCHANGED purchase_orders

SetStock(m, stock) ==
  /\ materials' = [materials EXCEPT ![m] = stock]
  /\ UNCHANGED purchase_orders

\* a material that goes is taken out of every item that names it
Forget(o, m) ==
  [purchase_orders[o] EXCEPT !.items =
     [k \in DOMAIN purchase_orders[o].items |->
        LET item == purchase_orders[o].items[k]
        IN IF item.material = m THEN [item EXCEPT !.material = Null] ELSE item]]

DropMaterial(m) ==
  /\ materials' = DeleteRow(materials, m)
  /\ purchase_orders' = [o \in DOMAIN purchase_orders |-> Forget(o, m)]

Next ==
  \/ \E lines \in Carts : Order(lines)
  \/ \E o \in DOMAIN purchase_orders :
       \/ Approve(o) \/ Cancel(o) \/ Receive(o)
       \/ \E status \in PutStatus : Put(o, status)
  \/ \E stock \in Stocks : AddMaterial(stock)
  \/ \E m \in DOMAIN materials :
       \/ \E stock \in Stocks : SetStock(m, stock)
       \/ DropMaterial(m)

Spec == Init /\ [][Next]_vars
=============================================================================
