---------------------------- MODULE Procurement ----------------------------
(***************************************************************************)
(* Materials and purchase orders: the handlers of                          *)
(* app/routers/materials.py and app/routers/purchase_orders.py over the    *)
(* tables of app/models/models.py in SQLite.                               *)
(*                                                                         *)
(* A process of Workers is one uvicorn worker.  Every handler is an        *)
(* `async def` without an await, so a worker runs a request to its end     *)
(* before it takes the next one: `python main.py` is Workers = {w}.  The   *)
(* deployment of README.md (gunicorn -w 4) is several workers on one       *)
(* database file; their SQL statements interleave.  An action is one SQL   *)
(* statement with the Python code up to the next one.                      *)
(*                                                                         *)
(* The session of app/database.py (autocommit and autoflush off) reads     *)
(* committed rows, keeps what it loaded and what was assigned, and writes  *)
(* the changed columns, as the values computed in Python, when it commits. *)
(* SQLite lets one connection write at a time: the first INSERT, UPDATE or *)
(* DELETE takes the write lock and COMMIT or ROLLBACK gives it back.       *)
(***************************************************************************)
EXTENDS Tables, Sequences, FiniteSets

CONSTANTS
  Workers,       \* server processes
  Null,          \* SQL NULL, and "nobody" for the write lock
  Carts,         \* bodies of POST /purchase-orders: sequences of lines
  Stocks,        \* values of current_stock in bodies of POST and PUT /materials
  PutStatus,     \* values of status in bodies of PUT /purchase-orders/{id}
  MaxMaterial,   \* bound: the largest material id
  MaxOrder,      \* bound: the largest order id
  MaxReceipts,   \* bound: receive requests only up to this many receipts
  MaxStock       \* bound: receive requests only up to this stock

(***************************************************************************)
(* OrderStatus is stored by name; SQLAlchemy binds any other string of a   *)
(* PUT as it is and refuses to load it afterwards.                         *)
(***************************************************************************)
OrderStatus == {"PENDING", "APPROVED", "ORDERED", "DELIVERED", "CANCELLED"}

StoredStatus == OrderStatus \cup PutStatus

Loadable(status) == status \in OrderStatus \cup {Null}

Line == [material : Key, quantity : Int, unit_price : Int]

ASSUME NullAssumption == Null \notin Int \cup OrderStatus \cup Workers

ASSUME InputAssumption ==
  /\ Carts \subseteq Seq(Line)
  /\ Stocks \subseteq Int \cup {Null}
  /\ MaxMaterial \in Nat
  /\ MaxOrder \in Nat
  /\ MaxReceipts \in Nat
  /\ MaxStock \in Int

VARIABLES
  materials,        \* table materials: id -> current_stock
  purchase_orders,  \* table purchase_orders: id -> status, total_amount and
                    \*   its rows of purchase_order_items in id order
  lock,             \* the worker whose connection holds the write lock
  pc,               \* per worker: the next statement, or "idle"
  req,              \* per worker: the request it runs
  sess,             \* per worker: its database session
  reply,            \* the answer the last step sent: <<worker, code>>, or Null
  ledger,           \* history: per material, what the stock should be
  receipts          \* history: per order, how often its items were received
                    \*   since a PUT last gave it a status other than DELIVERED

db == <<materials, purchase_orders, lock, ledger, receipts>>
vars == <<materials, purchase_orders, lock, pc, req, sess, reply, ledger, receipts>>

Item == [material : Key \cup {Null}, quantity : Int, total_price : Int]

Order == [status : StoredStatus, total_amount : Int, items : Seq(Item)]

Request ==
  [op : {"create_purchase_order"}, lines : Carts]
  \cup [op : {"approve_order", "receive_order", "cancel_order"}, order : 1..MaxOrder]
  \cup [op : {"update_purchase_order"}, order : 1..MaxOrder, status : PutStatus]
  \cup [op : {"create_material"}, stock : Stocks \ {Null}]
  \cup [op : {"update_material"}, material : 1..MaxMaterial, stock : Stocks]
  \cup [op : {"delete_material", "reorder_material"}, material : 1..MaxMaterial]

(***************************************************************************)
(* The first statement of each handler.                                    *)
(***************************************************************************)
FirstStatement ==
  [create_purchase_order |-> "insert_order",
   approve_order         |-> "load_order",
   receive_order         |-> "load_order",
   cancel_order          |-> "load_order",
   update_purchase_order |-> "load_order",
   create_material       |-> "commit",
   update_material       |-> "load_material",
   delete_material       |-> "load_material",
   reorder_material      |-> "load_material"]

(***************************************************************************)
(* Handlers that commit inside try/except roll back and answer 400 when    *)
(* the database fails them; in the others the exception is a 500.          *)
(***************************************************************************)
Guarded == {"create_purchase_order", "receive_order", "cancel_order", "update_purchase_order"}

Failure(w) == IF req[w].op \in Guarded THEN "bad_request" ELSE "server_error"

Errors == {"bad_request", "not_found", "server_error"}

(***************************************************************************)
(* A session: the lines still to be handled, the item rows and the total   *)
(* of a new order, the id of the row it works on, the status to write (a   *)
(* set of at most one), the stock of the materials it loaded, their        *)
(* pending value and what was added to it, the item rows a delete will     *)
(* detach, and whether it has committed a change.                          *)
(***************************************************************************)
NewSession ==
  [lines |-> <<>>, items |-> <<>>, total |-> 0, id |-> Null, put |-> {},
   read |-> EmptyTable, new |-> EmptyTable, added |-> EmptyTable,
   kids |-> {}, wrote |-> FALSE]

Init ==
  /\ materials = EmptyTable
  /\ purchase_orders = EmptyTable
  /\ lock = Null
  /\ pc = [w \in Workers |-> "idle"]
  /\ req = [w \in Workers |-> Null]
  /\ sess = [w \in Workers |-> NewSession]
  /\ reply = Null
  /\ ledger = EmptyTable
  /\ receipts = EmptyTable

-----------------------------------------------------------------------------
(***************************************************************************)
(* How a step of a handler ends.                                           *)
(***************************************************************************)
At(w, label, op) == pc[w] = label /\ req[w].op = op

Goto(w, label, s) ==
  /\ pc' = [pc EXCEPT ![w] = label]
  /\ sess' = [sess EXCEPT ![w] = s]
  /\ reply' = Null
  /\ UNCHANGED req

\* get_db closes the session whatever the handler did
Answer(w, code) ==
  /\ pc' = [pc EXCEPT ![w] = "idle"]
  /\ sess' = [sess EXCEPT ![w] = NewSession]
  /\ req' = [req EXCEPT ![w] = Null]
  /\ reply' = <<w, code>>

CanWrite(w) == lock \in {Null, w}

Committed(w) == [sess[w] EXCEPT !.wrote = TRUE]

(***************************************************************************)
(* A worker takes a request.  Bounds: creations only while a key is left,  *)
(* receive requests only up to MaxReceipts receipts of the order and up to *)
(* MaxStock of each material.                                              *)
(***************************************************************************)
InFlight(op) == {w \in Workers : pc[w] # "idle" /\ req[w].op = op}

HasRoom(table, op, max) ==
  \A k \in DOMAIN table \cup {0} : k + Cardinality(InFlight(op)) < max

WithinBounds(r) ==
  /\ r.op = "create_purchase_order" => HasRoom(purchase_orders, r.op, MaxOrder)
  /\ r.op = "create_material" => HasRoom(materials, r.op, MaxMaterial)
  /\ r.op = "receive_order" /\ r.order \in DOMAIN receipts
       => /\ receipts[r.order] < MaxReceipts
          /\ \A m \in DOMAIN materials :
               \A stock \in {materials[m], ledger[m]} \ {Null} : stock <= MaxStock

Accept(w, r) ==
  /\ pc[w] = "idle"
  /\ WithinBounds(r)
  /\ pc' = [pc EXCEPT ![w] = FirstStatement[r.op]]
  /\ req' = [req EXCEPT ![w] = r]
  /\ sess' = [sess EXCEPT ![w] =
       [NewSession EXCEPT !.lines = IF r.op = "create_purchase_order" THEN r.lines ELSE <<>>]]
  /\ reply' = Null
  /\ UNCHANGED db

-----------------------------------------------------------------------------
(***************************************************************************)
(* create_purchase_order.  db.flush() inserts the order and takes the      *)
(* write lock; each line's material is then looked up, in the transaction. *)
(***************************************************************************)
create_purchase_order(w) ==
  /\ At(w, "insert_order", "create_purchase_order")
  /\ CanWrite(w)
  /\ lock' = w
  /\ \E key \in NextKeys(purchase_orders) :
       Goto(w, "verify_item", [sess[w] EXCEPT !.id = key])
  /\ UNCHANGED <<materials, purchase_orders, ledger, receipts>>

\* faulty variant: the line is verified and not taken off the list
create_item_repeated(w) ==
  /\ At(w, "verify_item", "create_purchase_order")
  /\ sess[w].lines # <<>>
  /\ Head(sess[w].lines).material \in DOMAIN materials
  /\ Goto(w, "verify_item", sess[w])
  /\ UNCHANGED db

create_item(w) ==
  LET line == Head(sess[w].lines)
      price == line.quantity * line.unit_price
  IN /\ At(w, "verify_item", "create_purchase_order")
     /\ sess[w].lines # <<>>
     /\ line.material \in DOMAIN materials
     /\ Goto(w, "verify_item",
          [sess[w] EXCEPT !.lines = Tail(sess[w].lines),
                          !.items = Append(sess[w].items,
                             [material |-> line.material, quantity |-> line.quantity,
                              total_price |-> price]),
                          !.total = sess[w].total + price])
     /\ UNCHANGED db

\* faulty variant: no rollback, the connection keeps its transaction
create_item_no_rollback(w) ==
  /\ At(w, "verify_item", "create_purchase_order")
  /\ sess[w].lines # <<>>
  /\ Head(sess[w].lines).material \notin DOMAIN materials
  /\ Answer(w, "bad_request")
  /\ UNCHANGED db

create_item_unknown_material(w) ==
  /\ At(w, "verify_item", "create_purchase_order")
  /\ sess[w].lines # <<>>
  /\ Head(sess[w].lines).material \notin DOMAIN materials
  /\ Answer(w, "bad_request")
  /\ lock' = Null
  /\ UNCHANGED <<materials, purchase_orders, ledger, receipts>>

create_commit(w) ==
  /\ At(w, "verify_item", "create_purchase_order")
  /\ sess[w].lines = <<>>
  /\ purchase_orders' =
       InsertRow(purchase_orders, sess[w].id,
         [status |-> "PENDING", total_amount |-> sess[w].total, items |-> sess[w].items])
  /\ receipts' = InsertRow(receipts, sess[w].id, 0)
  /\ lock' = Null
  /\ Goto(w, "refresh", Committed(w))
  /\ UNCHANGED <<materials, ledger>>

-----------------------------------------------------------------------------
(***************************************************************************)
(* The handlers that work on one order load it first.  A missing row is a  *)
(* 404; a row whose status is no name of OrderStatus raises LookupError,   *)
(* outside every try, when it is loaded.                                   *)
(***************************************************************************)
OrderFound(w) ==
  /\ req[w].order \in DOMAIN purchase_orders
  /\ Loadable(purchase_orders[req[w].order].status)

StatusOf(w) == purchase_orders[req[w].order].status

order_not_found(w) ==
  /\ pc[w] = "load_order"
  /\ req[w].order \notin DOMAIN purchase_orders
  /\ Answer(w, "not_found")
  /\ UNCHANGED db

order_not_loadable(w) ==
  /\ pc[w] = "load_order"
  /\ req[w].order \in DOMAIN purchase_orders
  /\ ~ OrderFound(w)
  /\ Answer(w, "server_error")
  /\ UNCHANGED db

Stage(w, label, put) ==
  Goto(w, label, [sess[w] EXCEPT !.id = req[w].order, !.put = put])

update_purchase_order(w) ==
  /\ At(w, "load_order", "update_purchase_order")
  /\ OrderFound(w)
  \* a string is never equal to the loaded enum member; NULL may be
  /\ Stage(w, "commit", {req[w].status} \ ({StatusOf(w)} \cap {Null}))
  /\ UNCHANGED db

\* faulty variant: assigns the enum's value instead of its name
approve_order_by_value(w) ==
  /\ At(w, "load_order", "approve_order")
  /\ OrderFound(w)
  /\ StatusOf(w) = "PENDING"
  /\ Stage(w, "commit", {"approved"})
  /\ UNCHANGED db

approve_order(w) ==
  /\ At(w, "load_order", "approve_order")
  /\ OrderFound(w)
  /\ StatusOf(w) = "PENDING"
  /\ Stage(w, "commit", {"APPROVED"})
  /\ UNCHANGED db

\* faulty variant: the status is not checked
cancel_order_unchecked(w) ==
  /\ At(w, "load_order", "cancel_order")
  /\ OrderFound(w)
  /\ Stage(w, "commit", {"CANCELLED"} \ {StatusOf(w)})
  /\ UNCHANGED db

cancel_order(w) ==
  /\ At(w, "load_order", "cancel_order")
  /\ OrderFound(w)
  /\ StatusOf(w) # "DELIVERED"
  \* assigning the value that is there makes no UPDATE
  /\ Stage(w, "commit", {"CANCELLED"} \ {StatusOf(w)})
  /\ UNCHANGED db

\* faulty variant: the status is not checked
receive_order_unchecked(w) ==
  /\ At(w, "load_order", "receive_order")
  /\ OrderFound(w)
  /\ Stage(w, "load_items", {"DELIVERED"})
  /\ UNCHANGED db

receive_order(w) ==
  /\ At(w, "load_order", "receive_order")
  /\ OrderFound(w)
  /\ StatusOf(w) # "DELIVERED"
  /\ Stage(w, "load_items", {"DELIVERED"})
  /\ UNCHANGED db

Refused(op, status) ==
  \/ op = "approve_order" /\ status # "PENDING"
  \/ op \in {"receive_order", "cancel_order"} /\ status = "DELIVERED"

order_refused(w) ==
  /\ pc[w] = "load_order"
  /\ OrderFound(w)
  /\ Refused(req[w].op, StatusOf(w))
  /\ Answer(w, "bad_request")
  /\ UNCHANGED db

WriteStatus(w) ==
  \E status \in sess[w].put :
    purchase_orders' = [purchase_orders EXCEPT ![sess[w].id].status = status]

(***************************************************************************)
(* The commit of approve, cancel and PUT: one UPDATE of the order, unless  *)
(* nothing changed.  After a PUT an order may be received again, so the    *)
(* history counts anew.                                                    *)
(***************************************************************************)
CountAnew(w) ==
  receipts' = IF req[w].op = "update_purchase_order" /\ sess[w].put # {"DELIVERED"}
                THEN [receipts EXCEPT ![sess[w].id] = 0] ELSE receipts

order_commit(w) ==
  /\ pc[w] = "commit"
  /\ req[w].op \in {"approve_order", "cancel_order", "update_purchase_order"}
  /\ \/ /\ sess[w].put = {}
        /\ Goto(w, "refresh", sess[w])
        /\ UNCHANGED <<purchase_orders, receipts>>
     \/ /\ CanWrite(w)
        /\ WriteStatus(w)
        /\ CountAnew(w)
        /\ Goto(w, "refresh", Committed(w))
  /\ UNCHANGED <<materials, lock, ledger>>

-----------------------------------------------------------------------------
(***************************************************************************)
(* receive_order: `order.items` loads the item rows, then one SELECT per   *)
(* item.  The session keeps one object per material: a material that two   *)
(* items name accumulates both in it.                                      *)
(***************************************************************************)
\* faulty variant: the status is committed before the items are added
receive_status_first(w) ==
  /\ At(w, "load_items", "receive_order")
  /\ CanWrite(w)
  /\ WriteStatus(w)
  /\ Goto(w, "add_item", [Committed(w) EXCEPT !.lines = purchase_orders[sess[w].id].items])
  /\ UNCHANGED <<materials, lock, ledger, receipts>>

receive_load_items(w) ==
  /\ At(w, "load_items", "receive_order")
  /\ Goto(w, "add_item", [sess[w] EXCEPT !.lines = purchase_orders[sess[w].id].items])
  /\ UNCHANGED db

\* what the session holds of a material: loaded, pending, and added by items
Loaded(w, m) == IF m \in DOMAIN sess[w].read THEN sess[w].read[m] ELSE materials[m]

\* faulty variant: every item starts from the row in the database
StockInRow(w, m) == materials[m]

StockSeen(w, m) == IF m \in DOMAIN sess[w].new THEN sess[w].new[m] ELSE materials[m]

AddedSoFar(w, m) == IF m \in DOMAIN sess[w].added THEN sess[w].added[m] ELSE 0

AddStock(w, m, quantity) ==
  [sess[w] EXCEPT
     !.lines = Tail(sess[w].lines),
     !.read  = InsertRow(sess[w].read, m, Loaded(w, m)),
     !.new   = InsertRow(sess[w].new, m, StockSeen(w, m) + quantity),
     !.added = InsertRow(sess[w].added, m, AddedSoFar(w, m) + quantity)]

receive_item(w) ==
  LET item == Head(sess[w].lines)
  IN /\ At(w, "add_item", "receive_order")
     /\ sess[w].lines # <<>>
     /\ \/ /\ item.material \in DOMAIN materials
           /\ StockSeen(w, item.material) # Null
           /\ Goto(w, "add_item", AddStock(w, item.material, item.quantity))
        \/ /\ item.material \notin DOMAIN materials
           /\ Goto(w, "add_item", [sess[w] EXCEPT !.lines = Tail(sess[w].lines)])
     /\ UNCHANGED db

\* None += quantity is a TypeError, caught: rollback and 400
receive_item_no_stock(w) ==
  /\ At(w, "add_item", "receive_order")
  /\ sess[w].lines # <<>>
  /\ Head(sess[w].lines).material \in DOMAIN materials
  /\ StockSeen(w, Head(sess[w].lines).material) = Null
  /\ Answer(w, "bad_request")
  /\ UNCHANGED db

(***************************************************************************)
(* The unit of work writes the materials whose pending value differs from  *)
(* the loaded one; an UPDATE that finds no row is a StaleDataError.        *)
(***************************************************************************)
Dirty(w) == {m \in DOMAIN sess[w].new : sess[w].new[m] # sess[w].read[m]}

RowsPresent(w) == Dirty(w) \subseteq DOMAIN materials

FlushMaterials(w) ==
  materials' = [m \in DOMAIN materials |->
                  IF m \in Dirty(w) THEN sess[w].new[m] ELSE materials[m]]

receive_commit(w) ==
  /\ At(w, "add_item", "receive_order")
  /\ sess[w].lines = <<>>
  /\ CanWrite(w)
  /\ RowsPresent(w)
  /\ FlushMaterials(w)
  /\ WriteStatus(w)
  /\ ledger' = [m \in DOMAIN ledger |->
                  IF m \in DOMAIN sess[w].added /\ ledger[m] # Null
                    THEN ledger[m] + sess[w].added[m] ELSE ledger[m]]
  /\ receipts' = [receipts EXCEPT ![sess[w].id] = @ + 1]
  /\ Goto(w, "refresh", Committed(w))
  /\ UNCHANGED lock

-----------------------------------------------------------------------------
(***************************************************************************)
(* The handlers of materials.py.  create_material inserts at its commit.   *)
(***************************************************************************)
create_material(w) ==
  /\ At(w, "commit", "create_material")
  /\ CanWrite(w)
  /\ \E m \in NextKeys(materials) :
       /\ materials' = InsertRow(materials, m, req[w].stock)
       /\ ledger' = InsertRow(ledger, m, req[w].stock)
       /\ Goto(w, "refresh", [Committed(w) EXCEPT !.id = m])
  /\ UNCHANGED <<purchase_orders, lock, receipts>>

material_not_found(w) ==
  /\ pc[w] = "load_material"
  /\ req[w].material \notin DOMAIN materials
  /\ Answer(w, "not_found")
  /\ UNCHANGED db

update_material(w) ==
  LET m == req[w].material
  IN /\ At(w, "load_material", "update_material")
     /\ m \in DOMAIN materials
     /\ Goto(w, "commit",
          [sess[w] EXCEPT !.id = m,
                          !.read = InsertRow(EmptyTable, m, materials[m]),
                          !.new = InsertRow(EmptyTable, m, req[w].stock)])
     /\ UNCHANGED db

update_material_commit(w) ==
  /\ At(w, "commit", "update_material")
  /\ \/ /\ Dirty(w) = {}
        /\ Goto(w, "refresh", sess[w])
        /\ UNCHANGED <<materials, ledger>>
     \/ /\ Dirty(w) # {}
        /\ CanWrite(w)
        /\ RowsPresent(w)
        /\ FlushMaterials(w)
        /\ ledger' = [ledger EXCEPT ![sess[w].id] = req[w].stock]
        /\ Goto(w, "refresh", Committed(w))
  /\ UNCHANGED <<purchase_orders, lock, receipts>>

\* the flush of delete_material loads the item rows that name the material
delete_material(w) ==
  /\ At(w, "load_material", "delete_material")
  /\ req[w].material \in DOMAIN materials
  /\ Goto(w, "load_children", [sess[w] EXCEPT !.id = req[w].material])
  /\ UNCHANGED db

\* faulty variant: the relationship does not load the children
NoItemsOf(m) == {}

ItemsOf(m) ==
  UNION {{<<o, k>> : k \in {j \in DOMAIN purchase_orders[o].items :
                              purchase_orders[o].items[j].material = m}}
          : o \in DOMAIN purchase_orders}

delete_load_items(w) ==
  /\ At(w, "load_children", "delete_material")
  /\ Goto(w, "commit", [sess[w] EXCEPT !.kids = ItemsOf(sess[w].id)])
  /\ UNCHANGED db

\* UPDATE purchase_order_items SET material_id = NULL; DELETE FROM materials.
\* A DELETE that finds no row is only a warning.
Detach(o, kids) ==
  [purchase_orders[o] EXCEPT !.items =
     [k \in DOMAIN purchase_orders[o].items |->
        IF <<o, k>> \in kids
          THEN [purchase_orders[o].items[k] EXCEPT !.material = Null]
          ELSE purchase_orders[o].items[k]]]

\* faulty variant: writes although another connection has the lock
delete_unlocked(w) ==
  /\ At(w, "commit", "delete_material")
  /\ materials' = DeleteRow(materials, sess[w].id)
  /\ ledger' = DeleteRow(ledger, sess[w].id)
  /\ purchase_orders' = [o \in DOMAIN purchase_orders |-> Detach(o, sess[w].kids)]
  /\ Answer(w, "ok")
  /\ UNCHANGED <<lock, receipts>>

delete_commit(w) ==
  /\ At(w, "commit", "delete_material")
  /\ CanWrite(w)
  /\ materials' = DeleteRow(materials, sess[w].id)
  /\ ledger' = DeleteRow(ledger, sess[w].id)
  /\ purchase_orders' = [o \in DOMAIN purchase_orders |-> Detach(o, sess[w].kids)]
  /\ Answer(w, "ok")
  /\ UNCHANGED <<lock, receipts>>

\* reorder_material only reads the material and answers
reorder_material(w) ==
  /\ At(w, "load_material", "reorder_material")
  /\ req[w].material \in DOMAIN materials
  /\ Answer(w, "ok")
  /\ UNCHANGED db

-----------------------------------------------------------------------------
(***************************************************************************)
(* After a commit every attribute is expired: refresh(), or the            *)
(* order_number in the answer, reads the row again, and that may fail,     *)
(* inside the handler's try.  POST and PUT of a material or of an order    *)
(* return the row: the response_model of schemas.py then requires a stock  *)
(* and a status, outside every try.                                        *)
(***************************************************************************)
MaterialShown == {"create_material", "update_material"}

OrderShown == {"create_purchase_order", "update_purchase_order"}

RowReadable(w) ==
  IF req[w].op \in MaterialShown
    THEN sess[w].id \in DOMAIN materials
    ELSE Loadable(purchase_orders[sess[w].id].status)

RowComplete(w) ==
  /\ req[w].op \in MaterialShown => materials[sess[w].id] # Null
  /\ req[w].op \in OrderShown => purchase_orders[sess[w].id].status # Null

refresh(w) ==
  /\ pc[w] = "refresh"
  /\ \/ ~ RowReadable(w) /\ Answer(w, Failure(w))
     \/ RowReadable(w) /\ ~ RowComplete(w) /\ Answer(w, "server_error")
     \/ /\ RowReadable(w) /\ RowComplete(w)
        /\ IF req[w].op \in OrderShown THEN Goto(w, "respond", sess[w]) ELSE Answer(w, "ok")
  /\ UNCHANGED db

(***************************************************************************)
(* The response of an order loads its items, each with a material_id, and  *)
(* then the material of each one: none when the row is gone, and otherwise *)
(* with a stock.                                                           *)
(***************************************************************************)
respond_items(w) ==
  LET items == purchase_orders[sess[w].id].items
  IN /\ pc[w] = "respond"
     /\ IF \E k \in DOMAIN items : items[k].material = Null
          THEN Answer(w, "server_error")
          ELSE Goto(w, "respond_item", [sess[w] EXCEPT !.lines = items])
     /\ UNCHANGED db

\* a material that an item before this one has loaded is not read again
respond_item(w) ==
  LET m == Head(sess[w].lines).material
      known == m \in DOMAIN sess[w].read \cup DOMAIN materials
  IN /\ pc[w] = "respond_item"
     /\ sess[w].lines # <<>>
     /\ \/ known /\ Loaded(w, m) = Null /\ Answer(w, "server_error")
        \/ /\ known /\ Loaded(w, m) # Null
           /\ Goto(w, "respond_item",
                [sess[w] EXCEPT !.lines = Tail(sess[w].lines),
                                !.read = InsertRow(sess[w].read, m, Loaded(w, m))])
        \/ ~ known /\ Goto(w, "respond_item", [sess[w] EXCEPT !.lines = Tail(sess[w].lines)])
     /\ UNCHANGED db

respond(w) ==
  /\ pc[w] = "respond_item"
  /\ sess[w].lines = <<>>
  /\ Answer(w, "ok")
  /\ UNCHANGED db

(***************************************************************************)
(* What the database refuses: a write while another connection keeps the   *)
(* lock longer than SQLite's timeout ("database is locked"), and an UPDATE *)
(* of a row that is gone (StaleDataError).                                 *)
(***************************************************************************)
Writing(w) ==
  \/ pc[w] = "insert_order"
  \/ pc[w] = "add_item" /\ sess[w].lines = <<>>
  \/ pc[w] = "commit" /\ (\/ req[w].op \in {"create_material", "delete_material"}
                          \/ sess[w].put # {}
                          \/ Dirty(w) # {})

database_locked(w) ==
  /\ Writing(w)
  /\ ~ CanWrite(w)
  /\ Answer(w, Failure(w))
  /\ UNCHANGED db

stale_row(w) ==
  /\ Writing(w)
  /\ CanWrite(w)
  /\ ~ RowsPresent(w)
  /\ Answer(w, Failure(w))
  /\ UNCHANGED db

\* The worker process dies and is started again: no answer, and SQLite
\* rolls back what its connection had not committed.
Crash(w) ==
  /\ pc[w] # "idle"
  /\ Answer(w, "lost")
  /\ lock' = IF lock = w THEN Null ELSE lock
  /\ UNCHANGED <<materials, purchase_orders, ledger, receipts>>

-----------------------------------------------------------------------------
Purchase(w) ==
  \/ create_purchase_order(w) \/ create_item(w) \/ create_item_unknown_material(w)
  \/ create_commit(w)
  \/ order_not_found(w) \/ order_not_loadable(w) \/ order_refused(w)
  \/ update_purchase_order(w) \/ approve_order(w) \/ cancel_order(w) \/ order_commit(w)
  \/ receive_order(w) \/ receive_load_items(w) \/ receive_item(w)
  \/ receive_item_no_stock(w) \/ receive_commit(w)

Stock(w) ==
  \/ create_material(w) \/ material_not_found(w)
  \/ update_material(w) \/ update_material_commit(w)
  \/ delete_material(w) \/ delete_load_items(w) \/ delete_commit(w)
  \/ reorder_material(w)

Respond(w) == refresh(w) \/ respond_items(w) \/ respond_item(w) \/ respond(w)

Step(w) == Purchase(w) \/ Stock(w) \/ Respond(w) \/ database_locked(w) \/ stale_row(w)

Next ==
  \E w \in Workers : (\E r \in Request : Accept(w, r)) \/ Step(w) \/ Crash(w)

Spec == Init /\ [][Next]_vars

\* The event loop runs a handler it has begun to its end
FairSpec == Spec /\ \A w \in Workers : WF_vars(Step(w))

-----------------------------------------------------------------------------
IsTable(table, rows) ==
  /\ DOMAIN table \subseteq Key
  /\ table \in [DOMAIN table -> rows]

Labels == {"idle", "insert_order", "verify_item", "load_order", "load_items", "add_item",
           "load_material", "load_children", "commit", "refresh", "respond",
           "respond_item"}

Responding == {"refresh", "respond", "respond_item"}

OrderOps == {"approve_order", "receive_order", "cancel_order", "update_purchase_order"}

TablesOK ==
  /\ IsTable(materials, Int \cup {Null})
  /\ IsTable(purchase_orders, Order)
  /\ IsTable(ledger, Int \cup {Null}) /\ DOMAIN ledger = DOMAIN materials
  /\ IsTable(receipts, Nat) /\ DOMAIN receipts = DOMAIN purchase_orders

SessionOK(s) ==
  /\ DOMAIN s = DOMAIN NewSession
  /\ s.items \in Seq(Item) /\ s.total \in Int
  /\ s.id \in Key \cup {Null} /\ s.put \subseteq StoredStatus
  /\ IsTable(s.read, Int \cup {Null}) /\ IsTable(s.new, Int \cup {Null})
  /\ IsTable(s.added, Int)
  /\ s.wrote \in BOOLEAN

\* what a worker is doing fits the request it took
ControlOK(w) ==
  /\ pc[w] # "idle" => req[w] \in Request
  /\ pc[w] \in {"insert_order", "verify_item"} =>
       /\ req[w].op = "create_purchase_order"
       /\ sess[w].lines \in Seq(Line)
  /\ pc[w] = "verify_item" => sess[w].id \in Key
  /\ pc[w] = "load_order" => req[w].op \in OrderOps
  /\ pc[w] \in {"load_items", "add_item"} =>
       /\ req[w].op = "receive_order"
       /\ sess[w].put = {"DELIVERED"}
       /\ sess[w].id \in DOMAIN purchase_orders
  /\ pc[w] = "add_item" => sess[w].lines \in Seq(Item)
  /\ pc[w] = "load_material" =>
       req[w].op \in {"update_material", "delete_material", "reorder_material"}
  /\ pc[w] = "load_children" => req[w].op = "delete_material"
  /\ pc[w] \in {"commit", "refresh"} /\ req[w].op \in OrderOps =>
       sess[w].id \in DOMAIN purchase_orders
  /\ pc[w] \in Responding =>
       /\ pc[w] # "refresh" => req[w].op \in OrderShown
       /\ req[w].op \in OrderShown => sess[w].id \in DOMAIN purchase_orders
  /\ pc[w] = "respond_item" => sess[w].lines \in Seq(Item)

\* Rows and sessions have the shape of models.py, a status is one the handlers
\* write, and a worker's session fits the statement it is at.
TypeOK ==
  /\ TablesOK
  /\ lock \in Workers \cup {Null}
  /\ pc \in [Workers -> Labels]
  /\ DOMAIN req = Workers /\ DOMAIN sess = Workers
  /\ \A w \in Workers : SessionOK(sess[w]) /\ ControlOK(w)

(***************************************************************************)
(* Only a worker between the flush and the commit of create_purchase_order *)
(* keeps the write lock over several statements, and it always has it: a   *)
(* second order cannot be inserted, and no material deleted, meanwhile.    *)
(***************************************************************************)
WriteLockHeld == \A w \in Workers : lock = w <=> pc[w] = "verify_item"

(***************************************************************************)
(* The check of purchase_orders.py:74-76 still holds when the order is     *)
(* committed: every material an order in the making names exists, whatever *)
(* the other workers do.                                                   *)
(***************************************************************************)
VerifiedItemsExist ==
  \A w \in Workers : pc[w] = "verify_item" =>
    \A k \in DOMAIN sess[w].items : sess[w].items[k].material \in DOMAIN materials

(***************************************************************************)
(* receive_order (purchase_orders.py:142-186) is the only way to           *)
(* DELIVERED: an order that says so has had its items added to the stock,  *)
(* also across crashes and other workers' requests.                        *)
(***************************************************************************)
DeliveredWasReceived ==
  \A o \in DOMAIN purchase_orders :
    purchase_orders[o].status = "DELIVERED" => receipts[o] > 0

(***************************************************************************)
(* "Order already marked as delivered" (purchase_orders.py:154): the items *)
(* of an order are added to the stock at most once, unless a client opens  *)
(* the order again by a PUT in between.                                    *)
(***************************************************************************)
ReceivedOnce == \A o \in DOMAIN receipts : receipts[o] <= 1

(***************************************************************************)
(* "Mark order as received and update material stock"                      *)
(* (purchase_orders.py:148): no quantity received and no stock set by a    *)
(* request that committed is lost.                                         *)
(***************************************************************************)
StockIsLedger == materials = ledger

\* The same, of orders that were received once
ReceiptsAreKept == ReceivedOnce => StockIsLedger

(***************************************************************************)
(* material_id is a foreign key to materials.id (models.py:83): an item    *)
(* names a material that exists, or none after delete_material.            *)
(***************************************************************************)
NoDanglingItem ==
  \A o \in DOMAIN purchase_orders : \A k \in DOMAIN purchase_orders[o].items :
    purchase_orders[o].items[k].material \in DOMAIN materials \cup {Null}

(***************************************************************************)
(* "Failed to save material" (Materials.js:53), "Error updating purchase   *)
(* order" (purchase_orders.py:121): a request that is answered with an     *)
(* error has changed nothing.                                              *)
(***************************************************************************)
ErrorsChangeNothing ==
  [][\A w \in Workers : pc[w] # "idle" /\ pc'[w] = "idle" /\ sess[w].wrote
       => reply' \notin {w} \X Errors]_vars

(***************************************************************************)
(* What the response_model of a request's handler asks of the rows it      *)
(* shows (schemas.py:28, 59, 70, 95).                                      *)
(***************************************************************************)
Presentable(w) ==
  IF req[w].op \in MaterialShown
    THEN sess[w].id \in DOMAIN materials /\ materials[sess[w].id] # Null
    ELSE LET order == purchase_orders[sess[w].id]
         IN /\ order.status # Null
            /\ \A k \in DOMAIN order.items :
                 /\ order.items[k].material # Null
                 /\ order.items[k].material \in DOMAIN materials
                      => materials[order.items[k].material] # Null

(***************************************************************************)
(* Every error path of the handlers comes before the commit or rolls it    *)
(* back (purchase_orders.py:94-96, 119-121, 184-186, 208-210).  A request  *)
(* whose change is kept is answered with an error only by the validation   *)
(* of the response, which finds in the tables what the schema refuses.     *)
(***************************************************************************)
OnlyTheResponseFailsLate ==
  [][\A w \in Workers : pc[w] # "idle" /\ pc'[w] = "idle" /\ sess[w].wrote
       => \/ reply' \notin {w} \X Errors
          \/ /\ reply' = <<w, "server_error">>
             /\ req[w].op \in MaterialShown \cup OrderShown
             /\ ~ Presentable(w)]_vars

(***************************************************************************)
(* A worker answers every request it takes, or dies: it never waits for    *)
(* ever for the write lock of another one.                                 *)
(***************************************************************************)
EveryRequestEnds == \A w \in Workers : pc[w] # "idle" ~> pc[w] = "idle"
=============================================================================
