------------------------- MODULE ProcurementProofs -------------------------
(***************************************************************************)
(* Theorems about Procurement for any number of workers, any bodies of     *)
(* requests and any bounds.                                                *)
(***************************************************************************)
EXTENDS Procurement, TLAPS

(***************************************************************************)
(* The write lock.                                                         *)
(***************************************************************************)
LockInv ==
  /\ lock \in Workers \cup {Null}
  /\ pc \in [Workers -> Labels]
  /\ WriteLockHeld

LEMMA FirstStatementIsLabel ==
  ASSUME NEW r \in Request
  PROVE  /\ FirstStatement[r.op] \in Labels
         /\ FirstStatement[r.op] # "verify_item"
         /\ FirstStatement[r.op] # "idle"
BY DEF Request, FirstStatement, Labels

LEMMA LockInvInit == Init => LockInv
BY NullAssumption DEF Init, LockInv, WriteLockHeld, Labels

(***************************************************************************)
(* A step of w that leaves the lock alone and stays out of "verify_item",  *)
(* or stays in it.                                                         *)
(***************************************************************************)
LEMMA LockUntouched ==
  ASSUME LockInv, NEW w \in Workers, NEW label \in Labels,
         pc[w] = "verify_item" <=> label = "verify_item",
         pc' = [pc EXCEPT ![w] = label], lock' = lock
  PROVE  LockInv'
BY DEF LockInv, WriteLockHeld

LEMMA LockTaken ==
  ASSUME LockInv, NEW w \in Workers, CanWrite(w), pc[w] # "verify_item",
         pc' = [pc EXCEPT ![w] = "verify_item"], lock' = w
  PROVE  LockInv'
BY NullAssumption DEF LockInv, WriteLockHeld, CanWrite, Labels

LEMMA LockReleased ==
  ASSUME LockInv, NEW w \in Workers, lock = w, NEW label \in Labels, label # "verify_item",
         pc' = [pc EXCEPT ![w] = label], lock' = Null
  PROVE  LockInv'
BY NullAssumption DEF LockInv, WriteLockHeld

(***************************************************************************)
(* A response only reads.                                                  *)
(***************************************************************************)
LEMMA RespondEnds ==
  ASSUME NEW w, Respond(w)
  PROVE  /\ UNCHANGED db /\ pc[w] \in Responding
         /\ \/ \E code : Answer(w, code)
            \/ \E label \in {"respond", "respond_item"} : \E s : Goto(w, label, s)
BY DEF Respond, refresh, respond_items, respond_item, respond, Responding

LEMMA LockInvNext == LockInv /\ [Next]_vars => LockInv'
<1> SUFFICES ASSUME LockInv, [Next]_vars PROVE LockInv'
  OBVIOUS
<1>1. CASE UNCHANGED vars
  BY <1>1 DEF LockInv, WriteLockHeld, vars
<1>2. ASSUME NEW w \in Workers, NEW r \in Request, Accept(w, r)
      PROVE  LockInv'
  BY <1>2, FirstStatementIsLabel, LockUntouched DEF Accept, db
<1>3. ASSUME NEW w \in Workers, Purchase(w) PROVE LockInv'
  <2>1. CASE create_purchase_order(w)
    BY <2>1, LockTaken DEF create_purchase_order, Goto, At
  <2>2. CASE create_item(w)
    BY <2>2, LockUntouched DEF create_item, Goto, At, db, Labels
  <2>3. CASE create_item_unknown_material(w)
    BY <2>3, LockReleased DEF create_item_unknown_material, Answer, At, Labels, LockInv, WriteLockHeld
  <2>4. CASE create_commit(w)
    BY <2>4, LockReleased DEF create_commit, Goto, At, Labels, LockInv, WriteLockHeld
  <2>5. CASE order_not_found(w) \/ order_not_loadable(w) \/ order_refused(w)
    BY <2>5, LockUntouched
    DEF order_not_found, order_not_loadable, order_refused, Answer, db, Labels
  <2>6. CASE \/ update_purchase_order(w) \/ approve_order(w) \/ cancel_order(w)
             \/ receive_order(w)
    BY <2>6, LockUntouched
    DEF update_purchase_order, approve_order, cancel_order, receive_order, Stage, Goto, At,
        db, Labels
  <2>7. CASE order_commit(w)
    BY <2>7, LockUntouched DEF order_commit, Goto, Labels
  <2>8. CASE receive_load_items(w) \/ receive_item(w) \/ receive_item_no_stock(w)
    BY <2>8, LockUntouched
    DEF receive_load_items, receive_item, receive_item_no_stock, Goto, Answer, At, db, Labels
  <2>9. CASE receive_commit(w)
    BY <2>9, LockUntouched DEF receive_commit, Goto, At, Labels
  <2> QED
    BY <1>3, <2>1, <2>2, <2>3, <2>4, <2>5, <2>6, <2>7, <2>8, <2>9 DEF Purchase
<1>4. ASSUME NEW w \in Workers, Stock(w) PROVE LockInv'
  <2>1. CASE create_material(w)
    BY <2>1, LockUntouched DEF create_material, Goto, At, Labels
  <2>2. CASE material_not_found(w) \/ update_material(w) \/ delete_material(w)
             \/ delete_load_items(w) \/ reorder_material(w)
    BY <2>2, LockUntouched
    DEF material_not_found, update_material, delete_material, delete_load_items,
        reorder_material, Goto, Answer, At, db, Labels
  <2>3. CASE update_material_commit(w)
    BY <2>3, LockUntouched DEF update_material_commit, Goto, At, Labels
  <2>4. CASE delete_commit(w)
    BY <2>4, LockUntouched DEF delete_commit, Answer, At, Labels
  <2> QED
    BY <1>4, <2>1, <2>2, <2>3, <2>4 DEF Stock
<1>5. ASSUME NEW w \in Workers, database_locked(w) \/ stale_row(w)
      PROVE  LockInv'
  BY <1>5, LockUntouched DEF database_locked, stale_row, Writing, Answer, At, db, Labels
<1>7. ASSUME NEW w \in Workers, Respond(w) PROVE LockInv'
  <2>1. PICK label \in {"idle", "respond", "respond_item"} :
          pc[w] # "verify_item" /\ pc' = [pc EXCEPT ![w] = label] /\ lock' = lock
    BY <1>7, RespondEnds DEF Responding, Answer, Goto, db
  <2> QED
    BY <2>1, LockUntouched DEF Labels
<1>6. ASSUME NEW w \in Workers, Crash(w) PROVE LockInv'
  <2>1. CASE lock = w
    BY <1>6, <2>1, LockReleased DEF Crash, Answer, Labels
  <2>2. CASE lock # w
    BY <1>6, <2>2, LockUntouched DEF Crash, Answer, Labels, LockInv, WriteLockHeld
  <2> QED
    BY <2>1, <2>2
<1> QED
  BY <1>1, <1>2, <1>3, <1>4, <1>5, <1>6, <1>7 DEF Next, Step

(***************************************************************************)
(* Whatever the workers do and however often they die, the write lock is   *)
(* held exactly between the flush and the commit of                        *)
(* create_purchase_order.                                                  *)
(***************************************************************************)
THEOREM WriteLockIsHeld == Spec => []WriteLockHeld
<1>1. LockInv => WriteLockHeld
  BY DEF LockInv
<1> QED
  BY <1>1, LockInvInit, LockInvNext, PTL DEF Spec

-----------------------------------------------------------------------------
(***************************************************************************)
(* Type correctness.  First the tables, then what a step of one worker     *)
(* keeps of the other workers' sessions.                                   *)
(***************************************************************************)
LEMMA InsertRowType ==
  ASSUME NEW table, NEW rows, IsTable(table, rows), NEW key \in Key, NEW row \in rows
  PROVE  /\ IsTable(InsertRow(table, key, row), rows)
         /\ DOMAIN InsertRow(table, key, row) = DOMAIN table \cup {key}
BY DEF IsTable, InsertRow

LEMMA DeleteRowType ==
  ASSUME NEW table, NEW rows, IsTable(table, rows), NEW key
  PROVE  /\ IsTable(DeleteRow(table, key), rows)
         /\ DOMAIN DeleteRow(table, key) = DOMAIN table \ {key}
BY DEF IsTable, DeleteRow

LEMMA NextKeysType ==
  ASSUME NEW table, DOMAIN table \subseteq Key, NEW key \in NextKeys(table)
  PROVE  key \in Key /\ key \notin DOMAIN table
BY DEF NextKeys, IsNextKey, Key

LEMMA EmptyTableType == ASSUME NEW rows PROVE IsTable(EmptyTable, rows) /\ DOMAIN EmptyTable = {}
BY DEF IsTable, EmptyTable

LEMMA NewSessionOK == SessionOK(NewSession)
BY EmptyTableType DEF SessionOK, NewSession

LEMMA GotoType ==
  ASSUME TypeOK, NEW w \in Workers, NEW label \in Labels, NEW s, SessionOK(s),
         Goto(w, label, s), TablesOK', lock' \in Workers \cup {Null},
         DOMAIN purchase_orders \subseteq DOMAIN purchase_orders', ControlOK(w)'
  PROVE  TypeOK'
<1>1. /\ pc' \in [Workers -> Labels] /\ DOMAIN req' = Workers /\ DOMAIN sess' = Workers
  BY DEF TypeOK, Goto
<1>2. ASSUME NEW v \in Workers PROVE SessionOK(sess'[v])
  BY <1>2 DEF TypeOK, Goto
<1>3. ASSUME NEW v \in Workers PROVE ControlOK(v)'
  <2>1. CASE v = w
    BY <2>1
  <2>2. CASE v # w
    <3>1. pc'[v] = pc[v] /\ req'[v] = req[v] /\ sess'[v] = sess[v] /\ ControlOK(v)
      BY <2>2 DEF TypeOK, Goto
    <3> QED
      BY <3>1 DEF ControlOK
  <2> QED
    BY <2>1, <2>2
<1> QED
  BY <1>1, <1>2, <1>3 DEF TypeOK

LEMMA AnswerType ==
  ASSUME TypeOK, NEW w \in Workers, NEW code, Answer(w, code), TablesOK',
         lock' \in Workers \cup {Null}, DOMAIN purchase_orders \subseteq DOMAIN purchase_orders'
  PROVE  TypeOK'
<1>1. /\ pc' \in [Workers -> Labels] /\ DOMAIN req' = Workers /\ DOMAIN sess' = Workers
  BY DEF TypeOK, Answer, Labels
<1>2. ASSUME NEW v \in Workers PROVE SessionOK(sess'[v])
  BY NewSessionOK DEF TypeOK, Answer
<1>3. ASSUME NEW v \in Workers PROVE ControlOK(v)'
  <2>1. CASE v = w
    <3>1. pc'[v] = "idle"
      BY <2>1 DEF TypeOK, Answer
    <3> QED
      BY <3>1 DEF ControlOK, Responding
  <2>2. CASE v # w
    <3>1. pc'[v] = pc[v] /\ req'[v] = req[v] /\ sess'[v] = sess[v] /\ ControlOK(v)
      BY <2>2 DEF TypeOK, Answer
    <3> QED
      BY <3>1 DEF ControlOK
  <2> QED
    BY <2>1, <2>2
<1> QED
  BY <1>1, <1>2, <1>3 DEF TypeOK

\* Nothing in the tables changes.
LEMMA SameTables ==
  ASSUME TypeOK, UNCHANGED db
  PROVE  /\ TablesOK' /\ lock' \in Workers \cup {Null}
         /\ DOMAIN purchase_orders \subseteq DOMAIN purchase_orders'
BY DEF TypeOK, TablesOK, IsTable, db

LEMMA TypeInit == Init => TypeOK
<1> SUFFICES ASSUME Init PROVE TypeOK
  OBVIOUS
<1>1. TablesOK
  BY EmptyTableType DEF Init, TablesOK
<1>2. ASSUME NEW w \in Workers PROVE SessionOK(sess[w]) /\ ControlOK(w)
  BY NewSessionOK DEF Init, ControlOK, Responding
<1> QED
  BY <1>1, <1>2 DEF Init, TypeOK, Labels

LEMMA AcceptType ==
  ASSUME TypeOK, NEW w \in Workers, NEW r \in Request, Accept(w, r)
  PROVE  TypeOK'
<1> DEFINE s == [NewSession EXCEPT !.lines =
                   IF r.op = "create_purchase_order" THEN r.lines ELSE <<>>]
<1>1. SessionOK(s)
  BY NewSessionOK DEF SessionOK, NewSession
<1>2. /\ pc' = [pc EXCEPT ![w] = FirstStatement[r.op]] /\ sess' = [sess EXCEPT ![w] = s]
      /\ req' = [req EXCEPT ![w] = r]
  BY DEF Accept
<1>3. FirstStatement[r.op] \in Labels
  BY FirstStatementIsLabel
<1>4. /\ pc' \in [Workers -> Labels] /\ DOMAIN req' = Workers /\ DOMAIN sess' = Workers
  BY <1>2, <1>3 DEF TypeOK
<1>5. ASSUME NEW v \in Workers PROVE SessionOK(sess'[v])
  BY <1>1, <1>2 DEF TypeOK
<1>6. ASSUME NEW v \in Workers PROVE ControlOK(v)'
  <2>1. CASE v = w
    <3>1. pc'[w] = FirstStatement[r.op] /\ req'[w] = r /\ sess'[w] = s
      BY <1>2 DEF TypeOK
    <3>2. pc'[w] \notin {"verify_item", "load_items", "add_item", "load_children"} \cup Responding
      BY <3>1 DEF FirstStatement, Request, Responding
    <3>3. pc'[w] = "insert_order" => r.op = "create_purchase_order" /\ s.lines \in Seq(Line)
      <4>1. pc'[w] = "insert_order" => r.op = "create_purchase_order"
        BY <3>1 DEF FirstStatement, Request
      <4>2. r.op = "create_purchase_order" => r.lines \in Carts
        BY DEF Request
      <4>3. r.op = "create_purchase_order" => s.lines = r.lines
        BY DEF NewSession
      <4> QED
        BY <4>1, <4>2, <4>3, InputAssumption
    <3>4. pc'[w] = "load_order" => r.op \in OrderOps
      BY <3>1 DEF FirstStatement, Request, OrderOps
    <3>5. pc'[w] = "load_material" =>
            r.op \in {"update_material", "delete_material", "reorder_material"}
      BY <3>1 DEF FirstStatement, Request
    <3>6. pc'[w] = "commit" => r.op \notin OrderOps
      BY <3>1 DEF FirstStatement, Request, OrderOps
    <3> QED
      BY <2>1, <3>1, <3>2, <3>3, <3>4, <3>5, <3>6 DEF ControlOK, Responding
  <2>2. CASE v # w
    <3>1. pc'[v] = pc[v] /\ req'[v] = req[v] /\ sess'[v] = sess[v] /\ ControlOK(v)
      BY <2>2, <1>2 DEF TypeOK
    <3> QED
      BY <3>1 DEF ControlOK, Accept, db
  <2> QED
    BY <2>1, <2>2
<1> QED
  BY <1>4, <1>5, <1>6, SameTables DEF TypeOK, Accept

LEMMA CreateOrderType ==
  ASSUME TypeOK, NEW w \in Workers,
         \/ create_purchase_order(w) \/ create_item(w)
         \/ create_item_unknown_material(w) \/ create_commit(w)
  PROVE  TypeOK'
<1> USE DEF At
<1>0. SessionOK(sess[w]) /\ ControlOK(w)
  BY DEF TypeOK
<1>1. CASE create_purchase_order(w)
  <2>1. PICK key \in NextKeys(purchase_orders) :
          Goto(w, "verify_item", [sess[w] EXCEPT !.id = key])
    BY <1>1 DEF create_purchase_order
  <2>2. key \in Key
    BY NextKeysType DEF TypeOK, TablesOK, IsTable
  <2> DEFINE s == [sess[w] EXCEPT !.id = key]
  <2>3. SessionOK(s) /\ s.id = key /\ s.lines = sess[w].lines
    BY <1>0, <2>2 DEF SessionOK, NewSession
  <2>4. ControlOK(w)'
    BY <1>0, <1>1, <2>1, <2>2, <2>3 DEF ControlOK, Responding, OrderShown, create_purchase_order, Goto, TypeOK
  <2>5. TablesOK' /\ lock' \in Workers \cup {Null} /\ purchase_orders' = purchase_orders
    BY <1>1 DEF create_purchase_order, TypeOK, TablesOK, IsTable
  <2> QED
    BY <2>1, <2>3, <2>4, <2>5, GotoType DEF Labels
<1>2. CASE create_item(w)
  <2> DEFINE line == Head(sess[w].lines)
             item == [material |-> line.material, quantity |-> line.quantity,
                      total_price |-> line.quantity * line.unit_price]
             s == [sess[w] EXCEPT !.lines = Tail(sess[w].lines),
                                  !.items = Append(sess[w].items, item),
                                  !.total = sess[w].total + line.quantity * line.unit_price]
  <2>1. Goto(w, "verify_item", s) /\ UNCHANGED db
    BY <1>2 DEF create_item
  <2>2. line \in Line /\ Tail(sess[w].lines) \in Seq(Line)
    BY <1>0, <1>2 DEF create_item, ControlOK
  <2>3. item \in Item /\ line.quantity * line.unit_price \in Int
    BY <2>2 DEF Line, Item
  <2>4. SessionOK(s) /\ s.id = sess[w].id /\ s.lines = Tail(sess[w].lines)
    BY <1>0, <2>3 DEF SessionOK, NewSession
  <2>5. ControlOK(w)'
    BY <1>0, <1>2, <2>1, <2>2, <2>4 DEF ControlOK, Responding, OrderShown, create_item, Goto, TypeOK, OrderOps
  <2> QED
    BY <2>1, <2>4, <2>5, GotoType, SameTables DEF Labels
<1>3. CASE create_item_unknown_material(w)
  <2>1. TablesOK' /\ lock' \in Workers \cup {Null} /\ purchase_orders' = purchase_orders
    BY <1>3 DEF create_item_unknown_material, TypeOK, TablesOK, IsTable
  <2> QED
    BY <1>3, <2>1, AnswerType DEF create_item_unknown_material
<1>4. CASE create_commit(w)
  <2> DEFINE row == [status |-> "PENDING", total_amount |-> sess[w].total,
                     items |-> sess[w].items]
             s == Committed(w)
  <2>1. row \in Order /\ sess[w].id \in Key
    BY <1>0, <1>4 DEF SessionOK, ControlOK, create_commit, Order, StoredStatus, OrderStatus
  <2>2. /\ purchase_orders' = InsertRow(purchase_orders, sess[w].id, row)
        /\ receipts' = InsertRow(receipts, sess[w].id, 0)
        /\ UNCHANGED <<materials, ledger>> /\ lock' = Null
    BY <1>4 DEF create_commit
  <2>3. /\ IsTable(purchase_orders', Order)
        /\ DOMAIN purchase_orders' = DOMAIN purchase_orders \cup {sess[w].id}
    <3> HIDE DEF row, s
    <3>1. IsTable(purchase_orders, Order)
      BY DEF TypeOK, TablesOK
    <3>2. purchase_orders' = InsertRow(purchase_orders, sess[w].id, row)
      BY <2>2
    <3> QED
      BY <2>1, <3>1, <3>2, InsertRowType
  <2>4. IsTable(receipts', Nat) /\ DOMAIN receipts' = DOMAIN receipts \cup {sess[w].id}
    BY <2>1, <2>2, InsertRowType DEF TypeOK, TablesOK
  <2>5. TablesOK'
    BY <2>2, <2>3, <2>4 DEF TypeOK, TablesOK, IsTable
  <2>6. SessionOK(s) /\ s.id = sess[w].id
    BY <1>0 DEF SessionOK, NewSession, Committed
  <2>7. ControlOK(w)'
    BY <1>0, <1>4, <2>3, <2>6
    DEF ControlOK, Responding, OrderShown, create_commit, At, Goto, TypeOK, OrderOps
  <2> QED
    BY <1>4, <2>2, <2>3, <2>5, <2>6, <2>7, GotoType DEF create_commit, Labels
<1> QED
  BY <1>1, <1>2, <1>3, <1>4

\* The status a worker has staged is one the column may hold, and writing it
\* keeps the tables well formed.
LEMMA WriteStatusType ==
  ASSUME TypeOK, NEW w \in Workers, WriteStatus(w)
  PROVE  /\ IsTable(purchase_orders', Order)
         /\ DOMAIN purchase_orders' = DOMAIN purchase_orders
<1>1. PICK status \in sess[w].put :
        purchase_orders' = [purchase_orders EXCEPT ![sess[w].id].status = status]
  BY DEF WriteStatus
<1>2. status \in StoredStatus
  BY DEF TypeOK, SessionOK
<1>3. IsTable(purchase_orders, Order)
  BY DEF TypeOK, TablesOK
<1> QED
  BY <1>1, <1>2, <1>3 DEF IsTable, Order

LEMMA CountAnewType ==
  ASSUME TypeOK, NEW w \in Workers, CountAnew(w)
  PROVE  /\ IsTable(receipts', Nat)
         /\ DOMAIN receipts' = DOMAIN receipts
         /\ \A o \in DOMAIN receipts : o # sess[w].id => receipts'[o] = receipts[o]
<1>1. IsTable(receipts, Nat)
  BY DEF TypeOK, TablesOK
<1>2. receipts' \in {receipts, [receipts EXCEPT ![sess[w].id] = 0]}
  BY DEF CountAnew
<1> QED
  BY <1>1, <1>2 DEF IsTable

LEMMA StageType ==
  ASSUME TypeOK, NEW w \in Workers, pc[w] = "load_order", OrderFound(w),
         NEW put \in SUBSET StoredStatus, UNCHANGED db, NEW label \in Labels,
         Stage(w, label, put),
         \/ label = "commit" /\ req[w].op # "receive_order"
         \/ label = "load_items" /\ req[w].op = "receive_order" /\ put = {"DELIVERED"}
  PROVE  TypeOK'
<1> DEFINE s == [sess[w] EXCEPT !.id = req[w].order, !.put = put]
<1>1. SessionOK(sess[w]) /\ ControlOK(w) /\ DOMAIN purchase_orders \subseteq Key
  BY DEF TypeOK, TablesOK, IsTable
<1>2. req[w].order \in DOMAIN purchase_orders
  BY DEF OrderFound
<1>3. SessionOK(s) /\ s.id = req[w].order /\ s.put = put
  BY <1>1, <1>2 DEF SessionOK, NewSession
<1>4. Goto(w, label, s)
  BY DEF Stage
<1>5. pc'[w] = label /\ sess'[w] = s /\ req' = req /\ purchase_orders' = purchase_orders
  BY <1>4 DEF Goto, db, TypeOK
<1>6. ControlOK(w)'
  BY <1>1, <1>2, <1>3, <1>5 DEF ControlOK, Responding, OrderShown, OrderOps
<1> QED
  BY <1>3, <1>4, <1>6, GotoType, SameTables

LEMMA LoadOrderType ==
  ASSUME TypeOK, NEW w \in Workers,
         \/ order_not_found(w) \/ order_not_loadable(w) \/ order_refused(w)
         \/ update_purchase_order(w) \/ approve_order(w) \/ cancel_order(w)
         \/ receive_order(w)
  PROVE  TypeOK'
<1> USE DEF At
<1>1. CASE order_not_found(w) \/ order_not_loadable(w) \/ order_refused(w)
  BY <1>1, AnswerType, SameTables DEF order_not_found, order_not_loadable, order_refused
<1>2. CASE update_purchase_order(w)
  <2>1. req[w] \in Request /\ req[w].op = "update_purchase_order"
    BY <1>2 DEF update_purchase_order, TypeOK, ControlOK
  <2>2. req[w].status \in StoredStatus
    BY <2>1 DEF Request, StoredStatus
  <2> QED
    BY <1>2, <2>2, StageType DEF update_purchase_order, Labels
<1>3. CASE approve_order(w)
  BY <1>3, StageType DEF approve_order, Labels, StoredStatus, OrderStatus
<1>4. CASE cancel_order(w)
  BY <1>4, StageType DEF cancel_order, Labels, StoredStatus, OrderStatus
<1>5. CASE receive_order(w)
  BY <1>5, StageType DEF receive_order, Labels, StoredStatus, OrderStatus
<1> QED
  BY <1>1, <1>2, <1>3, <1>4, <1>5

LEMMA OrderCommitType ==
  ASSUME TypeOK, NEW w \in Workers, order_commit(w)
  PROVE  TypeOK'
<1>1. SessionOK(sess[w]) /\ ControlOK(w) /\ pc[w] = "commit" /\ req[w].op \in OrderOps
  BY DEF TypeOK, order_commit, OrderOps
<1>2. SessionOK(Committed(w)) /\ Committed(w).id = sess[w].id
  BY <1>1 DEF SessionOK, NewSession, Committed
<1>3. TablesOK' /\ DOMAIN purchase_orders' = DOMAIN purchase_orders
  <2>1. CASE WriteStatus(w) /\ CountAnew(w)
    BY <2>1, WriteStatusType, CountAnewType DEF order_commit, TypeOK, TablesOK, IsTable
  <2>2. CASE UNCHANGED <<purchase_orders, receipts>>
    BY <2>2 DEF order_commit, TypeOK, TablesOK, IsTable
  <2> QED
    BY <2>1, <2>2 DEF order_commit
<1>4. lock' \in Workers \cup {Null}
  BY DEF order_commit, TypeOK
<1>5. PICK s \in {sess[w], Committed(w)} : Goto(w, "refresh", s)
  BY DEF order_commit
<1>6. SessionOK(s) /\ s.id = sess[w].id
  BY <1>1, <1>2
<1>7. ControlOK(w)'
  BY <1>1, <1>3, <1>5, <1>6 DEF ControlOK, Responding, OrderShown, Goto, TypeOK
<1> QED
  BY <1>3, <1>4, <1>5, <1>6, <1>7, GotoType DEF Labels

\* What the session holds of a material has a value of the column.
LEMMA AddStockType ==
  ASSUME TypeOK, NEW w \in Workers, NEW m \in DOMAIN materials, NEW quantity \in Int,
         StockSeen(w, m) # Null
  PROVE  SessionOK(AddStock(w, m, quantity))
<1> DEFINE s == AddStock(w, m, quantity)
<1>1. SessionOK(sess[w]) /\ IsTable(materials, Int \cup {Null}) /\ m \in Key
  BY DEF TypeOK, TablesOK, IsTable
<1>2. /\ Loaded(w, m) \in Int \cup {Null}
      /\ StockSeen(w, m) \in Int
      /\ AddedSoFar(w, m) \in Int
  BY <1>1 DEF SessionOK, IsTable, Loaded, StockSeen, AddedSoFar
<1>3. IsTable(InsertRow(sess[w].read, m, Loaded(w, m)), Int \cup {Null})
  BY <1>1, <1>2, InsertRowType DEF SessionOK
<1>4. IsTable(InsertRow(sess[w].new, m, StockSeen(w, m) + quantity), Int \cup {Null})
  <2>1. StockSeen(w, m) + quantity \in Int \cup {Null}
    BY <1>2
  <2> QED
    BY <1>1, <2>1, InsertRowType DEF SessionOK
<1>5. IsTable(InsertRow(sess[w].added, m, AddedSoFar(w, m) + quantity), Int)
  <2>1. AddedSoFar(w, m) + quantity \in Int
    BY <1>2
  <2> QED
    BY <1>1, <2>1, InsertRowType DEF SessionOK
<1>6. /\ DOMAIN s = DOMAIN sess[w]
      /\ s.items = sess[w].items /\ s.total = sess[w].total /\ s.id = sess[w].id
      /\ s.put = sess[w].put /\ s.wrote = sess[w].wrote
      /\ s.read = InsertRow(sess[w].read, m, Loaded(w, m))
      /\ s.new = InsertRow(sess[w].new, m, StockSeen(w, m) + quantity)
      /\ s.added = InsertRow(sess[w].added, m, AddedSoFar(w, m) + quantity)
  BY <1>1 DEF AddStock, SessionOK, NewSession
<1> QED
  BY <1>1, <1>3, <1>4, <1>5, <1>6 DEF SessionOK

LEMMA FlushType ==
  ASSUME TypeOK, NEW w \in Workers, FlushMaterials(w)
  PROVE  /\ IsTable(materials', Int \cup {Null})
         /\ DOMAIN materials' = DOMAIN materials
BY DEF TypeOK, TablesOK, SessionOK, IsTable, FlushMaterials, Dirty

LEMMA ReceiveType ==
  ASSUME TypeOK, NEW w \in Workers,
         \/ receive_load_items(w) \/ receive_item(w) \/ receive_item_no_stock(w)
         \/ receive_commit(w)
  PROVE  TypeOK'
<1> USE DEF At
<1>0. SessionOK(sess[w]) /\ ControlOK(w)
  BY DEF TypeOK
<1>1. CASE receive_load_items(w)
  <2> DEFINE s == [sess[w] EXCEPT !.lines = purchase_orders[sess[w].id].items]
  <2>1. sess[w].id \in DOMAIN purchase_orders
    BY <1>0, <1>1 DEF ControlOK, receive_load_items
  <2>2. purchase_orders[sess[w].id].items \in Seq(Item)
    BY <2>1 DEF TypeOK, TablesOK, IsTable, Order
  <2>3. /\ SessionOK(s) /\ s.id = sess[w].id /\ s.put = sess[w].put
        /\ s.lines = purchase_orders[sess[w].id].items
    BY <1>0 DEF SessionOK, NewSession
  <2>4. Goto(w, "add_item", s) /\ UNCHANGED db
    BY <1>1 DEF receive_load_items
  <2>5. ControlOK(w)'
    BY <1>0, <1>1, <2>2, <2>3, <2>4 DEF ControlOK, Responding, OrderShown, receive_load_items, Goto, TypeOK, db
  <2> QED
    BY <2>3, <2>4, <2>5, GotoType, SameTables DEF Labels
<1>2. CASE receive_item(w)
  <2> DEFINE item == Head(sess[w].lines)
  <2>1. item \in Item /\ Tail(sess[w].lines) \in Seq(Item)
    BY <1>0, <1>2 DEF receive_item, ControlOK
  <2>2. PICK s \in {AddStock(w, item.material, item.quantity),
                    [sess[w] EXCEPT !.lines = Tail(sess[w].lines)]} :
          /\ Goto(w, "add_item", s)
          /\ SessionOK(s)
    <3>1. CASE /\ item.material \in DOMAIN materials
               /\ StockSeen(w, item.material) # Null
               /\ Goto(w, "add_item", AddStock(w, item.material, item.quantity))
      BY <2>1, <3>1, AddStockType DEF Item
    <3>2. CASE Goto(w, "add_item", [sess[w] EXCEPT !.lines = Tail(sess[w].lines)])
      BY <1>0, <3>2 DEF SessionOK, NewSession
    <3> QED
      BY <1>2, <3>1, <3>2 DEF receive_item
  <2>3. s.id = sess[w].id /\ s.put = sess[w].put /\ s.lines = Tail(sess[w].lines)
    BY <1>0, <2>2 DEF SessionOK, NewSession, AddStock
  <2>4. UNCHANGED db
    BY <1>2 DEF receive_item
  <2>5. ControlOK(w)'
    BY <1>0, <1>2, <2>1, <2>2, <2>3, <2>4 DEF ControlOK, Responding, OrderShown, receive_item, Goto, TypeOK, db
  <2> QED
    BY <2>2, <2>4, <2>5, GotoType, SameTables DEF Labels
<1>3. CASE receive_item_no_stock(w)
  BY <1>3, AnswerType, SameTables DEF receive_item_no_stock
<1>4. CASE receive_commit(w)
  <2>1. /\ IsTable(materials', Int \cup {Null}) /\ DOMAIN materials' = DOMAIN materials
        /\ IsTable(purchase_orders', Order) /\ DOMAIN purchase_orders' = DOMAIN purchase_orders
    BY <1>4, FlushType, WriteStatusType DEF receive_commit
  <2>2. IsTable(ledger', Int \cup {Null}) /\ DOMAIN ledger' = DOMAIN ledger
    BY <1>0, <1>4 DEF receive_commit, TypeOK, TablesOK, IsTable, SessionOK
  <2>3. IsTable(receipts', Nat) /\ DOMAIN receipts' = DOMAIN receipts
    <3>1. DOMAIN receipts \subseteq Key /\ receipts \in [DOMAIN receipts -> Nat]
      BY DEF TypeOK, TablesOK, IsTable
    <3>2. receipts' = [receipts EXCEPT ![sess[w].id] = receipts[sess[w].id] + 1]
      BY <1>4 DEF receive_commit
    <3>3. sess[w].id \in DOMAIN receipts
      BY <1>0, <1>4 DEF ControlOK, receive_commit, TypeOK, TablesOK
    <3>4. receipts' \in [DOMAIN receipts -> Nat]
      <4> DEFINE S == DOMAIN receipts
                 id == sess[w].id
      <4>1. receipts \in [S -> Nat] /\ id \in S
        BY <3>1, <3>3
      <4>2. receipts' = [receipts EXCEPT ![id] = receipts[id] + 1]
        BY <3>2
      <4> HIDE DEF S, id
      <4> QED
        BY <4>1, <4>2
    <3> QED
      BY <3>1, <3>4 DEF IsTable
  <2>4. TablesOK' /\ lock' \in Workers \cup {Null}
    BY <1>4, <2>1, <2>2, <2>3 DEF receive_commit, TypeOK, TablesOK
  <2>5. SessionOK(Committed(w)) /\ Committed(w).id = sess[w].id
    BY <1>0 DEF SessionOK, NewSession, Committed
  <2>6. ControlOK(w)'
    BY <1>0, <1>4, <2>1, <2>5 DEF ControlOK, Responding, OrderShown, receive_commit, Goto, TypeOK, OrderOps
  <2> QED
    BY <1>4, <2>1, <2>4, <2>5, <2>6, GotoType DEF receive_commit, Labels
<1> QED
  BY <1>1, <1>2, <1>3, <1>4

LEMMA DetachType ==
  ASSUME TypeOK, NEW o \in DOMAIN purchase_orders, NEW kids
  PROVE  Detach(o, kids) \in Order
<1> DEFINE row == purchase_orders[o]
           items == [k \in DOMAIN row.items |->
                       IF <<o, k>> \in kids
                         THEN [row.items[k] EXCEPT !.material = Null]
                         ELSE row.items[k]]
<1>1. row \in Order
  BY DEF TypeOK, TablesOK, IsTable
<1>2. ASSUME NEW k \in DOMAIN row.items PROVE items[k] \in Item
  <2>1. row.items[k] \in Item
    BY <1>1 DEF Order
  <2> QED
    BY <2>1 DEF Item
<1>3. items \in Seq(Item)
  <2>1. row.items \in Seq(Item)
    BY <1>1 DEF Order
  <2>2. DOMAIN row.items = 1..Len(row.items) /\ Len(row.items) \in Nat
    BY <2>1
  <2>3. items \in [1..Len(row.items) -> Item]
    BY <1>2, <2>2
  <2> QED
    BY <2>2, <2>3
<1>4. Detach(o, kids) = [row EXCEPT !.items = items]
  BY DEF Detach
<1> HIDE DEF row, items
<1> QED
  BY <1>1, <1>3, <1>4 DEF Order

LEMMA UpdateMaterialType ==
  ASSUME TypeOK, NEW w \in Workers, update_material(w) \/ update_material_commit(w)
  PROVE  TypeOK'
<1> USE DEF At
<1>0. SessionOK(sess[w]) /\ ControlOK(w)
  BY DEF TypeOK
<1>1. CASE update_material(w)
  <2> DEFINE m == req[w].material
             read == InsertRow(EmptyTable, m, materials[m])
             new == InsertRow(EmptyTable, m, req[w].stock)
             s == [sess[w] EXCEPT !.id = m, !.read = read, !.new = new]
  <2>1. req[w] \in Request /\ req[w].op = "update_material" /\ m \in DOMAIN materials
    BY <1>0, <1>1 DEF ControlOK, update_material
  <2>2. req[w].stock \in Int \cup {Null}
    BY <2>1, InputAssumption DEF Request
  <2>3. m \in Key /\ materials[m] \in Int \cup {Null}
    BY <2>1 DEF TypeOK, TablesOK, IsTable
  <2>4. IsTable(read, Int \cup {Null}) /\ IsTable(new, Int \cup {Null})
    BY <2>2, <2>3, EmptyTableType, InsertRowType
  <2>5. SessionOK(s)
    <3> HIDE DEF m, read, new
    <3> QED
      BY <1>0, <2>3, <2>4 DEF SessionOK, NewSession
  <2>6. Goto(w, "commit", s) /\ UNCHANGED db
    BY <1>1 DEF update_material
  <2>7. ControlOK(w)'
    BY <1>0, <1>1, <2>1, <2>6 DEF ControlOK, Responding, OrderShown, Goto, TypeOK, OrderOps
  <2> QED
    BY <2>5, <2>6, <2>7, GotoType, SameTables DEF Labels
<1>2. CASE update_material_commit(w)
  <2>1. req[w] \in Request /\ req[w].op = "update_material"
    BY <1>0, <1>2 DEF ControlOK, update_material_commit
  <2>2. req[w].stock \in Int \cup {Null}
    BY <2>1, InputAssumption DEF Request
  <2>3. TablesOK' /\ lock' \in Workers \cup {Null} /\ purchase_orders' = purchase_orders
    <3>1. CASE UNCHANGED <<materials, ledger>>
      BY <1>2, <3>1 DEF update_material_commit, TypeOK, TablesOK, IsTable
    <3>2. CASE FlushMaterials(w) /\ ledger' = [ledger EXCEPT ![sess[w].id] = req[w].stock]
      <4>1. IsTable(materials', Int \cup {Null}) /\ DOMAIN materials' = DOMAIN materials
        BY <3>2, FlushType
      <4>2. IsTable(ledger', Int \cup {Null}) /\ DOMAIN ledger' = DOMAIN ledger
        BY <2>2, <3>2 DEF TypeOK, TablesOK, IsTable
      <4> QED
        BY <1>2, <4>1, <4>2 DEF update_material_commit, TypeOK, TablesOK, IsTable
    <3> QED
      BY <1>2, <3>1, <3>2 DEF update_material_commit
  <2>4. PICK s \in {sess[w], Committed(w)} : Goto(w, "refresh", s)
    BY <1>2 DEF update_material_commit
  <2>5. SessionOK(s)
    BY <1>0, <2>4 DEF SessionOK, NewSession, Committed
  <2>6. ControlOK(w)'
    BY <1>0, <1>2, <2>1, <2>4 DEF ControlOK, Responding, OrderShown, Goto, TypeOK, OrderOps
  <2> QED
    BY <2>3, <2>4, <2>5, <2>6, GotoType DEF Labels
<1> QED
  BY <1>1, <1>2

LEMMA StockType ==
  ASSUME TypeOK, NEW w \in Workers,
         \/ create_material(w) \/ material_not_found(w) \/ reorder_material(w)
         \/ delete_material(w) \/ delete_load_items(w) \/ delete_commit(w)
  PROVE  TypeOK'
<1> USE DEF At
<1>0. SessionOK(sess[w]) /\ ControlOK(w)
  BY DEF TypeOK
<1>1. CASE create_material(w)
  <2>1. req[w] \in Request /\ req[w].op = "create_material"
    BY <1>0, <1>1 DEF ControlOK, create_material
  <2>2. req[w].stock \in Int \cup {Null}
    BY <2>1, InputAssumption DEF Request
  <2>3. PICK m \in NextKeys(materials) :
          /\ materials' = InsertRow(materials, m, req[w].stock)
          /\ ledger' = InsertRow(ledger, m, req[w].stock)
          /\ Goto(w, "refresh", [Committed(w) EXCEPT !.id = m])
    BY <1>1 DEF create_material
  <2>4. m \in Key
    BY NextKeysType DEF TypeOK, TablesOK, IsTable
  <2>5. /\ IsTable(materials', Int \cup {Null}) /\ IsTable(ledger', Int \cup {Null})
        /\ DOMAIN materials' = DOMAIN ledger'
    <3>1. IsTable(materials, Int \cup {Null}) /\ IsTable(ledger, Int \cup {Null})
          /\ DOMAIN materials = DOMAIN ledger
      BY DEF TypeOK, TablesOK
    <3> QED
      <4>1. IsTable(materials', Int \cup {Null}) /\ DOMAIN materials' = DOMAIN materials \cup {m}
        BY <2>2, <2>3, <2>4, <3>1, InsertRowType
      <4>2. IsTable(ledger', Int \cup {Null}) /\ DOMAIN ledger' = DOMAIN ledger \cup {m}
        <5>1. ledger' = InsertRow(ledger, m, req[w].stock)
          BY <2>3
        <5>2. IsTable(ledger, Int \cup {Null})
          BY <3>1
        <5> QED
          BY <2>2, <2>4, <5>1, <5>2, InsertRowType
      <4> QED
        BY <3>1, <4>1, <4>2
  <2>6. TablesOK' /\ lock' \in Workers \cup {Null} /\ purchase_orders' = purchase_orders
    BY <1>1, <2>5 DEF create_material, TypeOK, TablesOK, IsTable
  <2>7. SessionOK([Committed(w) EXCEPT !.id = m])
    BY <1>0, <2>4 DEF SessionOK, NewSession, Committed
  <2>8. ControlOK(w)'
    BY <1>0, <1>1, <2>1, <2>3 DEF ControlOK, Responding, OrderShown, Goto, TypeOK, OrderOps
  <2> QED
    BY <2>3, <2>6, <2>7, <2>8, GotoType DEF Labels
<1>2. CASE material_not_found(w) \/ reorder_material(w)
  BY <1>2, AnswerType, SameTables DEF material_not_found, reorder_material
<1>3. CASE delete_material(w)
  <2> DEFINE s == [sess[w] EXCEPT !.id = req[w].material]
  <2>1. req[w].material \in Key
    BY <1>3 DEF delete_material, TypeOK, TablesOK, IsTable
  <2>2. SessionOK(s)
    BY <1>0, <2>1 DEF SessionOK, NewSession
  <2>3. Goto(w, "load_children", s) /\ UNCHANGED db
    BY <1>3 DEF delete_material
  <2>4. ControlOK(w)'
    BY <1>0, <1>3, <2>3 DEF ControlOK, Responding, OrderShown, delete_material, Goto, TypeOK
  <2> QED
    BY <2>2, <2>3, <2>4, GotoType, SameTables DEF Labels
<1>4. CASE delete_load_items(w)
  <2> DEFINE s == [sess[w] EXCEPT !.kids = ItemsOf(sess[w].id)]
  <2>1. SessionOK(s)
    BY <1>0 DEF SessionOK, NewSession
  <2>2. Goto(w, "commit", s) /\ UNCHANGED db
    BY <1>4 DEF delete_load_items
  <2>3. ControlOK(w)'
    BY <1>0, <1>4, <2>2 DEF ControlOK, Responding, OrderShown, delete_load_items, Goto, TypeOK, OrderOps
  <2> QED
    BY <2>1, <2>2, <2>3, GotoType, SameTables DEF Labels
<1>5. CASE delete_commit(w)
  <2>1. /\ IsTable(materials', Int \cup {Null}) /\ IsTable(ledger', Int \cup {Null})
        /\ DOMAIN materials' = DOMAIN ledger'
    <3>1. /\ IsTable(materials, Int \cup {Null}) /\ IsTable(ledger, Int \cup {Null})
          /\ DOMAIN materials = DOMAIN ledger
      BY DEF TypeOK, TablesOK
    <3>2. /\ materials' = DeleteRow(materials, sess[w].id)
          /\ ledger' = DeleteRow(ledger, sess[w].id)
      BY <1>5 DEF delete_commit
    <3>3. IsTable(materials', Int \cup {Null}) /\ DOMAIN materials' = DOMAIN materials \ {sess[w].id}
      BY <3>1, <3>2, DeleteRowType
    <3>4. IsTable(ledger', Int \cup {Null}) /\ DOMAIN ledger' = DOMAIN ledger \ {sess[w].id}
      BY <3>1, <3>2, DeleteRowType
    <3> QED
      BY <3>1, <3>3, <3>4
  <2>2. IsTable(purchase_orders', Order) /\ DOMAIN purchase_orders' = DOMAIN purchase_orders
    BY <1>5, DetachType DEF delete_commit, TypeOK, TablesOK, IsTable
  <2>3. TablesOK' /\ lock' \in Workers \cup {Null}
    BY <1>5, <2>1, <2>2 DEF delete_commit, TypeOK, TablesOK, IsTable
  <2> QED
    BY <1>5, <2>2, <2>3, AnswerType DEF delete_commit
<1> QED
  BY <1>1, <1>2, <1>3, <1>4, <1>5

LEMMA RespondType ==
  ASSUME TypeOK, NEW w \in Workers, Respond(w)
  PROVE  TypeOK'
<1>0. /\ TablesOK' /\ lock' \in Workers \cup {Null} /\ purchase_orders' = purchase_orders
      /\ DOMAIN purchase_orders \subseteq DOMAIN purchase_orders'
      /\ SessionOK(sess[w]) /\ ControlOK(w)
  BY SameTables, RespondEnds DEF TypeOK, db
<1>1. CASE \E code : Answer(w, code)
  BY <1>0, <1>1, AnswerType
<1>2. CASE refresh(w) /\ Goto(w, "respond", sess[w]) /\ req[w].op \in OrderShown
  <2>1. ControlOK(w)'
    BY <1>0, <1>2 DEF refresh, ControlOK, Responding, Goto, TypeOK, OrderOps, OrderShown
  <2> QED
    BY <1>0, <1>2, <2>1, GotoType DEF Labels
<1>3. ASSUME NEW s, SessionOK(s), Goto(w, "respond_item", s), s.lines \in Seq(Item),
             s.id = sess[w].id, pc[w] \in {"respond", "respond_item"}
      PROVE  TypeOK'
  <2>1. pc'[w] = "respond_item" /\ sess'[w] = s /\ req' = req
    BY <1>3 DEF Goto, TypeOK
  <2>2. ControlOK(w)'
    BY <1>0, <1>3, <2>1 DEF ControlOK, Responding, OrderOps, OrderShown
  <2> QED
    BY <1>0, <1>3, <2>2, GotoType DEF Labels
<1>4. ASSUME NEW lines \in Seq(Item), NEW read, IsTable(read, Int \cup {Null})
      PROVE  LET s == [sess[w] EXCEPT !.lines = lines, !.read = read]
             IN  SessionOK(s) /\ s.lines \in Seq(Item) /\ s.id = sess[w].id
  BY <1>0, <1>4 DEF SessionOK, NewSession
<1>5. CASE /\ respond_items(w)
           /\ Goto(w, "respond_item",
                [sess[w] EXCEPT !.lines = purchase_orders[sess[w].id].items])
  <2> DEFINE items == purchase_orders[sess[w].id].items
             s == [sess[w] EXCEPT !.lines = items]
  <2>1. pc[w] = "respond" /\ items \in Seq(Item)
    BY <1>0, <1>5 DEF respond_items, ControlOK, Responding, TypeOK, TablesOK, IsTable, Order
  <2>2. SessionOK(s) /\ s.lines \in Seq(Item) /\ s.id = sess[w].id
    BY <1>0, <2>1 DEF SessionOK, NewSession
  <2>3. Goto(w, "respond_item", s)
    BY <1>5
  <2> HIDE DEF s
  <2> QED
    BY <1>3, <2>1, <2>2, <2>3
<1>6. CASE /\ respond_item(w) /\ sess[w].lines # <<>>
           /\ \E label, s : Goto(w, label, s)
  <2> DEFINE m == Head(sess[w].lines).material
             known == m \in DOMAIN sess[w].read \cup DOMAIN materials
             s1 == [sess[w] EXCEPT !.lines = Tail(sess[w].lines),
                                   !.read = InsertRow(sess[w].read, m, Loaded(w, m))]
             s2 == [sess[w] EXCEPT !.lines = Tail(sess[w].lines)]
  <2>1. /\ pc[w] = "respond_item" /\ sess[w].lines \in Seq(Item)
        /\ Tail(sess[w].lines) \in Seq(Item)
    BY <1>0, <1>6 DEF respond_item, ControlOK
  <2>2. s2.lines \in Seq(Item) /\ s2.id = sess[w].id /\ SessionOK(s2)
    BY <1>0, <2>1 DEF SessionOK, NewSession
  <2>3. ASSUME known
        PROVE  s1.lines \in Seq(Item) /\ s1.id = sess[w].id /\ SessionOK(s1)
    <3>1. m \in Key /\ Loaded(w, m) \in Int \cup {Null}
      BY <1>0, <2>3 DEF Loaded, SessionOK, IsTable, TypeOK, TablesOK
    <3>2. IsTable(InsertRow(sess[w].read, m, Loaded(w, m)), Int \cup {Null})
      BY <1>0, <3>1, InsertRowType DEF SessionOK
    <3> QED
      BY <1>0, <2>1, <3>2 DEF SessionOK, NewSession
  <2>4. \/ Goto(w, "respond_item", s1) /\ known
        \/ Goto(w, "respond_item", s2)
        \/ \E code : Answer(w, code)
    BY <1>6 DEF respond_item
  <2> HIDE DEF s1, s2
  <2> QED
    BY <1>1, <1>3, <2>1, <2>2, <2>3, <2>4
<1> QED
  BY <1>1, <1>2, <1>5, <1>6 DEF Respond, refresh, respond_items, respond_item, respond

LEMMA TypeNext == TypeOK /\ [Next]_vars => TypeOK'
<1> SUFFICES ASSUME TypeOK, [Next]_vars PROVE TypeOK'
  OBVIOUS
<1>1. CASE UNCHANGED vars
  BY <1>1 DEF vars, TypeOK, TablesOK, IsTable, ControlOK
<1>2. ASSUME NEW w \in Workers, NEW r \in Request, Accept(w, r)
      PROVE  TypeOK'
  BY <1>2, AcceptType
<1>3. ASSUME NEW w \in Workers, Purchase(w) PROVE TypeOK'
  BY <1>3, CreateOrderType, LoadOrderType, OrderCommitType, ReceiveType DEF Purchase
<1>4. ASSUME NEW w \in Workers, Stock(w) PROVE TypeOK'
  BY <1>4, UpdateMaterialType, StockType DEF Stock
<1>5. ASSUME NEW w \in Workers, Respond(w) \/ database_locked(w) \/ stale_row(w)
      PROVE  TypeOK'
  BY <1>5, RespondType, AnswerType, SameTables DEF database_locked, stale_row
<1>6. ASSUME NEW w \in Workers, Crash(w) PROVE TypeOK'
  <2>1. TablesOK' /\ lock' \in Workers \cup {Null} /\ purchase_orders' = purchase_orders
    BY <1>6 DEF Crash, TypeOK, TablesOK, IsTable
  <2> QED
    BY <1>6, <2>1, AnswerType DEF Crash
<1> QED
  BY <1>1, <1>2, <1>3, <1>4, <1>5, <1>6 DEF Next, Step

(***************************************************************************)
(* Every row and every session keeps the shape the code gives it, and a    *)
(* worker's session fits its statement: no statement of a handler works on *)
(* an order row that is not there.                                         *)
(***************************************************************************)
THEOREM TypeCorrect == Spec => []TypeOK
BY TypeInit, TypeNext, PTL DEF Spec

-----------------------------------------------------------------------------
(***************************************************************************)
(* What the write lock and the transactions of the handlers guarantee.     *)
(* TypeOK and WriteLockHeld are the inductive part; the invariants here    *)
(* say what they lack about the sessions.                                  *)
(***************************************************************************)

(***************************************************************************)
(* A new order has no items before its row is flushed.  Without this       *)
(* VerifiedItemsExist is not inductive: the flush itself would have to     *)
(* verify them.                                                            *)
(***************************************************************************)
NothingBeforeFlush == \A w \in Workers : pc[w] = "insert_order" => sess[w].items = <<>>

VerifiedInv == TypeOK /\ LockInv /\ NothingBeforeFlush /\ VerifiedItemsExist

(***************************************************************************)
(* A step of w that takes no material away keeps what the other workers    *)
(* verified.                                                               *)
(***************************************************************************)
LEMMA OthersVerified ==
  ASSUME VerifiedInv, NEW w \in Workers, NEW label, NEW s,
         pc' = [pc EXCEPT ![w] = label], sess' = [sess EXCEPT ![w] = s],
         DOMAIN materials \subseteq DOMAIN materials',
         label = "insert_order" => s.items = <<>>,
         label = "verify_item" =>
           \A k \in DOMAIN s.items : s.items[k].material \in DOMAIN materials'
  PROVE  NothingBeforeFlush' /\ VerifiedItemsExist'
<1>1. ASSUME NEW v \in Workers, v # w
      PROVE  pc'[v] = pc[v] /\ sess'[v] = sess[v]
  BY <1>1 DEF VerifiedInv, TypeOK
<1>2. pc'[w] = label /\ sess'[w] = s
  BY DEF VerifiedInv, TypeOK
<1>3. NothingBeforeFlush'
  BY <1>1, <1>2 DEF VerifiedInv, NothingBeforeFlush
<1>4. VerifiedItemsExist'
  BY <1>1, <1>2 DEF VerifiedInv, VerifiedItemsExist
<1> QED
  BY <1>3, <1>4

LEMMA VerifiedByGoto ==
  ASSUME VerifiedInv, NEW w \in Workers, NEW label, NEW s, Goto(w, label, s),
         DOMAIN materials \subseteq DOMAIN materials',
         label \notin {"insert_order", "verify_item"}
  PROVE  NothingBeforeFlush' /\ VerifiedItemsExist'
BY OthersVerified DEF Goto

LEMMA VerifiedByAnswer ==
  ASSUME VerifiedInv, NEW w \in Workers, NEW code, Answer(w, code),
         DOMAIN materials \subseteq DOMAIN materials'
  PROVE  NothingBeforeFlush' /\ VerifiedItemsExist'
BY OthersVerified DEF Answer

LEMMA VerifiedInit == Init => VerifiedInv
BY TypeInit, LockInvInit
DEF Init, VerifiedInv, NothingBeforeFlush, VerifiedItemsExist

LEMMA VerifiedPurchase ==
  ASSUME VerifiedInv, NEW w \in Workers, Purchase(w)
  PROVE  NothingBeforeFlush' /\ VerifiedItemsExist'
<1>0. SessionOK(sess[w]) /\ ControlOK(w)
  BY DEF VerifiedInv, TypeOK
<1>1. CASE create_purchase_order(w)
  <2>1. PICK key \in NextKeys(purchase_orders) :
          Goto(w, "verify_item", [sess[w] EXCEPT !.id = key])
    BY <1>1 DEF create_purchase_order
  <2>2. sess[w].items = <<>>
    BY <1>1 DEF create_purchase_order, At, VerifiedInv, NothingBeforeFlush
  <2> DEFINE s == [sess[w] EXCEPT !.id = key]
  <2>3. s.items = <<>>
    BY <1>0, <2>2 DEF SessionOK, NewSession
  <2>4. pc' = [pc EXCEPT ![w] = "verify_item"] /\ sess' = [sess EXCEPT ![w] = s]
        /\ materials' = materials
    BY <1>1, <2>1 DEF create_purchase_order, Goto
  <2>5. \A k \in DOMAIN s.items : s.items[k].material \in DOMAIN materials'
    BY <2>3
  <2> HIDE DEF s
  <2> QED
    BY <2>3, <2>4, <2>5, OthersVerified
<1>2. CASE create_item(w)
  <2> DEFINE line == Head(sess[w].lines)
             price == line.quantity * line.unit_price
             item == [material |-> line.material, quantity |-> line.quantity,
                      total_price |-> price]
             s == [sess[w] EXCEPT !.lines = Tail(sess[w].lines),
                                  !.items = Append(sess[w].items, item),
                                  !.total = sess[w].total + price]
  <2>1. Goto(w, "verify_item", s) /\ materials' = materials
        /\ item.material \in DOMAIN materials /\ pc[w] = "verify_item"
    BY <1>2 DEF create_item, db, At
  <2>2. s.items = Append(sess[w].items, item)
    BY <1>0 DEF SessionOK, NewSession
  <2>3. sess[w].items \in Seq(Item)
    BY <1>0 DEF SessionOK
  <2>4. \A k \in DOMAIN sess[w].items : sess[w].items[k].material \in DOMAIN materials
    BY <2>1 DEF VerifiedInv, VerifiedItemsExist
  <2> HIDE DEF item, s
  <2>5. ASSUME NEW k \in DOMAIN s.items PROVE s.items[k].material \in DOMAIN materials
    <3> DEFINE old == sess[w].items
    <3>1. old \in Seq(Item) /\ s.items = Append(old, item)
      BY <2>2, <2>3
    <3>2. item \in Item
      <4>1. line \in Line
        BY <1>0, <1>2 DEF create_item, ControlOK, At
      <4> QED
        BY <4>1 DEF Line, Item, item
    <3> HIDE DEF old
    <3>3. \/ k \in DOMAIN old /\ s.items[k] = old[k]
          \/ s.items[k] = item
      BY <3>1, <3>2, <2>5
    <3> QED
      BY <3>3, <2>1, <2>4 DEF old
  <2> QED
    BY <2>1, <2>5, OthersVerified DEF Goto
<1>3. CASE create_item_unknown_material(w)
  BY <1>3, VerifiedByAnswer DEF create_item_unknown_material
<1>4. CASE create_commit(w)
  BY <1>4, VerifiedByGoto DEF create_commit
<1>5. CASE order_not_found(w) \/ order_not_loadable(w) \/ order_refused(w)
  BY <1>5, VerifiedByAnswer DEF order_not_found, order_not_loadable, order_refused, db
<1>6. CASE \/ update_purchase_order(w) \/ approve_order(w) \/ cancel_order(w)
           \/ receive_order(w)
  BY <1>6, VerifiedByGoto
  DEF update_purchase_order, approve_order, cancel_order, receive_order, Stage, db
<1>7. CASE order_commit(w)
  BY <1>7, VerifiedByGoto DEF order_commit
<1>8. CASE receive_load_items(w) \/ receive_item(w)
  BY <1>8, VerifiedByGoto DEF receive_load_items, receive_item, db
<1>9. CASE receive_item_no_stock(w)
  BY <1>9, VerifiedByAnswer DEF receive_item_no_stock, db
<1>10. CASE receive_commit(w)
  <2>1. DOMAIN materials' = DOMAIN materials
    BY <1>10 DEF receive_commit, FlushMaterials
  <2> QED
    BY <1>10, <2>1, VerifiedByGoto DEF receive_commit
<1> QED
  BY <1>1, <1>2, <1>3, <1>4, <1>5, <1>6, <1>7, <1>8, <1>9, <1>10 DEF Purchase

LEMMA VerifiedStock ==
  ASSUME VerifiedInv, NEW w \in Workers, Stock(w)
  PROVE  NothingBeforeFlush' /\ VerifiedItemsExist'
<1>1. CASE create_material(w)
  <2>1. DOMAIN materials \subseteq DOMAIN materials'
    BY <1>1 DEF create_material, InsertRow
  <2> QED
    BY <1>1, <2>1, VerifiedByGoto DEF create_material
<1>2. CASE material_not_found(w) \/ reorder_material(w)
  BY <1>2, VerifiedByAnswer DEF material_not_found, reorder_material, db
<1>3. CASE update_material(w) \/ delete_material(w) \/ delete_load_items(w)
  BY <1>3, VerifiedByGoto DEF update_material, delete_material, delete_load_items, db
<1>4. CASE update_material_commit(w)
  <2>1. DOMAIN materials' = DOMAIN materials
    BY <1>4 DEF update_material_commit, FlushMaterials
  <2> QED
    BY <1>4, <2>1, VerifiedByGoto DEF update_material_commit
\* only here a material goes, and then nobody is verifying items
<1>5. CASE delete_commit(w)
  <2>1. ASSUME NEW v \in Workers PROVE pc[v] # "verify_item"
    BY <1>5, NullAssumption
    DEF delete_commit, CanWrite, At, VerifiedInv, LockInv, WriteLockHeld
  <2>2. pc' = [pc EXCEPT ![w] = "idle"] /\ sess' = [sess EXCEPT ![w] = NewSession]
    BY <1>5 DEF delete_commit, Answer
  <2>3. ASSUME NEW v \in Workers, pc'[v] \in {"insert_order", "verify_item"}
        PROVE  v # w /\ pc'[v] = pc[v] /\ sess'[v] = sess[v]
    BY <2>2, <2>3 DEF VerifiedInv, TypeOK
  <2>4. VerifiedItemsExist'
    BY <2>1, <2>3 DEF VerifiedItemsExist
  <2> QED
    BY <2>3, <2>4 DEF VerifiedInv, NothingBeforeFlush
<1> QED
  BY <1>1, <1>2, <1>3, <1>4, <1>5 DEF Stock

LEMMA VerifiedNext == VerifiedInv /\ [Next]_vars => VerifiedInv'
<1> SUFFICES ASSUME VerifiedInv, [Next]_vars PROVE VerifiedInv'
  OBVIOUS
<1>0. TypeOK' /\ LockInv'
  BY TypeNext, LockInvNext DEF VerifiedInv
<1>1. CASE UNCHANGED vars
  BY <1>0, <1>1 DEF VerifiedInv, NothingBeforeFlush, VerifiedItemsExist, vars
<1>2. ASSUME NEW w \in Workers, NEW r \in Request, Accept(w, r)
      PROVE  NothingBeforeFlush' /\ VerifiedItemsExist'
  <2> DEFINE s == [NewSession EXCEPT !.lines =
                     IF r.op = "create_purchase_order" THEN r.lines ELSE <<>>]
  <2>1. s.items = <<>>
    BY DEF NewSession
  <2>2. pc' = [pc EXCEPT ![w] = FirstStatement[r.op]] /\ sess' = [sess EXCEPT ![w] = s]
        /\ materials' = materials
    BY <1>2 DEF Accept, db
  <2> HIDE DEF s
  <2> QED
    BY <2>1, <2>2, FirstStatementIsLabel, OthersVerified
<1>3. ASSUME NEW w \in Workers, Respond(w) \/ database_locked(w) \/ stale_row(w)
      PROVE  NothingBeforeFlush' /\ VerifiedItemsExist'
  BY <1>3, RespondEnds, VerifiedByAnswer, VerifiedByGoto DEF database_locked, stale_row, db
<1>4. ASSUME NEW w \in Workers, Crash(w)
      PROVE  NothingBeforeFlush' /\ VerifiedItemsExist'
  BY <1>4, VerifiedByAnswer DEF Crash
<1> QED
  BY <1>0, <1>1, <1>2, <1>3, <1>4, VerifiedPurchase, VerifiedStock
  DEF Next, Step, VerifiedInv

(***************************************************************************)
(* The materials that create_purchase_order has looked up still exist when *)
(* it commits, for any number of workers: from the flush on it has the     *)
(* write lock, and delete_material cannot commit without it.               *)
(***************************************************************************)
THEOREM VerifiedItemsStay == Spec => []VerifiedItemsExist
<1>1. VerifiedInv => VerifiedItemsExist
  BY DEF VerifiedInv
<1> QED
  BY <1>1, VerifiedInit, VerifiedNext, PTL DEF Spec

-----------------------------------------------------------------------------
(***************************************************************************)
(* DELIVERED.  A PUT may write any status the client names, so the theorem *)
(* is about clients that leave DELIVERED to receive_order: one that PUTs   *)
(* DELIVERED delivers an order of which nothing was received.              *)
(***************************************************************************)
\* a session about to commit DELIVERED is one of receive_order
DeliveryStaged ==
  \A w \in Workers : pc[w] = "commit" /\ req[w].op \in OrderOps => "DELIVERED" \notin sess[w].put

DeliveredInv == TypeOK /\ DeliveryStaged /\ DeliveredWasReceived

LEMMA OthersStaged ==
  ASSUME DeliveredInv, NEW w \in Workers, NEW label, NEW s, NEW r,
         pc' = [pc EXCEPT ![w] = label], sess' = [sess EXCEPT ![w] = s],
         req'[w] = r, \A v \in Workers \ {w} : req'[v] = req[v],
         label = "commit" /\ r.op \in OrderOps => "DELIVERED" \notin s.put
  PROVE  DeliveryStaged'
<1>1. ASSUME NEW v \in Workers, v # w
      PROVE  pc'[v] = pc[v] /\ sess'[v] = sess[v] /\ req'[v] = req[v]
  BY <1>1 DEF DeliveredInv, TypeOK
<1>2. pc'[w] = label /\ sess'[w] = s
  BY DEF DeliveredInv, TypeOK
<1> QED
  BY <1>1, <1>2 DEF DeliveredInv, DeliveryStaged

LEMMA StagedByGoto ==
  ASSUME DeliveredInv, NEW w \in Workers, NEW label, NEW s, Goto(w, label, s),
         label = "commit" /\ req[w].op \in OrderOps => "DELIVERED" \notin s.put
  PROVE  DeliveryStaged'
<1>1. \A v \in Workers : req'[v] = req[v]
  BY DEF Goto
<1> QED
  BY <1>1, OthersStaged DEF Goto

LEMMA StagedByAnswer ==
  ASSUME DeliveredInv, NEW w \in Workers, NEW code, Answer(w, code)
  PROVE  DeliveryStaged'
<1>1. \A v \in Workers \ {w} : req'[v] = req[v]
  BY DEF Answer, DeliveredInv, TypeOK
<1> QED
  BY <1>1, OthersStaged DEF Answer

\* Nothing is written to the orders and their receipts.
LEMMA OrdersUntouched ==
  ASSUME DeliveredInv, UNCHANGED <<purchase_orders, receipts>>
  PROVE  DeliveredWasReceived'
BY DEF DeliveredInv, DeliveredWasReceived

LEMMA DeliveredInit == Init => DeliveredInv
BY TypeInit DEF Init, DeliveredInv, DeliveryStaged, DeliveredWasReceived, EmptyTable

\* A status other than DELIVERED is written.
LEMMA OtherStatusWritten ==
  ASSUME DeliveredInv, NEW w \in Workers, WriteStatus(w), sess[w].put \subseteq StoredStatus,
         "DELIVERED" \notin sess[w].put, CountAnew(w)
  PROVE  DeliveredWasReceived'
<1>1. PICK status \in sess[w].put :
        purchase_orders' = [purchase_orders EXCEPT ![sess[w].id].status = status]
  BY DEF WriteStatus
<1>2. ASSUME NEW o \in DOMAIN purchase_orders
      PROVE  /\ o = sess[w].id => purchase_orders'[o].status = status
             /\ o # sess[w].id => purchase_orders'[o] = purchase_orders[o]
  <2>1. purchase_orders[o] \in Order
    BY DEF DeliveredInv, TypeOK, TablesOK, IsTable
  <2>2. purchase_orders \in [DOMAIN purchase_orders -> Order]
    BY DEF DeliveredInv, TypeOK, TablesOK, IsTable
  <2> QED
    BY <1>1, <2>1, <2>2 DEF Order
<1>3. /\ DOMAIN purchase_orders' = DOMAIN purchase_orders
      /\ DOMAIN receipts = DOMAIN purchase_orders
  BY <1>1 DEF DeliveredInv, TypeOK, TablesOK
<1>4. \A o \in DOMAIN receipts : o # sess[w].id => receipts'[o] = receipts[o]
  BY CountAnewType DEF DeliveredInv
<1> QED
  BY <1>1, <1>2, <1>3, <1>4 DEF DeliveredInv, DeliveredWasReceived

LEMMA DeliveredPurchase ==
  ASSUME "DELIVERED" \notin PutStatus, DeliveredInv, NEW w \in Workers, Purchase(w)
  PROVE  DeliveryStaged' /\ DeliveredWasReceived'
<1>0. SessionOK(sess[w]) /\ ControlOK(w) /\ TablesOK
  BY DEF DeliveredInv, TypeOK
<1>1. CASE create_purchase_order(w) \/ create_item(w)
  BY <1>1, StagedByGoto, OrdersUntouched DEF create_purchase_order, create_item, db
<1>2. CASE create_item_unknown_material(w)
  BY <1>2, StagedByAnswer, OrdersUntouched DEF create_item_unknown_material
<1>3. CASE create_commit(w)
  <2>1. DeliveryStaged'
    BY <1>3, StagedByGoto DEF create_commit
  <2>2. ASSUME NEW o \in DOMAIN purchase_orders', purchase_orders'[o].status = "DELIVERED"
        PROVE  o # sess[w].id /\ o \in DOMAIN purchase_orders
               /\ purchase_orders'[o] = purchase_orders[o] /\ receipts'[o] = receipts[o]
    BY <1>0, <1>3, <2>2 DEF create_commit, InsertRow, TablesOK
  <2> QED
    BY <2>1, <2>2 DEF DeliveredInv, DeliveredWasReceived
<1>4. CASE order_not_found(w) \/ order_not_loadable(w) \/ order_refused(w)
  BY <1>4, StagedByAnswer, OrdersUntouched
  DEF order_not_found, order_not_loadable, order_refused, db
<1>5. CASE update_purchase_order(w) \/ approve_order(w) \/ cancel_order(w)
  <2>1. PICK put : Stage(w, "commit", put) /\ "DELIVERED" \notin put
    <3>1. CASE update_purchase_order(w)
      <4>1. req[w].status \in PutStatus
        BY <1>0, <3>1 DEF update_purchase_order, At, ControlOK, Request
      <4> QED
        BY <3>1, <4>1 DEF update_purchase_order
    <3>2. CASE approve_order(w)
      BY <3>2 DEF approve_order
    <3>3. CASE cancel_order(w)
      BY <3>3 DEF cancel_order
    <3> QED
      BY <1>5, <3>1, <3>2, <3>3
  <2> DEFINE s == [sess[w] EXCEPT !.id = req[w].order, !.put = put]
  <2>2. Goto(w, "commit", s) /\ s.put = put
    BY <1>0, <2>1 DEF Stage, SessionOK, NewSession
  <2>3. UNCHANGED db
    BY <1>5 DEF update_purchase_order, approve_order, cancel_order
  <2> HIDE DEF s
  <2> QED
    BY <2>1, <2>2, <2>3, StagedByGoto, OrdersUntouched DEF db
<1>6. CASE order_commit(w)
  <2>1. DeliveryStaged'
    BY <1>6, StagedByGoto DEF order_commit
  <2>2. "DELIVERED" \notin sess[w].put
    BY <1>6 DEF order_commit, DeliveredInv, DeliveryStaged, OrderOps
  <2> QED
    BY <1>0, <1>6, <2>1, <2>2, OtherStatusWritten, OrdersUntouched DEF order_commit, SessionOK
<1>7. CASE receive_order(w) \/ receive_load_items(w) \/ receive_item(w)
  BY <1>7, StagedByGoto, OrdersUntouched
  DEF receive_order, receive_load_items, receive_item, Stage, db
<1>8. CASE receive_item_no_stock(w)
  BY <1>8, StagedByAnswer, OrdersUntouched DEF receive_item_no_stock, db
\* the only commit of DELIVERED counts a receipt in the same transaction
<1>9. CASE receive_commit(w)
  <2>1. DeliveryStaged'
    BY <1>9, StagedByGoto DEF receive_commit
  <2> DEFINE id == sess[w].id
  <2>2. /\ receipts \in [DOMAIN receipts -> Nat] /\ DOMAIN receipts = DOMAIN purchase_orders
        /\ id \in DOMAIN purchase_orders
    BY <1>0, <1>9 DEF TablesOK, IsTable, receive_commit, At, ControlOK
  <2>3. receipts' = [receipts EXCEPT ![id] = receipts[id] + 1]
    BY <1>9 DEF receive_commit
  <2>4. ASSUME NEW o \in DOMAIN purchase_orders, o # id
        PROVE  purchase_orders'[o] = purchase_orders[o]
    BY <1>9, <2>4 DEF receive_commit, WriteStatus
  <2>5. DOMAIN purchase_orders' = DOMAIN purchase_orders
    BY <1>9 DEF receive_commit, WriteStatus
  <2> HIDE DEF id
  <2>6. receipts'[id] > 0 /\ \A o \in DOMAIN receipts : o # id => receipts'[o] = receipts[o]
    BY <2>2, <2>3
  <2> QED
    BY <2>1, <2>2, <2>4, <2>5, <2>6 DEF DeliveredInv, DeliveredWasReceived
<1> QED
  BY <1>1, <1>2, <1>3, <1>4, <1>5, <1>6, <1>7, <1>8, <1>9 DEF Purchase

LEMMA DeliveredStock ==
  ASSUME DeliveredInv, NEW w \in Workers, Stock(w)
  PROVE  DeliveryStaged' /\ DeliveredWasReceived'
<1>0. ControlOK(w) /\ TablesOK
  BY DEF DeliveredInv, TypeOK
<1>1. CASE create_material(w) \/ update_material_commit(w)
  BY <1>1, StagedByGoto, OrdersUntouched DEF create_material, update_material_commit
<1>2. CASE material_not_found(w) \/ reorder_material(w)
  BY <1>2, StagedByAnswer, OrdersUntouched DEF material_not_found, reorder_material, db
<1>3. CASE update_material(w) \/ delete_material(w) \/ delete_load_items(w)
  BY <1>3, StagedByGoto, OrdersUntouched
  DEF update_material, delete_material, delete_load_items, At, OrderOps, db
\* detaching items leaves the status alone
<1>4. CASE delete_commit(w)
  <2>1. DeliveryStaged'
    BY <1>4, StagedByAnswer DEF delete_commit
  <2>2. ASSUME NEW o \in DOMAIN purchase_orders
        PROVE  purchase_orders'[o].status = purchase_orders[o].status
    <3>1. purchase_orders[o] \in Order
      BY <1>0 DEF TablesOK, IsTable
    <3> QED
      BY <1>4, <3>1 DEF delete_commit, Detach, Order
  <2>3. DOMAIN purchase_orders' = DOMAIN purchase_orders /\ receipts' = receipts
    BY <1>4 DEF delete_commit
  <2> QED
    BY <2>1, <2>2, <2>3 DEF DeliveredInv, DeliveredWasReceived
<1> QED
  BY <1>1, <1>2, <1>3, <1>4 DEF Stock

LEMMA DeliveredNext ==
  ASSUME "DELIVERED" \notin PutStatus
  PROVE  DeliveredInv /\ [Next]_vars => DeliveredInv'
<1> SUFFICES ASSUME DeliveredInv, [Next]_vars PROVE DeliveredInv'
  OBVIOUS
<1>0. TypeOK'
  BY TypeNext DEF DeliveredInv
<1>1. CASE UNCHANGED vars
  BY <1>0, <1>1 DEF DeliveredInv, DeliveryStaged, DeliveredWasReceived, vars
<1>2. ASSUME NEW w \in Workers, NEW r \in Request, Accept(w, r)
      PROVE  DeliveryStaged' /\ DeliveredWasReceived'
  <2>1. FirstStatement[r.op] = "commit" => r.op \notin OrderOps
    BY DEF FirstStatement, OrderOps, Request
  <2>2. req'[w] = r /\ \A v \in Workers \ {w} : req'[v] = req[v]
    BY <1>2 DEF Accept, DeliveredInv, TypeOK
  <2> QED
    BY <1>2, <2>1, <2>2, OthersStaged, OrdersUntouched DEF Accept, db
<1>3. ASSUME NEW w \in Workers, Respond(w) \/ database_locked(w) \/ stale_row(w)
      PROVE  DeliveryStaged' /\ DeliveredWasReceived'
  BY <1>3, RespondEnds, StagedByAnswer, StagedByGoto, OrdersUntouched
  DEF database_locked, stale_row, db
<1>4. ASSUME NEW w \in Workers, Crash(w)
      PROVE  DeliveryStaged' /\ DeliveredWasReceived'
  BY <1>4, StagedByAnswer, OrdersUntouched DEF Crash
<1> QED
  BY <1>0, <1>1, <1>2, <1>3, <1>4, DeliveredPurchase, DeliveredStock
  DEF Next, Step, DeliveredInv

(***************************************************************************)
(* However many workers there are and whenever they die: while no client   *)
(* writes DELIVERED with a PUT, an order that says DELIVERED has had its   *)
(* items added to the stock, because receive_order commits both at once.   *)
(***************************************************************************)
THEOREM DeliveredMeansReceived ==
  ASSUME "DELIVERED" \notin PutStatus
  PROVE  Spec => []DeliveredWasReceived
<1>1. DeliveredInv => DeliveredWasReceived
  BY DEF DeliveredInv
<1> QED
  BY <1>1, DeliveredInit, DeliveredNext, PTL DEF Spec
=============================================================================
