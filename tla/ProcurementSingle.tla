-------------------------- MODULE ProcurementSingle --------------------------
(***************************************************************************)
(* `python main.py`: one worker.  No other connection changes a row        *)
(* between two statements of a handler, so what its session has read is    *)
(* still in the tables when it commits.  For two workers the first three   *)
(* theorems are false: the run lost_stock_update contradicts the first, two *)
(* receipts of one order that overlap the second, and an order committed   *)
(* during a delete_material the third.                                     *)
(***************************************************************************)
EXTENDS ProcurementProofs

(***************************************************************************)
(* The session of receive_order: for every material it has touched, the    *)
(* loaded value is the row's, and the pending value exceeds it by what was *)
(* added.  The session of update_material holds the row and its new value. *)
(***************************************************************************)
Untouched(s) == DOMAIN s.read = {} /\ DOMAIN s.new = {} /\ DOMAIN s.added = {}

Accumulates(s) ==
  /\ DOMAIN s.read = DOMAIN s.new /\ DOMAIN s.added = DOMAIN s.new
  /\ DOMAIN s.new \subseteq DOMAIN materials
  /\ \A m \in DOMAIN s.new :
       s.read[m] = materials[m] /\ s.read[m] # Null /\ s.new[m] = s.read[m] + s.added[m]

Assigns(s, stock) ==
  /\ DOMAIN s.read = {s.id} /\ DOMAIN s.new = {s.id}
  /\ s.id \in DOMAIN materials
  /\ s.read[s.id] = materials[s.id] /\ s.new[s.id] = stock

SessionAgrees(w) ==
  /\ pc[w] \in {"load_order", "load_items"} => Untouched(sess[w])
  /\ pc[w] = "add_item" => Accumulates(sess[w])
  /\ pc[w] = "commit" /\ req[w].op = "update_material" => Assigns(sess[w], req[w].stock)

LedgerInv == TypeOK /\ StockIsLedger /\ \A w \in Workers : SessionAgrees(w)

LEMMA LedgerByAnswer ==
  ASSUME LedgerInv, NEW w, Workers = {w}, NEW code, Answer(w, code), materials' = ledger'
  PROVE  StockIsLedger' /\ SessionAgrees(w)'
<1>1. pc'[w] = "idle"
  BY DEF Answer, LedgerInv, TypeOK
<1> QED
  BY <1>1 DEF StockIsLedger, SessionAgrees

LEMMA LedgerByGoto ==
  ASSUME LedgerInv, NEW w, Workers = {w}, NEW label, NEW s, Goto(w, label, s),
         materials' = ledger', label \notin {"load_order", "load_items", "add_item"},
         label = "commit" => req[w].op # "update_material"
  PROVE  StockIsLedger' /\ SessionAgrees(w)'
<1>1. pc'[w] = label /\ req' = req
  BY DEF Goto, LedgerInv, TypeOK
<1> QED
  BY <1>1 DEF StockIsLedger, SessionAgrees

LEMMA SameStock == LedgerInv /\ UNCHANGED <<materials, ledger>> => materials' = ledger'
BY DEF LedgerInv, StockIsLedger

LEMMA LedgerInit == Init => LedgerInv
BY TypeInit DEF Init, LedgerInv, StockIsLedger, SessionAgrees

\* One more item of material m keeps the shape.
LEMMA AccumulateRow ==
  ASSUME NEW s, NEW t, Accumulates(s), NEW m \in DOMAIN materials,
         NEW value, value = materials[m], value # Null, NEW sum,
         t.read = InsertRow(s.read, m, value), t.added = InsertRow(s.added, m, sum),
         t.new = InsertRow(s.new, m, value + sum)
  PROVE  Accumulates(t)
<1>1. /\ DOMAIN t.read = DOMAIN s.read \cup {m} /\ DOMAIN t.new = DOMAIN s.new \cup {m}
      /\ DOMAIN t.added = DOMAIN s.added \cup {m}
  BY DEF InsertRow
<1>2. ASSUME NEW k \in DOMAIN t.new
      PROVE  t.read[k] = materials[k] /\ t.read[k] # Null /\ t.new[k] = t.read[k] + t.added[k]
  <2>1. CASE k = m
    BY <2>1 DEF InsertRow
  <2>2. CASE k # m
    <3>1. k \in DOMAIN s.new /\ k \in DOMAIN s.read /\ k \in DOMAIN s.added
      BY <1>1, <2>2 DEF Accumulates
    <3>2. t.new[k] = s.new[k] /\ t.read[k] = s.read[k] /\ t.added[k] = s.added[k]
      BY <2>2, <3>1 DEF InsertRow
    <3> QED
      BY <3>1, <3>2 DEF Accumulates
  <2> QED
    BY <2>1, <2>2
<1> QED
  BY <1>1, <1>2 DEF Accumulates

LEMMA LedgerReceiveItem ==
  ASSUME LedgerInv, NEW w, Workers = {w}, receive_item(w)
  PROVE  StockIsLedger' /\ SessionAgrees(w)'
<1> DEFINE item == Head(sess[w].lines)
           m == item.material
<1>0. /\ SessionOK(sess[w]) /\ ControlOK(w) /\ Accumulates(sess[w])
      /\ IsTable(materials, Int \cup {Null})
      /\ pc[w] = "add_item" /\ sess[w].lines # <<>> /\ UNCHANGED <<materials, ledger>>
  BY DEF LedgerInv, TypeOK, TablesOK, SessionAgrees, receive_item, At, db
<1>1. item \in Item
  BY <1>0 DEF ControlOK
<1>2. materials' = ledger'
  BY <1>0, SameStock
<1>3. PICK s : /\ Goto(w, "add_item", s)
               /\ Accumulates(s)
  <2>1. CASE /\ m \in DOMAIN materials
             /\ StockSeen(w, m) # Null
             /\ Goto(w, "add_item", AddStock(w, m, item.quantity))
    <3> DEFINE s == AddStock(w, m, item.quantity)
    <3>1. /\ s.read = InsertRow(sess[w].read, m, Loaded(w, m))
          /\ s.new = InsertRow(sess[w].new, m, StockSeen(w, m) + item.quantity)
          /\ s.added = InsertRow(sess[w].added, m, AddedSoFar(w, m) + item.quantity)
      BY <1>0 DEF AddStock, SessionOK, NewSession
    <3> DEFINE value == Loaded(w, m)
               added == AddedSoFar(w, m)
               q == item.quantity
    <3>2. /\ value = materials[m] /\ value # Null
          /\ StockSeen(w, m) = value + added
          /\ value \in Int /\ added \in Int
      <4>1. materials[m] \in Int \cup {Null}
        BY <1>0, <2>1 DEF IsTable
      <4>2. CASE m \in DOMAIN sess[w].new
        <5>1. sess[w].added[m] \in Int
          BY <1>0, <4>2 DEF Accumulates, SessionOK, IsTable
        <5>2. /\ value = sess[w].read[m] /\ added = sess[w].added[m]
              /\ StockSeen(w, m) = sess[w].new[m]
          BY <1>0, <4>2 DEF Accumulates, Loaded, StockSeen, AddedSoFar
        <5> QED
          BY <1>0, <4>1, <4>2, <5>1, <5>2 DEF Accumulates
      <4>3. CASE m \notin DOMAIN sess[w].new
        <5>1. value = materials[m] /\ added = 0 /\ StockSeen(w, m) = materials[m]
          BY <1>0, <4>3 DEF Accumulates, Loaded, StockSeen, AddedSoFar
        <5> QED
          BY <2>1, <4>1, <5>1
      <4> QED
        BY <4>2, <4>3
    <3>3. q \in Int
      BY <1>1 DEF Item
    <3>4. Goto(w, "add_item", s)
      BY <2>1
    <3>5. m \in DOMAIN materials /\ Accumulates(sess[w])
      BY <1>0, <2>1
    <3>6. /\ s.read = InsertRow(sess[w].read, m, value)
          /\ s.new = InsertRow(sess[w].new, m, value + (added + q))
          /\ s.added = InsertRow(sess[w].added, m, added + q)
      <4>1. StockSeen(w, m) + q = value + (added + q)
        <5> HIDE DEF value, added, q
        <5> QED
          BY <3>2, <3>3
      <4> QED
        BY <3>1, <4>1
    <3> HIDE DEF s, value, added, q, m
    <3> QED
      BY <3>2, <3>4, <3>5, <3>6, AccumulateRow
  <2>2. CASE Goto(w, "add_item", [sess[w] EXCEPT !.lines = Tail(sess[w].lines)])
    <3> DEFINE s == [sess[w] EXCEPT !.lines = Tail(sess[w].lines)]
    <3>1. s.read = sess[w].read /\ s.new = sess[w].new /\ s.added = sess[w].added
      BY <1>0 DEF SessionOK, NewSession
    <3>2. Accumulates(s)
      BY <1>0, <3>1 DEF Accumulates
    <3> QED
      BY <2>2, <3>2
  <2> QED
    BY <2>1, <2>2 DEF receive_item
<1>4. pc'[w] = "add_item" /\ sess'[w] = s
  BY <1>3 DEF Goto, LedgerInv, TypeOK
<1> QED
  BY <1>0, <1>2, <1>3, <1>4 DEF StockIsLedger, SessionAgrees, Accumulates

\* The UPDATEs of receive_order write the old stock plus what was added.
LEMMA LedgerReceiveCommit ==
  ASSUME LedgerInv, NEW w, Workers = {w}, receive_commit(w)
  PROVE  StockIsLedger' /\ SessionAgrees(w)'
<1> DEFINE new == sess[w].new
           added == sess[w].added
<1>0. /\ SessionOK(sess[w]) /\ Accumulates(sess[w]) /\ materials = ledger
      /\ IsTable(materials, Int \cup {Null})
  BY DEF LedgerInv, TypeOK, TablesOK, SessionAgrees, receive_commit, At, StockIsLedger
<1>1. materials' = [m \in DOMAIN materials |-> IF m \in Dirty(w) THEN new[m] ELSE materials[m]]
  BY DEF receive_commit, FlushMaterials
<1>2. ledger' = [m \in DOMAIN materials |->
                   IF m \in DOMAIN added /\ materials[m] # Null
                     THEN materials[m] + added[m] ELSE materials[m]]
  BY <1>0 DEF receive_commit
<1>3. ASSUME NEW m \in DOMAIN materials
      PROVE  (IF m \in Dirty(w) THEN new[m] ELSE materials[m])
             = IF m \in DOMAIN added /\ materials[m] # Null
                 THEN materials[m] + added[m] ELSE materials[m]
  <2>1. CASE m \in DOMAIN new
    <3>1. /\ m \in DOMAIN added /\ materials[m] # Null /\ new[m] = materials[m] + added[m]
          /\ materials[m] \in Int /\ added[m] \in Int /\ sess[w].read[m] = materials[m]
      BY <1>0, <2>1 DEF Accumulates, SessionOK, IsTable
    <3>2. m \notin Dirty(w) => new[m] = materials[m]
      BY <2>1, <3>1 DEF Dirty
    <3> QED
      BY <3>1, <3>2
  <2>2. CASE m \notin DOMAIN new
    BY <1>0, <2>2 DEF Dirty, Accumulates
  <2> QED
    BY <2>1, <2>2
<1>4. materials' = ledger'
  BY <1>1, <1>2, <1>3
<1> QED
  BY <1>4, LedgerByGoto DEF receive_commit

LEMMA LedgerPurchase ==
  ASSUME LedgerInv, NEW w, Workers = {w}, Purchase(w)
  PROVE  StockIsLedger' /\ SessionAgrees(w)'
<1>0. SessionOK(sess[w]) /\ ControlOK(w) /\ SessionAgrees(w)
  BY DEF LedgerInv, TypeOK
<1>1. CASE create_purchase_order(w) \/ create_item(w) \/ create_commit(w)
  <2>1. PICK label, s : label \in {"verify_item", "refresh"} /\ Goto(w, label, s)
    <3>1. CASE create_purchase_order(w)
      BY <3>1 DEF create_purchase_order
    <3>2. CASE create_item(w)
      BY <3>2 DEF create_item
    <3>3. CASE create_commit(w)
      BY <3>3 DEF create_commit
    <3> QED
      BY <1>1, <3>1, <3>2, <3>3
  <2>2. UNCHANGED <<materials, ledger>>
    BY <1>1 DEF create_purchase_order, create_item, create_commit, db
  <2> QED
    BY <2>1, <2>2, SameStock, LedgerByGoto
<1>2. CASE \/ create_item_unknown_material(w) \/ order_not_found(w) \/ order_not_loadable(w)
           \/ order_refused(w) \/ receive_item_no_stock(w)
  BY <1>2, SameStock, LedgerByAnswer
  DEF create_item_unknown_material, order_not_found, order_not_loadable, order_refused,
      receive_item_no_stock, db
<1>3. CASE update_purchase_order(w) \/ approve_order(w) \/ cancel_order(w)
  BY <1>3, SameStock, LedgerByGoto
  DEF update_purchase_order, approve_order, cancel_order, Stage, At, db
<1>4. CASE order_commit(w)
  BY <1>4, SameStock, LedgerByGoto DEF order_commit
\* receive_order begins with nothing loaded
<1>5. CASE receive_order(w)
  <2> DEFINE s == [sess[w] EXCEPT !.id = req[w].order, !.put = {"DELIVERED"}]
  <2>1. Goto(w, "load_items", s) /\ UNCHANGED db
    BY <1>5 DEF receive_order, Stage
  <2>2. Untouched(sess[w])
    BY <1>0, <1>5 DEF SessionAgrees, receive_order, At
  <2>3. Untouched(s)
    BY <1>0, <2>2 DEF Untouched, SessionOK, NewSession
  <2>4. pc'[w] = "load_items" /\ sess'[w] = s
    BY <2>1 DEF Goto, LedgerInv, TypeOK
  <2> HIDE DEF s
  <2> QED
    BY <2>1, <2>3, <2>4, SameStock DEF StockIsLedger, SessionAgrees, db
<1>6. CASE receive_load_items(w)
  <2> DEFINE s == [sess[w] EXCEPT !.lines = purchase_orders[sess[w].id].items]
  <2>1. Goto(w, "add_item", s) /\ UNCHANGED db
    BY <1>6 DEF receive_load_items
  <2>2. Untouched(sess[w])
    BY <1>0, <1>6 DEF SessionAgrees, receive_load_items, At
  <2>3. Untouched(s)
    BY <1>0, <2>2 DEF Untouched, SessionOK, NewSession
  <2>4. pc'[w] = "add_item" /\ sess'[w] = s
    BY <2>1 DEF Goto, LedgerInv, TypeOK
  <2> HIDE DEF s
  <2> QED
    BY <2>1, <2>3, <2>4, SameStock DEF StockIsLedger, SessionAgrees, Untouched, Accumulates, db
<1> QED
  BY <1>1, <1>2, <1>3, <1>4, <1>5, <1>6, LedgerReceiveItem, LedgerReceiveCommit DEF Purchase

LEMMA LedgerUpdate ==
  ASSUME LedgerInv, NEW w, Workers = {w}, update_material(w) \/ update_material_commit(w)
  PROVE  StockIsLedger' /\ SessionAgrees(w)'
<1>0. SessionOK(sess[w]) /\ SessionAgrees(w) /\ materials = ledger
  BY DEF LedgerInv, TypeOK, StockIsLedger
<1>1. CASE update_material(w)
  <2> DEFINE m == req[w].material
             s == [sess[w] EXCEPT !.id = m,
                                  !.read = InsertRow(EmptyTable, m, materials[m]),
                                  !.new = InsertRow(EmptyTable, m, req[w].stock)]
  <2>1. Goto(w, "commit", s) /\ UNCHANGED db /\ m \in DOMAIN materials
    BY <1>1 DEF update_material
  <2>2. /\ s.id = m /\ s.read = InsertRow(EmptyTable, m, materials[m])
        /\ s.new = InsertRow(EmptyTable, m, req[w].stock)
    BY <1>0 DEF SessionOK, NewSession
  <2>3. pc'[w] = "commit" /\ sess'[w] = s /\ req' = req
    BY <2>1 DEF Goto, LedgerInv, TypeOK
  <2> HIDE DEF s, m
  <2>4. Assigns(s, req[w].stock)
    BY <2>1, <2>2, EmptyTableType DEF Assigns, InsertRow
  <2> QED
    BY <2>1, <2>3, <2>4, SameStock DEF StockIsLedger, SessionAgrees, Assigns, db
<1>2. CASE update_material_commit(w)
  <2> DEFINE id == sess[w].id
             stock == req[w].stock
  <2>1. Assigns(sess[w], stock)
    BY <1>0, <1>2 DEF SessionAgrees, update_material_commit, At
  <2>2. PICK s : Goto(w, "refresh", s)
    BY <1>2 DEF update_material_commit
  <2>3. CASE UNCHANGED <<materials, ledger>>
    BY <2>2, <2>3, SameStock, LedgerByGoto
  <2>4. CASE /\ Dirty(w) # {} /\ FlushMaterials(w)
             /\ ledger' = [ledger EXCEPT ![id] = stock]
    <3>1. Dirty(w) = {id} /\ sess[w].new[id] = stock /\ id \in DOMAIN materials
      BY <2>1, <2>4 DEF Dirty, Assigns
    <3>2. materials' = [m \in DOMAIN materials |-> IF m \in {id} THEN sess[w].new[m]
                                                   ELSE materials[m]]
      BY <2>4, <3>1 DEF FlushMaterials
    <3>3. ledger' = [m \in DOMAIN materials |-> IF m = id THEN stock ELSE materials[m]]
      <4>1. IsTable(ledger, Int \cup {Null})
        BY DEF LedgerInv, TypeOK, TablesOK
      <4> QED
        BY <1>0, <2>4, <4>1 DEF IsTable
    <3>4. materials' = ledger'
      BY <3>1, <3>2, <3>3
    <3> QED
      BY <2>2, <3>4, LedgerByGoto
  <2> QED
    BY <1>2, <2>3, <2>4 DEF update_material_commit
<1> QED
  BY <1>1, <1>2

LEMMA LedgerStock ==
  ASSUME LedgerInv, NEW w, Workers = {w}, Stock(w)
  PROVE  StockIsLedger' /\ SessionAgrees(w)'
<1>0. materials = ledger
  BY DEF LedgerInv, StockIsLedger
<1>1. CASE create_material(w)
  <2>1. materials' = ledger'
    BY <1>0, <1>1 DEF create_material
  <2> QED
    BY <1>1, <2>1, LedgerByGoto DEF create_material
<1>2. CASE material_not_found(w) \/ reorder_material(w)
  BY <1>2, SameStock, LedgerByAnswer DEF material_not_found, reorder_material, db
<1>3. CASE delete_material(w) \/ delete_load_items(w)
  BY <1>3, SameStock, LedgerByGoto DEF delete_material, delete_load_items, At, db
<1>4. CASE delete_commit(w)
  BY <1>0, <1>4, LedgerByAnswer DEF delete_commit
<1> QED
  BY <1>1, <1>2, <1>3, <1>4, LedgerUpdate DEF Stock

LEMMA LedgerNext ==
  ASSUME NEW w, Workers = {w}
  PROVE  LedgerInv /\ [Next]_vars => LedgerInv'
<1> SUFFICES ASSUME LedgerInv, [Next]_vars PROVE LedgerInv'
  OBVIOUS
<1>0. TypeOK'
  BY TypeNext DEF LedgerInv
<1>1. CASE UNCHANGED vars
  BY <1>0, <1>1 DEF LedgerInv, StockIsLedger, SessionAgrees, Untouched, Accumulates, Assigns, vars
<1>2. ASSUME NEW r \in Request, Accept(w, r)
      PROVE  StockIsLedger' /\ SessionAgrees(w)'
  <2> DEFINE s == [NewSession EXCEPT !.lines =
                     IF r.op = "create_purchase_order" THEN r.lines ELSE <<>>]
  <2>1. Untouched(s)
    BY EmptyTableType DEF Untouched, NewSession
  <2>2. pc'[w] = FirstStatement[r.op] /\ sess'[w] = s /\ req'[w] = r
    BY <1>2 DEF Accept, LedgerInv, TypeOK
  <2>3. /\ FirstStatement[r.op] # "add_item"
        /\ FirstStatement[r.op] = "commit" => r.op # "update_material"
    BY DEF FirstStatement, Request
  <2>4. materials' = ledger'
    BY <1>2, SameStock DEF Accept, db
  <2> HIDE DEF s
  <2> QED
    BY <2>1, <2>2, <2>3, <2>4 DEF StockIsLedger, SessionAgrees
<1>3. ASSUME Respond(w) \/ database_locked(w) \/ stale_row(w)
      PROVE  StockIsLedger' /\ SessionAgrees(w)'
  BY <1>3, RespondEnds, SameStock, LedgerByAnswer, LedgerByGoto
  DEF database_locked, stale_row, db
<1>4. ASSUME Crash(w) PROVE StockIsLedger' /\ SessionAgrees(w)'
  BY <1>4, SameStock, LedgerByAnswer DEF Crash
<1>5. StockIsLedger' /\ SessionAgrees(w)'
  BY <1>1, <1>2, <1>3, <1>4, LedgerPurchase, LedgerStock DEF Next, Step, LedgerInv
<1> QED
  BY <1>0, <1>5 DEF LedgerInv

(***************************************************************************)
(* With one worker the stock of every material is what the committed       *)
(* requests make it: each receipt adds its quantities, each PUT sets its   *)
(* value, and nothing is lost, whatever fails or crashes in between.       *)
(***************************************************************************)
THEOREM StockIsExact ==
  ASSUME NEW w, Workers = {w}
  PROVE  Spec => []StockIsLedger
<1>1. LedgerInv => StockIsLedger
  BY DEF LedgerInv
<1>2. LedgerInv /\ [Next]_vars => LedgerInv'
  BY LedgerNext
<1> QED
  BY <1>1, <1>2, LedgerInit, PTL DEF Spec

-----------------------------------------------------------------------------
(***************************************************************************)
(* One receipt per order.  receive_order refuses an order that is          *)
(* DELIVERED, and cannot load one whose status is no name of OrderStatus.  *)
(* A PUT may take an order out of these states; its receipts are counted   *)
(* anew from there.                                                        *)
(***************************************************************************)
Closed(status) == status = "DELIVERED" \/ ~ Loadable(status)

ReceivedIsClosed ==
  \A o \in DOMAIN receipts :
    receipts[o] <= 1 /\ (receipts[o] = 1 => Closed(purchase_orders[o].status))

\* but for a PUT, a session is about to write only to an order that is open
KeepsClosed(w) ==
  /\ pc[w] \in {"load_items", "add_item"} => receipts[sess[w].id] = 0
  /\ pc[w] = "commit" /\ req[w].op \in {"approve_order", "cancel_order"}
       => receipts[sess[w].id] = 0

OnceInv == TypeOK /\ ReceivedIsClosed /\ \A w \in Workers : KeepsClosed(w)

LEMMA OnceByAnswer ==
  ASSUME OnceInv, NEW w, Workers = {w}, NEW code, Answer(w, code),
         UNCHANGED <<purchase_orders, receipts>>
  PROVE  ReceivedIsClosed' /\ KeepsClosed(w)'
<1>1. pc'[w] = "idle"
  BY DEF Answer, OnceInv, TypeOK
<1> QED
  BY <1>1 DEF OnceInv, ReceivedIsClosed, KeepsClosed

LEMMA OnceByGoto ==
  ASSUME OnceInv, NEW w, Workers = {w}, NEW label, NEW s, Goto(w, label, s),
         label \in {"load_items", "add_item"} => receipts'[s.id] = 0,
         label = "commit" /\ req[w].op \in {"approve_order", "cancel_order"}
           => receipts'[s.id] = 0
  PROVE  KeepsClosed(w)'
<1>1. pc'[w] = label /\ sess'[w] = s /\ req' = req
  BY DEF Goto, OnceInv, TypeOK
<1> QED
  BY <1>1 DEF KeepsClosed

LEMMA SameOrders ==
  OnceInv /\ UNCHANGED <<purchase_orders, receipts>> => ReceivedIsClosed'
BY DEF OnceInv, ReceivedIsClosed

LEMMA OnceInit == Init => OnceInv
BY TypeInit DEF Init, OnceInv, ReceivedIsClosed, KeepsClosed, EmptyTable

\* An order that was loaded and is not DELIVERED has not been received.
LEMMA OpenIsUnreceived ==
  ASSUME OnceInv, NEW w, Workers = {w}, OrderFound(w), StatusOf(w) # "DELIVERED"
  PROVE  receipts[req[w].order] = 0
<1>1. /\ req[w].order \in DOMAIN receipts /\ receipts[req[w].order] \in Nat
      /\ ~ Closed(purchase_orders[req[w].order].status)
  BY DEF OnceInv, TypeOK, TablesOK, IsTable, OrderFound, StatusOf, Closed
<1>2. receipts[req[w].order] <= 1 /\ receipts[req[w].order] # 1
  BY <1>1 DEF OnceInv, ReceivedIsClosed
<1> QED
  BY <1>1, <1>2

\* A status written to an order that was not received, or by a PUT.
LEMMA OnceByStatus ==
  ASSUME OnceInv, NEW w, Workers = {w}, WriteStatus(w), CountAnew(w),
         receipts[sess[w].id] = 0 \/ req[w].op = "update_purchase_order"
  PROVE  ReceivedIsClosed'
<1> DEFINE id == sess[w].id
<1>1. PICK status \in sess[w].put :
        purchase_orders' = [purchase_orders EXCEPT ![id].status = status]
  BY DEF WriteStatus
<1>2. /\ DOMAIN receipts = DOMAIN purchase_orders
      /\ \A o \in DOMAIN purchase_orders : purchase_orders[o] \in Order
  BY DEF OnceInv, TypeOK, TablesOK, IsTable
<1>3. ASSUME NEW o \in DOMAIN receipts
      PROVE  purchase_orders'[o].status = IF o = id THEN status ELSE purchase_orders[o].status
  BY <1>1, <1>2 DEF Order
<1>4. /\ DOMAIN receipts' = DOMAIN receipts
      /\ \A o \in DOMAIN receipts : o # id => receipts'[o] = receipts[o]
  BY CountAnewType DEF OnceInv
<1>5. ASSUME id \in DOMAIN receipts
      PROVE  receipts'[id] = 0 \/ (receipts'[id] = receipts[id] /\ status = "DELIVERED")
  BY <1>1, <1>5 DEF CountAnew
<1> QED
  BY <1>3, <1>4, <1>5 DEF OnceInv, ReceivedIsClosed, Closed

LEMMA OncePurchase ==
  ASSUME OnceInv, NEW w, Workers = {w}, Purchase(w)
  PROVE  ReceivedIsClosed' /\ KeepsClosed(w)'
<1>0. SessionOK(sess[w]) /\ ControlOK(w) /\ KeepsClosed(w) /\ TablesOK
  BY DEF OnceInv, TypeOK
<1>1. CASE create_purchase_order(w) \/ create_item(w)
  <2>1. PICK s : Goto(w, "verify_item", s)
    BY <1>1 DEF create_purchase_order, create_item
  <2>2. UNCHANGED <<purchase_orders, receipts>>
    BY <1>1 DEF create_purchase_order, create_item, db
  <2> QED
    BY <2>1, <2>2, SameOrders, OnceByGoto
<1>2. CASE create_item_unknown_material(w)
  BY <1>2, OnceByAnswer DEF create_item_unknown_material
<1>3. CASE create_commit(w)
  <2>1. KeepsClosed(w)'
    BY <1>3, OnceByGoto DEF create_commit
  <2>2. ASSUME NEW o \in DOMAIN receipts'
        PROVE  \/ receipts'[o] = 0
               \/ /\ o \in DOMAIN receipts /\ receipts'[o] = receipts[o]
                  /\ purchase_orders'[o] = purchase_orders[o]
    BY <1>0, <1>3 DEF create_commit, InsertRow, TablesOK
  <2> QED
    BY <2>1, <2>2 DEF OnceInv, ReceivedIsClosed
<1>4. CASE \/ order_not_found(w) \/ order_not_loadable(w) \/ order_refused(w)
           \/ receive_item_no_stock(w)
  BY <1>4, OnceByAnswer
  DEF order_not_found, order_not_loadable, order_refused, receive_item_no_stock, db
<1>5. CASE \/ update_purchase_order(w) \/ approve_order(w) \/ cancel_order(w)
           \/ receive_order(w)
  <2>1. UNCHANGED <<purchase_orders, receipts>>
    BY <1>5 DEF update_purchase_order, approve_order, cancel_order, receive_order, db
  <2>2. PICK label, put :
          /\ label \in {"commit", "load_items"} /\ Stage(w, label, put)
          /\ \/ receipts[req[w].order] = 0
             \/ label = "commit" /\ req[w].op = "update_purchase_order"
    <3>1. CASE update_purchase_order(w)
      BY <3>1 DEF update_purchase_order, At
    <3>2. CASE approve_order(w)
      BY <3>2, OpenIsUnreceived DEF approve_order
    <3>3. CASE cancel_order(w)
      BY <3>3, OpenIsUnreceived DEF cancel_order
    <3>4. CASE receive_order(w)
      BY <3>4, OpenIsUnreceived DEF receive_order
    <3> QED
      BY <1>5, <3>1, <3>2, <3>3, <3>4
  <2> DEFINE s == [sess[w] EXCEPT !.id = req[w].order, !.put = put]
  <2>3. Goto(w, label, s) /\ s.id = req[w].order /\ s.put = put
    BY <1>0, <2>2 DEF Stage, SessionOK, NewSession
  <2> HIDE DEF s
  <2>4. KeepsClosed(w)'
    BY <2>1, <2>2, <2>3, OnceByGoto
  <2> QED
    BY <2>1, <2>4, SameOrders
<1>6. CASE order_commit(w)
  <2>1. KeepsClosed(w)'
    BY <1>6, OnceByGoto DEF order_commit
  <2>2. receipts[sess[w].id] = 0 \/ req[w].op = "update_purchase_order"
    BY <1>0, <1>6 DEF order_commit, KeepsClosed
  <2> QED
    BY <1>6, <2>1, <2>2, OnceByStatus, SameOrders DEF order_commit
<1>7. CASE receive_load_items(w) \/ receive_item(w)
  <2>1. UNCHANGED <<purchase_orders, receipts>> /\ receipts[sess[w].id] = 0
    BY <1>0, <1>7 DEF receive_load_items, receive_item, db, KeepsClosed, At
  <2> DEFINE next == Tail(sess[w].lines)
             S == {[sess[w] EXCEPT !.lines = purchase_orders[sess[w].id].items],
                   [sess[w] EXCEPT !.lines = next],
                   AddStock(w, Head(sess[w].lines).material, Head(sess[w].lines).quantity)}
  <2>2. \E s \in S : Goto(w, "add_item", s)
    <3>1. CASE receive_load_items(w)
      BY <3>1 DEF receive_load_items
    <3>2. CASE receive_item(w)
      BY <3>2 DEF receive_item
    <3> QED
      BY <1>7, <3>1, <3>2
  <2>3. \A s \in S : s.id = sess[w].id
    BY <1>0 DEF AddStock, SessionOK, NewSession
  <2> HIDE DEF S
  <2> QED
    BY <2>1, <2>2, <2>3, SameOrders, OnceByGoto
<1>8. CASE receive_commit(w)
  <2>1. KeepsClosed(w)'
    BY <1>8, OnceByGoto DEF receive_commit
  <2> DEFINE id == sess[w].id
  <2>2. /\ receipts \in [DOMAIN receipts -> Nat] /\ id \in DOMAIN receipts /\ receipts[id] = 0
        /\ DOMAIN receipts = DOMAIN purchase_orders
        /\ \A o \in DOMAIN purchase_orders : purchase_orders[o] \in Order
    BY <1>0, <1>8 DEF receive_commit, TablesOK, IsTable, ControlOK, KeepsClosed, At
  <2>3. /\ purchase_orders' = [purchase_orders EXCEPT ![id].status = "DELIVERED"]
        /\ receipts' = [receipts EXCEPT ![id] = receipts[id] + 1]
    BY <1>0, <1>8 DEF receive_commit, WriteStatus, ControlOK, At
  <2> HIDE DEF id
  <2>4. /\ receipts'[id] = 1 /\ DOMAIN receipts' = DOMAIN receipts
        /\ \A o \in DOMAIN receipts : o # id => receipts'[o] = receipts[o]
    BY <2>2, <2>3
  <2>5. /\ purchase_orders'[id].status = "DELIVERED"
        /\ \A o \in DOMAIN receipts : o # id => purchase_orders'[o] = purchase_orders[o]
    BY <2>2, <2>3 DEF Order
  <2>6. ReceivedIsClosed'
    BY <2>4, <2>5 DEF OnceInv, ReceivedIsClosed, Closed
  <2> QED
    BY <2>1, <2>6
<1> QED
  BY <1>1, <1>2, <1>3, <1>4, <1>5, <1>6, <1>7, <1>8 DEF Purchase

LEMMA OnceStock ==
  ASSUME OnceInv, NEW w, Workers = {w}, Stock(w)
  PROVE  ReceivedIsClosed' /\ KeepsClosed(w)'
<1>0. TablesOK /\ ControlOK(w)
  BY DEF OnceInv, TypeOK
<1>1. CASE create_material(w) \/ update_material_commit(w)
  <2>1. PICK s : Goto(w, "refresh", s)
    BY <1>1 DEF create_material, update_material_commit
  <2>2. UNCHANGED <<purchase_orders, receipts>>
    BY <1>1 DEF create_material, update_material_commit
  <2> QED
    BY <2>1, <2>2, SameOrders, OnceByGoto
<1>2. CASE material_not_found(w) \/ reorder_material(w)
  BY <1>2, OnceByAnswer DEF material_not_found, reorder_material, db
<1>3. CASE update_material(w) \/ delete_material(w) \/ delete_load_items(w)
  <2>1. \E label, s : label \in {"commit", "load_children"} /\ Goto(w, label, s)
    <3>1. CASE update_material(w)
      BY <3>1 DEF update_material
    <3>2. CASE delete_material(w)
      BY <3>2 DEF delete_material
    <3>3. CASE delete_load_items(w)
      BY <3>3 DEF delete_load_items
    <3> QED
      BY <1>3, <3>1, <3>2, <3>3
  <2>3. PICK label, s : label \in {"commit", "load_children"} /\ Goto(w, label, s)
    BY <2>1
  <2>2. UNCHANGED <<purchase_orders, receipts>> /\ req[w].op \notin OrderOps
    BY <1>3 DEF update_material, delete_material, delete_load_items, At, OrderOps, db
  <2> QED
    BY <2>2, <2>3, SameOrders, OnceByGoto DEF OrderOps
<1>4. CASE delete_commit(w)
  <2>1. pc'[w] = "idle" /\ receipts' = receipts
    BY <1>4 DEF delete_commit, Answer, OnceInv, TypeOK
  <2>2. ASSUME NEW o \in DOMAIN purchase_orders
        PROVE  purchase_orders'[o].status = purchase_orders[o].status
    <3>1. purchase_orders[o] \in Order
      BY <1>0 DEF TablesOK, IsTable
    <3> QED
      BY <1>4, <3>1 DEF delete_commit, Detach, Order
  <2> QED
    BY <1>0, <2>1, <2>2 DEF OnceInv, ReceivedIsClosed, KeepsClosed, TablesOK
<1> QED
  BY <1>1, <1>2, <1>3, <1>4 DEF Stock

LEMMA OnceNext ==
  ASSUME NEW w, Workers = {w}
  PROVE  OnceInv /\ [Next]_vars => OnceInv'
<1> SUFFICES ASSUME OnceInv, [Next]_vars PROVE OnceInv'
  OBVIOUS
<1>0. TypeOK'
  BY TypeNext DEF OnceInv
<1>1. CASE UNCHANGED vars
  BY <1>0, <1>1 DEF OnceInv, ReceivedIsClosed, KeepsClosed, vars
<1>2. ASSUME NEW r \in Request, Accept(w, r)
      PROVE  ReceivedIsClosed' /\ KeepsClosed(w)'
  <2>1. pc'[w] = FirstStatement[r.op] /\ req'[w] = r
    BY <1>2 DEF Accept, OnceInv, TypeOK
  <2>2. /\ FirstStatement[r.op] \notin {"load_items", "add_item"}
        /\ FirstStatement[r.op] = "commit" => r.op \notin OrderOps
    BY DEF FirstStatement, Request, OrderOps
  <2> QED
    BY <1>2, <2>1, <2>2, SameOrders DEF Accept, KeepsClosed, OrderOps, db
<1>3. ASSUME Respond(w) \/ database_locked(w) \/ stale_row(w)
      PROVE  ReceivedIsClosed' /\ KeepsClosed(w)'
  BY <1>3, RespondEnds, OnceByAnswer, OnceByGoto, SameOrders
  DEF database_locked, stale_row, db
<1>4. ASSUME Crash(w) PROVE ReceivedIsClosed' /\ KeepsClosed(w)'
  BY <1>4, OnceByAnswer DEF Crash
<1>5. ReceivedIsClosed' /\ KeepsClosed(w)'
  BY <1>1, <1>2, <1>3, <1>4, OncePurchase, OnceStock DEF Next, Step, OnceInv
<1> QED
  BY <1>0, <1>5 DEF OnceInv

(***************************************************************************)
(* With one worker the items of an order are added to the stock at most    *)
(* once, also when requests are repeated after a crash, unless a PUT opens *)
(* the order again in between.                                             *)
(***************************************************************************)
THEOREM ReceivedAtMostOnce ==
  ASSUME NEW w, Workers = {w}
  PROVE  Spec => []ReceivedOnce
<1>1. OnceInv => ReceivedOnce
  BY DEF OnceInv, ReceivedIsClosed, ReceivedOnce
<1>2. OnceInv /\ [Next]_vars => OnceInv'
  BY OnceNext
<1> QED
  BY <1>1, <1>2, OnceInit, PTL DEF Spec

-----------------------------------------------------------------------------
(* The foreign key of the items, which no PRAGMA makes SQLite enforce; and an  *)
(* answer that reports an error reports that nothing was done.                  *)

(***************************************************************************)
(* delete_material detaches the items it has loaded.  With one worker      *)
(* these are still all the items of the material when it commits.          *)
(***************************************************************************)
NamesMaterial(o, k, m) == purchase_orders[o].items[k].material = m

KidsLoaded(w) ==
  pc[w] = "commit" /\ req[w].op = "delete_material" =>
    \A o \in DOMAIN purchase_orders : \A k \in DOMAIN purchase_orders[o].items :
      NamesMaterial(o, k, sess[w].id) => <<o, k>> \in sess[w].kids

KeyInv == VerifiedInv /\ NoDanglingItem /\ \A w \in Workers : KidsLoaded(w)

LEMMA KeyInit == Init => KeyInv
BY VerifiedInit DEF Init, KeyInv, NoDanglingItem, KidsLoaded, EmptyTable

\* the items of every order name what they named, and no material goes
LEMMA SameItems ==
  ASSUME KeyInv, UNCHANGED purchase_orders, DOMAIN materials \subseteq DOMAIN materials'
  PROVE  NoDanglingItem'
BY DEF KeyInv, NoDanglingItem

LEMMA KeyByGoto ==
  ASSUME KeyInv, NEW w, Workers = {w}, NEW label, NEW s, Goto(w, label, s),
         label = "commit" => req[w].op # "delete_material"
  PROVE  KidsLoaded(w)'
BY DEF Goto, KeyInv, VerifiedInv, TypeOK, KidsLoaded

LEMMA KeyByAnswer ==
  ASSUME KeyInv, NEW w, Workers = {w}, NEW code, Answer(w, code)
  PROVE  KidsLoaded(w)'
BY DEF Answer, KeyInv, VerifiedInv, TypeOK, KidsLoaded

\* Writing a status leaves the items alone.
LEMMA StatusKeepsItems ==
  ASSUME KeyInv, NEW w \in Workers, WriteStatus(w), DOMAIN materials' = DOMAIN materials
  PROVE  NoDanglingItem'
<1>1. PICK status : purchase_orders' = [purchase_orders EXCEPT ![sess[w].id].status = status]
  BY DEF WriteStatus
<1>2. /\ DOMAIN purchase_orders' = DOMAIN purchase_orders
      /\ \A o \in DOMAIN purchase_orders : purchase_orders'[o].items = purchase_orders[o].items
  <2>1. purchase_orders \in [DOMAIN purchase_orders -> Order]
    BY DEF KeyInv, VerifiedInv, TypeOK, TablesOK, IsTable
  <2>2. \A o \in DOMAIN purchase_orders : DOMAIN purchase_orders[o] = {"status", "total_amount", "items"}
    BY <2>1 DEF Order
  <2> QED
    BY <1>1, <2>1, <2>2
<1> QED
  BY <1>2 DEF KeyInv, NoDanglingItem

LEMMA KeyCreateCommit ==
  ASSUME KeyInv, NEW w, Workers = {w}, create_commit(w)
  PROVE  NoDanglingItem'
<1> DEFINE row == [status |-> "PENDING", total_amount |-> sess[w].total, items |-> sess[w].items]
           key == sess[w].id
<1>1. /\ purchase_orders' = InsertRow(purchase_orders, key, row)
      /\ materials' = materials
  BY DEF create_commit
<1>2. row.items = sess[w].items
  OBVIOUS
<1>3. \A k \in DOMAIN sess[w].items : sess[w].items[k].material \in DOMAIN materials
  BY DEF KeyInv, VerifiedInv, VerifiedItemsExist, create_commit, At
<1> HIDE DEF row
<1>4. ASSUME NEW o \in DOMAIN purchase_orders', NEW k \in DOMAIN purchase_orders'[o].items
      PROVE  purchase_orders'[o].items[k].material \in DOMAIN materials \cup {Null}
  <2>1. CASE o = key
    BY <1>1, <1>2, <1>3, <1>4, <2>1 DEF InsertRow
  <2>2. CASE o # key
    <3>1. o \in DOMAIN purchase_orders /\ purchase_orders'[o] = purchase_orders[o]
      BY <1>1, <2>2 DEF InsertRow
    <3> QED
      BY <3>1, <1>4 DEF KeyInv, NoDanglingItem
  <2> QED
    BY <2>1, <2>2
<1> QED
  BY <1>1, <1>4 DEF NoDanglingItem

\* The items of the deleted material are among the children that were loaded.
LEMMA KeyDeleteCommit ==
  ASSUME KeyInv, NEW w, Workers = {w}, delete_commit(w)
  PROVE  NoDanglingItem'
<1> DEFINE id == sess[w].id
<1>1. /\ purchase_orders' = [o \in DOMAIN purchase_orders |-> Detach(o, sess[w].kids)]
      /\ DOMAIN materials' = DOMAIN materials \ {id}
  BY DEF delete_commit, DeleteRow
<1>2. ASSUME NEW o \in DOMAIN purchase_orders
      PROVE  \A k \in DOMAIN purchase_orders[o].items :
               NamesMaterial(o, k, id) => <<o, k>> \in sess[w].kids
  BY DEF KeyInv, KidsLoaded, delete_commit, At
<1>3. ASSUME NEW o \in DOMAIN purchase_orders', NEW k \in DOMAIN purchase_orders'[o].items
      PROVE  purchase_orders'[o].items[k].material \in (DOMAIN materials \ {id}) \cup {Null}
  <2> DEFINE old == purchase_orders[o].items
             new == [j \in DOMAIN old |-> IF <<o, j>> \in sess[w].kids
                                           THEN [old[j] EXCEPT !.material = Null] ELSE old[j]]
  <2>1. o \in DOMAIN purchase_orders /\ purchase_orders[o] \in Order
    BY <1>1, <1>3 DEF KeyInv, VerifiedInv, TypeOK, TablesOK, IsTable
  <2>2. purchase_orders'[o].items = new
    BY <1>1, <2>1 DEF Detach, Order
  <2>3. k \in DOMAIN old
    BY <1>3, <2>2
  <2>4. old[k] \in Item
    BY <2>1, <2>3 DEF Order
  <2>5. CASE <<o, k>> \in sess[w].kids
    BY <2>2, <2>3, <2>4, <2>5 DEF Item
  <2>6. CASE <<o, k>> \notin sess[w].kids
    <3>1. new[k] = old[k]
      BY <2>3, <2>6
    <3>2. old[k].material # id
      BY <1>2, <2>1, <2>3, <2>6 DEF NamesMaterial
    <3>3. old[k].material \in DOMAIN materials \cup {Null}
      BY <2>1, <2>3 DEF KeyInv, NoDanglingItem
    <3> QED
      BY <2>2, <3>1, <3>2, <3>3
  <2> QED
    BY <2>5, <2>6
<1> QED
  BY <1>1, <1>3 DEF NoDanglingItem

LEMMA KeyPurchase ==
  ASSUME KeyInv, NEW w, Workers = {w}, Purchase(w)
  PROVE  NoDanglingItem' /\ KidsLoaded(w)'
<1>1. CASE create_purchase_order(w) \/ create_item(w)
  <2>1. PICK s : Goto(w, "verify_item", s)
    <3>1. CASE create_purchase_order(w)
      BY <3>1 DEF create_purchase_order
    <3>2. CASE create_item(w)
      BY <3>2 DEF create_item
    <3> QED
      BY <1>1, <3>1, <3>2
  <2>2. UNCHANGED <<materials, purchase_orders>>
    BY <1>1 DEF create_purchase_order, create_item, db
  <2> QED
    BY <2>1, <2>2, SameItems, KeyByGoto
<1>2. CASE create_item_unknown_material(w)
  BY <1>2, SameItems, KeyByAnswer DEF create_item_unknown_material
<1>3. CASE create_commit(w)
  BY <1>3, KeyCreateCommit, KeyByGoto DEF create_commit
<1>4. CASE \/ order_not_found(w) \/ order_not_loadable(w) \/ order_refused(w)
           \/ receive_item_no_stock(w)
  BY <1>4, SameItems, KeyByAnswer
  DEF order_not_found, order_not_loadable, order_refused, receive_item_no_stock, db
<1>5. CASE \/ update_purchase_order(w) \/ approve_order(w) \/ cancel_order(w)
           \/ receive_order(w)
  BY <1>5, SameItems, KeyByGoto
  DEF update_purchase_order, approve_order, cancel_order, receive_order, Stage, At, db
<1>6. CASE receive_load_items(w) \/ receive_item(w)
  BY <1>6, SameItems, KeyByGoto DEF receive_load_items, receive_item, db
<1>7. CASE order_commit(w)
  <2>1. NoDanglingItem'
    BY <1>7, SameItems, StatusKeepsItems DEF order_commit
  <2> QED
    BY <1>7, <2>1, KeyByGoto DEF order_commit
<1>8. CASE receive_commit(w)
  <2>1. DOMAIN materials' = DOMAIN materials
    BY <1>8 DEF receive_commit, FlushMaterials
  <2> QED
    BY <1>8, <2>1, StatusKeepsItems, KeyByGoto DEF receive_commit
<1> QED
  BY <1>1, <1>2, <1>3, <1>4, <1>5, <1>6, <1>7, <1>8 DEF Purchase

LEMMA KeyStock ==
  ASSUME KeyInv, NEW w, Workers = {w}, Stock(w)
  PROVE  NoDanglingItem' /\ KidsLoaded(w)'
<1>1. CASE create_material(w)
  <2>1. DOMAIN materials \subseteq DOMAIN materials'
    BY <1>1 DEF create_material, InsertRow
  <2> QED
    BY <1>1, <2>1, SameItems, KeyByGoto DEF create_material
<1>2. CASE material_not_found(w) \/ reorder_material(w)
  BY <1>2, SameItems, KeyByAnswer DEF material_not_found, reorder_material, db
<1>3. CASE update_material(w) \/ delete_material(w)
  BY <1>3, SameItems, KeyByGoto DEF update_material, delete_material, At, db
<1>4. CASE update_material_commit(w)
  <2>1. DOMAIN materials' = DOMAIN materials
    BY <1>4 DEF update_material_commit, FlushMaterials
  <2> QED
    BY <1>4, <2>1, SameItems, KeyByGoto DEF update_material_commit
<1>5. CASE delete_load_items(w)
  <2> DEFINE s == [sess[w] EXCEPT !.kids = ItemsOf(sess[w].id)]
  <2>1. Goto(w, "commit", s) /\ UNCHANGED db
    BY <1>5 DEF delete_load_items
  <2>2. s.id = sess[w].id /\ s.kids = ItemsOf(sess[w].id)
    BY DEF KeyInv, VerifiedInv, TypeOK, SessionOK, NewSession
  <2>3. sess'[w] = s
    BY <2>1 DEF Goto, KeyInv, VerifiedInv, TypeOK
  <2> HIDE DEF s
  <2>4. ASSUME NEW o \in DOMAIN purchase_orders, NEW k \in DOMAIN purchase_orders[o].items,
               NamesMaterial(o, k, sess[w].id)
        PROVE  <<o, k>> \in s.kids
    BY <2>2, <2>4 DEF ItemsOf, NamesMaterial
  <2>5. KidsLoaded(w)'
    BY <2>1, <2>2, <2>3, <2>4 DEF KidsLoaded, NamesMaterial, db
  <2> QED
    BY <2>1, <2>5, SameItems DEF db
<1>6. CASE delete_commit(w)
  BY <1>6, KeyDeleteCommit, KeyByAnswer DEF delete_commit
<1> QED
  BY <1>1, <1>2, <1>3, <1>4, <1>5, <1>6 DEF Stock

LEMMA KeyNext ==
  ASSUME NEW w, Workers = {w}
  PROVE  KeyInv /\ [Next]_vars => KeyInv'
<1> SUFFICES ASSUME KeyInv, [Next]_vars PROVE KeyInv'
  OBVIOUS
<1>0. VerifiedInv'
  BY VerifiedNext DEF KeyInv
<1>1. CASE UNCHANGED vars
  BY <1>0, <1>1 DEF KeyInv, NoDanglingItem, KidsLoaded, NamesMaterial, vars
<1>2. ASSUME NEW r \in Request, Accept(w, r)
      PROVE  NoDanglingItem' /\ KidsLoaded(w)'
  <2>1. pc'[w] = FirstStatement[r.op] /\ req'[w] = r
    BY <1>2 DEF Accept, KeyInv, VerifiedInv, TypeOK
  <2>2. FirstStatement[r.op] = "commit" => r.op # "delete_material"
    BY DEF FirstStatement, Request
  <2>3. NoDanglingItem'
    BY <1>2, SameItems DEF Accept, db
  <2> QED
    BY <2>1, <2>2, <2>3 DEF KidsLoaded
<1>3. ASSUME Respond(w) \/ database_locked(w) \/ stale_row(w)
      PROVE  NoDanglingItem' /\ KidsLoaded(w)'
  BY <1>3, RespondEnds, SameItems, KeyByAnswer, KeyByGoto
  DEF database_locked, stale_row, db
<1>4. ASSUME Crash(w) PROVE NoDanglingItem' /\ KidsLoaded(w)'
  BY <1>4, SameItems, KeyByAnswer DEF Crash
<1>5. NoDanglingItem' /\ KidsLoaded(w)'
  BY <1>1, <1>2, <1>3, <1>4, KeyPurchase, KeyStock DEF Next, Step, KeyInv
<1> QED
  BY <1>0, <1>5 DEF KeyInv

(***************************************************************************)
(* models.py:83 declares the foreign key and nothing makes SQLite check    *)
(* it.  With one worker the handlers keep it all the same: an item names a *)
(* material that exists, or none.                                          *)
(***************************************************************************)
THEOREM NoItemDangles ==
  ASSUME NEW w, Workers = {w}
  PROVE  Spec => []NoDanglingItem
<1>1. KeyInv => NoDanglingItem
  BY DEF KeyInv
<1>2. KeyInv /\ [Next]_vars => KeyInv'
  BY KeyNext
<1> QED
  BY <1>1, <1>2, KeyInit, PTL DEF Spec

-----------------------------------------------------------------------------
(***************************************************************************)
(* What could go wrong after the commit is the refresh: the row it reads   *)
(* again may be gone, or of a status that cannot be loaded.  With one      *)
(* worker it is the row just written, and its status can be loaded if      *)
(* every PUT writes one that can.  The response then fails only on what    *)
(* the tables hold: its lines are the items of the order, and a stock it   *)
(* keeps of a material was not NULL.                                       *)
(***************************************************************************)
PutsLoadable(w) ==
  pc[w] \in {"load_items", "add_item", "commit"} /\ req[w].op \in OrderOps =>
    \A status \in sess[w].put : Loadable(status)

WrittenIsReadable(w) == sess[w].wrote => pc[w] \in Responding /\ RowReadable(w)

\* the row of update_material is there until it commits
TargetExists(w) ==
  pc[w] = "commit" /\ req[w].op = "update_material" => sess[w].id \in DOMAIN materials

ReadsNoNull(w) ==
  pc[w] # "idle" /\ req[w].op \in OrderShown =>
    \A m \in DOMAIN sess[w].read : sess[w].read[m] # Null

IsItemOf(o, line) ==
  \E k \in DOMAIN purchase_orders[o].items : purchase_orders[o].items[k] = line

ShowsItems(w) ==
  pc[w] = "respond_item" =>
    \A k \in DOMAIN sess[w].lines : IsItemOf(sess[w].id, sess[w].lines[k])

Answerable(w) ==
  /\ PutsLoadable(w) /\ WrittenIsReadable(w) /\ TargetExists(w)
  /\ ReadsNoNull(w) /\ ShowsItems(w)

RefreshInv == TypeOK /\ \A w \in Workers : Answerable(w)

LEMMA RefreshInit == Init => RefreshInv
BY TypeInit
DEF Init, RefreshInv, Answerable, PutsLoadable, WrittenIsReadable, TargetExists, ReadsNoNull,
    ShowsItems, NewSession

LEMMA RefreshByAnswer ==
  ASSUME RefreshInv, NEW w, Workers = {w}, NEW code, Answer(w, code)
  PROVE  Answerable(w)'
<1>1. pc'[w] = "idle" /\ sess'[w] = NewSession
  BY DEF Answer, RefreshInv, TypeOK
<1> QED
  BY <1>1
  DEF Answerable, PutsLoadable, WrittenIsReadable, TargetExists, ReadsNoNull, ShowsItems,
      NewSession

\* a step to a statement before the commit
LEMMA RefreshByGoto ==
  ASSUME RefreshInv, NEW w, Workers = {w}, NEW label, NEW s, Goto(w, label, s), ~ s.wrote,
         pc[w] # "idle", label # "respond_item",
         req[w].op \in OrderShown => s.read = sess[w].read,
         label \in {"load_items", "add_item", "commit"} /\ req[w].op \in OrderOps =>
           \A status \in s.put : Loadable(status),
         label = "commit" /\ req[w].op = "update_material" => s.id \in DOMAIN materials'
  PROVE  Answerable(w)'
<1>1. pc'[w] = label /\ sess'[w] = s /\ req' = req
  BY DEF Goto, RefreshInv, TypeOK
<1> QED
  BY <1>1
  DEF RefreshInv, Answerable, PutsLoadable, WrittenIsReadable, TargetExists, ReadsNoNull,
      ShowsItems

\* the commit
LEMMA RefreshByCommit ==
  ASSUME RefreshInv, NEW w, Workers = {w}, NEW s, Goto(w, "refresh", s),
         pc[w] # "idle", req[w].op \in OrderShown => s.read = sess[w].read,
         IF req[w].op \in MaterialShown
           THEN s.id \in DOMAIN materials'
           ELSE Loadable(purchase_orders'[s.id].status)
  PROVE  Answerable(w)'
<1>1. pc'[w] = "refresh" /\ sess'[w] = s /\ req' = req
  BY DEF Goto, RefreshInv, TypeOK
<1> QED
  BY <1>1
  DEF RefreshInv, Answerable, PutsLoadable, WrittenIsReadable, RowReadable, TargetExists,
      ReadsNoNull, ShowsItems, Responding

\* a session that stands before a statement of the handler
LEMMA NotYetWritten ==
  ASSUME RefreshInv, NEW w \in Workers, pc[w] \notin Responding
  PROVE  sess[w].wrote = FALSE /\ SessionOK(sess[w]) /\ DOMAIN sess[w] = DOMAIN NewSession
BY DEF RefreshInv, Answerable, TypeOK, SessionOK, WrittenIsReadable

LEMMA WriteStatusLoadable ==
  ASSUME RefreshInv, NEW w \in Workers, WriteStatus(w), sess[w].id \in DOMAIN purchase_orders,
         \A status \in sess[w].put : Loadable(status)
  PROVE  Loadable(purchase_orders'[sess[w].id].status)
<1>1. PICK status \in sess[w].put :
        purchase_orders' = [purchase_orders EXCEPT ![sess[w].id].status = status]
  BY DEF WriteStatus
<1>2. purchase_orders[sess[w].id] \in Order
  BY DEF RefreshInv, TypeOK, TablesOK, IsTable
<1>3. purchase_orders'[sess[w].id].status = status
  BY <1>1, <1>2 DEF Order
<1> QED
  BY <1>1, <1>3

LEMMA RefreshPurchase ==
  ASSUME RefreshInv, \A status \in PutStatus : Loadable(status),
         NEW w, Workers = {w}, Purchase(w)
  PROVE  Answerable(w)'
<1>0. /\ SessionOK(sess[w]) /\ ControlOK(w) /\ PutsLoadable(w)
      /\ DOMAIN sess[w] = DOMAIN NewSession
  BY DEF RefreshInv, Answerable, TypeOK, SessionOK
<1>1. CASE create_purchase_order(w) \/ create_item(w)
  <2>1. PICK s : Goto(w, "verify_item", s) /\ s.wrote = sess[w].wrote /\ s.read = sess[w].read
    <3>1. CASE create_purchase_order(w)
      <4>1. PICK key : Goto(w, "verify_item", [sess[w] EXCEPT !.id = key])
        BY <3>1 DEF create_purchase_order
      <4> QED
        BY <1>0, <4>1 DEF NewSession
    <3>2. CASE create_item(w)
      <4>1. PICK lines, items, total :
              Goto(w, "verify_item", [sess[w] EXCEPT !.lines = lines, !.items = items,
                                                     !.total = total])
        BY <3>2 DEF create_item
      <4> DEFINE s == [sess[w] EXCEPT !.lines = lines, !.items = items, !.total = total]
      <4>2. s.wrote = sess[w].wrote /\ s.read = sess[w].read
        BY <1>0 DEF NewSession
      <4>3. Goto(w, "verify_item", s)
        BY <4>1
      <4> HIDE DEF s
      <4> QED
        BY <4>2, <4>3
    <3> QED
      BY <1>1, <3>1, <3>2
  <2>2. /\ sess[w].wrote = FALSE /\ pc[w] # "idle" /\ req[w].op = "create_purchase_order"
        /\ req[w].op \notin OrderOps
    BY <1>1, NotYetWritten DEF create_purchase_order, create_item, At, Responding, OrderOps
  <2> QED
    BY <2>1, <2>2, RefreshByGoto
<1>2. CASE \/ create_item_unknown_material(w) \/ order_not_found(w) \/ order_not_loadable(w)
           \/ order_refused(w) \/ receive_item_no_stock(w)
  BY <1>2, RefreshByAnswer
  DEF create_item_unknown_material, order_not_found, order_not_loadable, order_refused,
      receive_item_no_stock
<1>3. CASE create_commit(w)
  <2> DEFINE s == Committed(w)
             row == [status |-> "PENDING", total_amount |-> sess[w].total,
                     items |-> sess[w].items]
  <2>1. Goto(w, "refresh", s) /\ purchase_orders' = InsertRow(purchase_orders, sess[w].id, row)
        /\ req[w].op = "create_purchase_order" /\ pc[w] # "idle"
    BY <1>3 DEF create_commit, At
  <2>2. s.id = sess[w].id /\ s.read = sess[w].read
    BY <1>0 DEF Committed, NewSession
  <2>3. Loadable(purchase_orders'[s.id].status)
    BY <2>1, <2>2 DEF InsertRow, Loadable, OrderStatus
  <2> HIDE DEF s
  <2> QED
    BY <2>1, <2>2, <2>3, RefreshByCommit DEF MaterialShown
<1>4. CASE \/ update_purchase_order(w) \/ approve_order(w) \/ cancel_order(w)
           \/ receive_order(w)
  <2>1. PICK label, put : /\ Stage(w, label, put)
                          /\ \A status \in put : Loadable(status)
                          /\ req[w].op \in OrderOps /\ label # "respond_item"
    <3>1. CASE update_purchase_order(w)
      <4>1. req[w] \in Request /\ req[w].op = "update_purchase_order"
        BY <1>0, <3>1 DEF update_purchase_order, At, ControlOK
      <4>2. req[w].status \in PutStatus
        BY <4>1 DEF Request
      <4> QED
        BY <3>1, <4>1, <4>2 DEF update_purchase_order, OrderOps
    <3>2. CASE approve_order(w)
      BY <3>2 DEF approve_order, At, Loadable, OrderStatus, OrderOps
    <3>3. CASE cancel_order(w)
      BY <3>3 DEF cancel_order, At, Loadable, OrderStatus, OrderOps
    <3>4. CASE receive_order(w)
      BY <3>4 DEF receive_order, At, Loadable, OrderStatus, OrderOps
    <3> QED
      BY <1>4, <3>1, <3>2, <3>3, <3>4
  <2> DEFINE s == [sess[w] EXCEPT !.id = req[w].order, !.put = put]
  <2>2. Goto(w, label, s)
    BY <2>1 DEF Stage
  <2>3. s.wrote = sess[w].wrote /\ s.put = put /\ s.read = sess[w].read
    BY <1>0 DEF NewSession
  <2>4. sess[w].wrote = FALSE /\ pc[w] # "idle"
    BY <1>4, NotYetWritten
    DEF update_purchase_order, approve_order, cancel_order, receive_order, At, Responding
  <2>5. req[w].op # "update_material"
    BY <2>1 DEF OrderOps
  <2> HIDE DEF s
  <2> QED
    BY <2>1, <2>2, <2>3, <2>4, <2>5, RefreshByGoto
<1>5. CASE order_commit(w)
  <2>1. /\ pc[w] = "commit" /\ req[w].op \in OrderOps
        /\ req[w].op \notin MaterialShown /\ pc[w] \notin Responding
    BY <1>5 DEF order_commit, OrderOps, MaterialShown, Responding
  <2>2. sess[w].id \in DOMAIN purchase_orders /\ \A status \in sess[w].put : Loadable(status)
    BY <1>0, <2>1 DEF ControlOK, PutsLoadable
  <2>3. CASE Goto(w, "refresh", sess[w])
    BY <2>1, <2>3, NotYetWritten, RefreshByGoto DEF OrderOps
  <2>4. CASE WriteStatus(w) /\ Goto(w, "refresh", Committed(w))
    <3>1. Committed(w).id = sess[w].id /\ Committed(w).read = sess[w].read
      BY <1>0 DEF Committed, NewSession
    <3>2. Loadable(purchase_orders'[sess[w].id].status)
      BY <2>2, <2>4, WriteStatusLoadable
    <3> QED
      BY <2>1, <2>4, <3>1, <3>2, RefreshByCommit
  <2> QED
    BY <1>5, <2>3, <2>4 DEF order_commit
<1>6. CASE receive_load_items(w) \/ receive_item(w)
  <2>1. PICK s : Goto(w, "add_item", s) /\ s.wrote = sess[w].wrote /\ s.put = sess[w].put
    <3>1. CASE receive_load_items(w)
      <4>1. PICK lines : Goto(w, "add_item", [sess[w] EXCEPT !.lines = lines])
        BY <3>1 DEF receive_load_items
      <4> QED
        BY <1>0, <4>1 DEF NewSession
    <3>2. CASE receive_item(w)
      <4>1. PICK lines, read, new, added :
              \/ Goto(w, "add_item", [sess[w] EXCEPT !.lines = lines])
              \/ Goto(w, "add_item", [sess[w] EXCEPT !.lines = lines, !.read = read,
                                                     !.new = new, !.added = added])
        BY <3>2 DEF receive_item, AddStock
      <4> DEFINE skip == [sess[w] EXCEPT !.lines = lines]
                 add == [sess[w] EXCEPT !.lines = lines, !.read = read, !.new = new,
                                        !.added = added]
      <4>2. /\ skip.wrote = sess[w].wrote /\ skip.put = sess[w].put
            /\ add.wrote = sess[w].wrote /\ add.put = sess[w].put
        BY <1>0 DEF NewSession
      <4>3. Goto(w, "add_item", skip) \/ Goto(w, "add_item", add)
        BY <4>1
      <4> HIDE DEF skip, add
      <4> QED
        BY <4>2, <4>3
    <3> QED
      BY <1>6, <3>1, <3>2
  <2>2. /\ pc[w] \in {"load_items", "add_item"} /\ req[w].op = "receive_order"
        /\ req[w].op \notin OrderShown /\ pc[w] \notin Responding
    BY <1>6 DEF receive_load_items, receive_item, At, OrderShown, Responding
  <2>3. \A status \in s.put : Loadable(status)
    BY <1>0, <2>1, <2>2 DEF PutsLoadable, OrderOps
  <2>4. s.wrote = FALSE
    BY <2>1, <2>2, NotYetWritten
  <2> QED
    BY <2>1, <2>2, <2>3, <2>4, RefreshByGoto
<1>7. CASE receive_commit(w)
  <2>1. /\ pc[w] = "add_item" /\ req[w].op = "receive_order" /\ WriteStatus(w)
        /\ Goto(w, "refresh", Committed(w))
        /\ req[w].op \notin OrderShown \cup MaterialShown
    BY <1>7 DEF receive_commit, At, OrderShown, MaterialShown
  <2>2. sess[w].id \in DOMAIN purchase_orders /\ \A status \in sess[w].put : Loadable(status)
    BY <1>0, <2>1 DEF ControlOK, PutsLoadable, OrderOps
  <2>3. Committed(w).id = sess[w].id
    BY <1>0 DEF Committed, NewSession
  <2>4. Loadable(purchase_orders'[sess[w].id].status)
    BY <2>1, <2>2, WriteStatusLoadable
  <2> QED
    BY <2>1, <2>3, <2>4, RefreshByCommit
<1> QED
  BY <1>1, <1>2, <1>3, <1>4, <1>5, <1>6, <1>7 DEF Purchase

LEMMA RefreshStock ==
  ASSUME RefreshInv, NEW w, Workers = {w}, Stock(w)
  PROVE  Answerable(w)'
<1>0. /\ SessionOK(sess[w]) /\ ControlOK(w) /\ TargetExists(w)
      /\ DOMAIN sess[w] = DOMAIN NewSession
  BY DEF RefreshInv, Answerable, TypeOK, SessionOK
<1>1. CASE create_material(w)
  <2>1. PICK m : /\ materials' = InsertRow(materials, m, req[w].stock)
                 /\ Goto(w, "refresh", [Committed(w) EXCEPT !.id = m])
    BY <1>1 DEF create_material
  <2> DEFINE s == [Committed(w) EXCEPT !.id = m]
  <2>2. s.id = m
    BY <1>0 DEF Committed, NewSession
  <2>3. Goto(w, "refresh", s) /\ s.id \in DOMAIN materials'
    BY <2>1, <2>2 DEF InsertRow
  <2> HIDE DEF s
  <2> QED
    BY <1>1, <2>3, RefreshByCommit DEF create_material, At, MaterialShown, OrderShown
<1>2. CASE material_not_found(w) \/ reorder_material(w) \/ delete_commit(w)
  BY <1>2, RefreshByAnswer DEF material_not_found, reorder_material, delete_commit
<1>3. CASE update_material(w)
  <2> DEFINE m == req[w].material
             s == [sess[w] EXCEPT !.id = m,
                                  !.read = InsertRow(EmptyTable, m, materials[m]),
                                  !.new = InsertRow(EmptyTable, m, req[w].stock)]
  <2>1. /\ Goto(w, "commit", s) /\ UNCHANGED db /\ m \in DOMAIN materials
        /\ pc[w] = "load_material" /\ req[w].op = "update_material"
    BY <1>3 DEF update_material, At
  <2>2. s.id = m /\ s.wrote = sess[w].wrote
    BY <1>0 DEF NewSession
  <2>3. s.wrote = FALSE
    BY <2>1, <2>2, NotYetWritten DEF Responding
  <2>4. s.id \in DOMAIN materials' /\ req[w].op \notin OrderOps \cup OrderShown
    BY <2>1, <2>2 DEF db, OrderOps, OrderShown
  <2> HIDE DEF s
  <2> QED
    BY <2>1, <2>3, <2>4, RefreshByGoto
<1>4. CASE update_material_commit(w)
  <2>1. pc[w] = "commit" /\ req[w].op = "update_material"
    BY <1>4 DEF update_material_commit, At
  <2>2. sess[w].id \in DOMAIN materials /\ DOMAIN materials' = DOMAIN materials
    BY <1>0, <1>4, <2>1 DEF TargetExists, update_material_commit, FlushMaterials
  <2>3. Committed(w).id = sess[w].id
    BY <1>0 DEF Committed, NewSession
  <2> QED
    BY <1>4, <2>1, <2>2, <2>3, RefreshByCommit
    DEF update_material_commit, MaterialShown, OrderShown
<1>5. CASE delete_material(w) \/ delete_load_items(w)
  <2>1. PICK label, s : /\ Goto(w, label, s) /\ s.wrote = sess[w].wrote
                        /\ req[w].op = "delete_material" /\ pc[w] \notin Responding
                        /\ label # "respond_item" /\ pc[w] # "idle"
    <3>1. CASE delete_material(w)
      <4>1. Goto(w, "load_children", [sess[w] EXCEPT !.id = req[w].material])
        BY <3>1 DEF delete_material
      <4> QED
        BY <1>0, <3>1, <4>1 DEF delete_material, At, NewSession, Responding
    <3>2. CASE delete_load_items(w)
      <4>1. Goto(w, "commit", [sess[w] EXCEPT !.kids = ItemsOf(sess[w].id)])
        BY <3>2 DEF delete_load_items
      <4> QED
        BY <1>0, <3>2, <4>1 DEF delete_load_items, At, NewSession, Responding
    <3> QED
      BY <1>5, <3>1, <3>2
  <2>2. s.wrote = FALSE /\ req[w].op \notin OrderOps \cup OrderShown
    BY <2>1, NotYetWritten DEF OrderOps, OrderShown
  <2> QED
    BY <2>1, <2>2, RefreshByGoto
<1> QED
  BY <1>1, <1>2, <1>3, <1>4, <1>5 DEF Stock

\* The response keeps the row it shows.
LEMMA RefreshByRespond ==
  ASSUME RefreshInv, NEW w, Workers = {w}, NEW label, NEW s, Goto(w, label, s), UNCHANGED db,
         pc[w] \in Responding, label \in {"respond", "respond_item"},
         s.id = sess[w].id, s.wrote = sess[w].wrote,
         req[w].op \in OrderShown => \A m \in DOMAIN s.read : s.read[m] # Null,
         label = "respond_item" => \A k \in DOMAIN s.lines : IsItemOf(s.id, s.lines[k])
  PROVE  Answerable(w)'
<1>1. pc'[w] = label /\ sess'[w] = s /\ req' = req
  BY DEF Goto, RefreshInv, TypeOK
<1>2. WrittenIsReadable(w)'
  BY <1>1 DEF RefreshInv, Answerable, WrittenIsReadable, RowReadable, Responding, db
<1>3. ShowsItems(w)'
  BY <1>1 DEF ShowsItems, IsItemOf, db
<1> QED
  BY <1>1, <1>2, <1>3 DEF Answerable, PutsLoadable, TargetExists, ReadsNoNull

LEMMA RefreshRespond ==
  ASSUME RefreshInv, NEW w, Workers = {w}, Respond(w)
  PROVE  Answerable(w)'
<1>0. /\ SessionOK(sess[w]) /\ ControlOK(w) /\ ReadsNoNull(w) /\ ShowsItems(w)
      /\ DOMAIN sess[w] = DOMAIN NewSession /\ UNCHANGED db
      /\ pc[w] \in Responding /\ pc[w] # "idle"
  BY RespondEnds DEF RefreshInv, Answerable, TypeOK, SessionOK, Responding
<1>1. CASE \E code : Answer(w, code)
  BY <1>1, RefreshByAnswer
<1>2. CASE Goto(w, "respond", sess[w])
  BY <1>0, <1>2, RefreshByRespond DEF ReadsNoNull
<1>3. CASE respond_items(w)
  <2> DEFINE items == purchase_orders[sess[w].id].items
             s == [sess[w] EXCEPT !.lines = items]
  <2>1. Goto(w, "respond_item", s) \/ \E code : Answer(w, code)
    BY <1>3 DEF respond_items
  <2>2. /\ s.id = sess[w].id /\ s.wrote = sess[w].wrote /\ s.read = sess[w].read
        /\ s.lines = items
    BY <1>0 DEF NewSession
  <2>3. \A k \in DOMAIN s.lines : IsItemOf(s.id, s.lines[k])
    BY <2>2 DEF IsItemOf
  <2> HIDE DEF s
  <2> QED
    BY <1>0, <1>1, <2>1, <2>2, <2>3, RefreshByRespond DEF ReadsNoNull
<1>4. CASE respond_item(w)
  <2> DEFINE m == Head(sess[w].lines).material
             read == InsertRow(sess[w].read, m, Loaded(w, m))
             s1 == [sess[w] EXCEPT !.lines = Tail(sess[w].lines), !.read = read]
             s2 == [sess[w] EXCEPT !.lines = Tail(sess[w].lines)]
  <2>1. \/ Goto(w, "respond_item", s1) /\ Loaded(w, m) # Null
        \/ Goto(w, "respond_item", s2)
        \/ \E code : Answer(w, code)
    BY <1>4 DEF respond_item
  <2>2. /\ s1.id = sess[w].id /\ s1.wrote = sess[w].wrote /\ s1.read = read
        /\ s2.id = sess[w].id /\ s2.wrote = sess[w].wrote /\ s2.read = sess[w].read
        /\ s1.lines = Tail(sess[w].lines) /\ s2.lines = Tail(sess[w].lines)
    BY <1>0 DEF NewSession
  <2>3. \A k \in DOMAIN Tail(sess[w].lines) : IsItemOf(sess[w].id, Tail(sess[w].lines)[k])
    <3>1. /\ pc[w] = "respond_item" /\ sess[w].lines \in Seq(Item) /\ sess[w].lines # <<>>
      BY <1>0, <1>4 DEF respond_item, ControlOK
    <3>2. ASSUME NEW k \in DOMAIN Tail(sess[w].lines)
          PROVE  k + 1 \in DOMAIN sess[w].lines /\ Tail(sess[w].lines)[k] = sess[w].lines[k + 1]
      BY <3>1
    <3> QED
      BY <1>0, <3>1, <3>2 DEF ShowsItems
  <2>4. req[w].op \in OrderShown
    BY <1>0, <1>4 DEF respond_item, ControlOK
  <2>5. Loaded(w, m) # Null => \A k \in DOMAIN read : read[k] # Null
    BY <1>0, <2>4 DEF InsertRow, ReadsNoNull
  <2> HIDE DEF s1, s2, read
  <2> QED
    BY <1>0, <1>1, <2>1, <2>2, <2>3, <2>4, <2>5, RefreshByRespond DEF ReadsNoNull
<1> QED
  BY <1>1, <1>2, <1>3, <1>4 DEF Respond, refresh, respond

LEMMA RefreshNext ==
  ASSUME \A status \in PutStatus : Loadable(status), NEW w, Workers = {w}
  PROVE  RefreshInv /\ [Next]_vars => RefreshInv'
<1> SUFFICES ASSUME RefreshInv, [Next]_vars PROVE RefreshInv'
  OBVIOUS
<1>0. TypeOK'
  BY TypeNext DEF RefreshInv
<1> DEFINE Goal == Answerable(w)'
<1>1. CASE UNCHANGED vars
  BY <1>0, <1>1
  DEF RefreshInv, Answerable, PutsLoadable, WrittenIsReadable, RowReadable, TargetExists,
      ReadsNoNull, ShowsItems, IsItemOf, vars
<1>2. ASSUME NEW r \in Request, Accept(w, r)
      PROVE  Goal
  <2> DEFINE s == [NewSession EXCEPT !.lines =
                     IF r.op = "create_purchase_order" THEN r.lines ELSE <<>>]
  <2>1. s.wrote = FALSE /\ DOMAIN s.read = {}
    BY EmptyTableType DEF NewSession
  <2>2. pc'[w] = FirstStatement[r.op] /\ sess'[w] = s /\ req'[w] = r
    BY <1>2 DEF Accept, RefreshInv, TypeOK
  <2>3. /\ FirstStatement[r.op] \notin {"load_items", "add_item"}
        /\ FirstStatement[r.op] = "commit" => r.op = "create_material"
        /\ FirstStatement[r.op] # "respond_item"
    BY DEF FirstStatement, Request
  <2> HIDE DEF s
  <2> QED
    BY <2>1, <2>2, <2>3
    DEF Answerable, PutsLoadable, WrittenIsReadable, TargetExists, ReadsNoNull, ShowsItems,
        OrderOps
<1>3. ASSUME Respond(w) \/ database_locked(w) \/ stale_row(w) \/ Crash(w)
      PROVE  Goal
  BY <1>3, RefreshRespond, RefreshByAnswer DEF database_locked, stale_row, Crash
<1>4. Goal
  BY <1>1, <1>2, <1>3, RefreshPurchase, RefreshStock DEF Next, Step, RefreshInv
<1> QED
  BY <1>0, <1>4 DEF RefreshInv

\* An item that makes the response fail is an item of the order.
LEMMA RefusedItemShows ==
  ASSUME NEW w, Workers = {w}, RefreshInv, respond_item(w), sess[w].lines # <<>>,
         Loaded(w, Head(sess[w].lines).material) = Null,
         Head(sess[w].lines).material \in DOMAIN sess[w].read \cup DOMAIN materials
  PROVE  ~ Presentable(w)
<1> DEFINE item == Head(sess[w].lines)
<1>1. /\ pc[w] = "respond_item" /\ sess[w].lines \in Seq(Item) /\ req[w].op \in OrderShown
      /\ ReadsNoNull(w) /\ ShowsItems(w)
  BY DEF RefreshInv, Answerable, TypeOK, ControlOK, respond_item, Responding
<1>2. item.material \in DOMAIN materials /\ materials[item.material] = Null
  BY <1>1 DEF ReadsNoNull, Loaded
<1>3. IsItemOf(sess[w].id, item)
  BY <1>1 DEF ShowsItems
<1> QED
  BY <1>1, <1>2, <1>3 DEF Presentable, IsItemOf, OrderShown, MaterialShown

(***************************************************************************)
(* A step of a session that has written, and that ends the request, is one *)
(* of the response, or the death of the worker.                            *)
(***************************************************************************)
LEMMA ErrorsStep ==
  ASSUME NEW w, Workers = {w}, RefreshInv, [Next]_vars,
         pc[w] # "idle", pc'[w] = "idle", sess[w].wrote, reply' \in {w} \X Errors
  PROVE  /\ reply' = <<w, "server_error">>
         /\ req[w].op \in MaterialShown \cup OrderShown
         /\ ~ Presentable(w)
<1>1. pc[w] \in Responding /\ RowReadable(w) /\ ControlOK(w)
  BY DEF RefreshInv, Answerable, TypeOK, WrittenIsReadable
<1>2. Respond(w) \/ Crash(w)
  <2>1. Step(w) \/ Crash(w)
    BY DEF Next, vars, Accept
  <2>2. ~ Purchase(w)
    BY <1>1
    DEF Purchase, create_purchase_order, create_item, create_item_unknown_material,
        create_commit, order_not_found, order_not_loadable, order_refused,
        update_purchase_order, approve_order, cancel_order, order_commit, receive_order,
        receive_load_items, receive_item, receive_item_no_stock, receive_commit, At, Responding
  <2>3. ~ Stock(w)
    BY <1>1
    DEF Stock, create_material, material_not_found, update_material,
        update_material_commit, delete_material, delete_load_items, delete_commit,
        reorder_material, At, Responding
  <2>4. ~ database_locked(w) /\ ~ stale_row(w)
    BY <1>1 DEF database_locked, stale_row, Writing, Responding
  <2> QED
    BY <2>1, <2>2, <2>3, <2>4 DEF Step
<1>3. CASE Crash(w)
  BY <1>3 DEF Crash, Answer, Errors
<1>4. ASSUME NEW label \in {"respond", "respond_item"}, NEW s, Goto(w, label, s) PROVE FALSE
  BY <1>4 DEF Goto, RefreshInv, TypeOK
<1>5. CASE refresh(w)
  <2>1. Answer(w, "server_error") /\ ~ RowComplete(w)
    BY <1>1, <1>4, <1>5 DEF refresh, Answer, Errors
  <2>2. req[w].op \in MaterialShown \cup OrderShown /\ ~ Presentable(w)
    BY <1>1, <2>1 DEF RowComplete, RowReadable, Presentable, MaterialShown, OrderShown
  <2> QED
    BY <2>1, <2>2 DEF Answer
<1>6. CASE respond_items(w)
  <2>1. /\ Answer(w, "server_error") /\ req[w].op \in OrderShown
        /\ \E k \in DOMAIN purchase_orders[sess[w].id].items :
             purchase_orders[sess[w].id].items[k].material = Null
    BY <1>1, <1>4, <1>6 DEF respond_items, ControlOK, Responding
  <2> QED
    BY <2>1 DEF Presentable, MaterialShown, OrderShown, Answer
<1>7. CASE respond_item(w)
  <2>1. /\ Answer(w, "server_error") /\ sess[w].lines # <<>>
        /\ Loaded(w, Head(sess[w].lines).material) = Null
        /\ Head(sess[w].lines).material \in DOMAIN sess[w].read \cup DOMAIN materials
    BY <1>4, <1>7 DEF respond_item
  <2>2. req[w].op \in OrderShown
    BY <1>1, <1>7 DEF respond_item, ControlOK, Responding
  <2> QED
    BY <1>7, <2>1, <2>2, RefusedItemShows DEF Answer
<1>8. CASE respond(w)
  BY <1>8 DEF respond, Answer, Errors
<1> QED
  BY <1>2, <1>3, <1>5, <1>6, <1>7, <1>8 DEF Respond

(***************************************************************************)
(* With one worker, and every PUT of a status a name of OrderStatus or     *)
(* NULL: a request whose change is kept is answered with an error only     *)
(* because the rows it shows hold a NULL that schemas.py does not allow.   *)
(* The run put_unknown_status shows that the second assumption is needed.  *)
(***************************************************************************)
THEOREM ErrorsComeEarly ==
  ASSUME \A status \in PutStatus : Loadable(status), NEW worker, Workers = {worker}
  PROVE  Spec => OnlyTheResponseFailsLate
<1> DEFINE Late == \A w \in Workers : pc[w] # "idle" /\ pc'[w] = "idle" /\ sess[w].wrote
                     => \/ reply' \notin {w} \X Errors
                        \/ /\ reply' = <<w, "server_error">>
                           /\ req[w].op \in MaterialShown \cup OrderShown
                           /\ ~ Presentable(w)
<1>1. RefreshInv /\ [Next]_vars => RefreshInv'
  BY RefreshNext
<1>2. RefreshInv /\ [Next]_vars => [Late]_vars
  BY ErrorsStep
<1>3. Spec => [][Late]_vars
  BY <1>1, <1>2, RefreshInit, PTL DEF Spec
<1> QED
  BY <1>3 DEF OnlyTheResponseFailsLate
==============================================================================
