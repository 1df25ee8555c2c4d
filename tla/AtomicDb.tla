------------------------------ MODULE AtomicDb ------------------------------
(***************************************************************************)
(* What the pager promises to the code above it: a database image that     *)
(* only commits change, as a whole; readers that see one image for as long *)
(* as they read; one writer at a time; and a committed image that crashes  *)
(* and power failures leave alone.                                         *)
(***************************************************************************)
EXTENDS Naturals

CONSTANTS
  Conn,        \* the connections to one database file
  Page,        \* the page numbers
  Content,     \* what a page may hold
  NoView       \* the view of a connection that is not in a transaction

VARIABLES
  data,        \* page -> content: the committed image
  previous,    \* the image a power failure may still go back to
  view,        \* connection -> the image its transaction sees, or NoView
  writing,     \* the connections with an open write transaction
  durable      \* a power failure keeps the last commit that was answered with
               \*   success; fixed

vars == <<data, previous, view, writing, durable>>

Init ==
  /\ data \in [Page -> Content]
  /\ previous = data
  /\ view = [c \in Conn |-> NoView]
  /\ writing = {}
  /\ durable \in BOOLEAN

BeginRead(c) ==
  /\ view[c] = NoView
  /\ view' = [view EXCEPT ![c] = data]
  /\ UNCHANGED <<data, previous, writing, durable>>

BeginWrite(c) ==
  /\ view[c] # NoView
  /\ writing = {}
  /\ writing' = {c}
  /\ UNCHANGED <<data, previous, view, durable>>

Write(c, p, v) ==
  /\ c \in writing
  /\ view' = [view EXCEPT ![c][p] = v]
  /\ UNCHANGED <<data, previous, writing, durable>>

\* A commit waits for every reader to finish: they would see the change.
Commit(c) ==
  /\ c \in writing
  /\ \A d \in Conn \ {c} : view[d] = NoView
  /\ data' = view[c]
  /\ previous' \in IF durable THEN {view[c]} ELSE {data, view[c]}
  /\ writing' = {}
  /\ UNCHANGED <<view, durable>>

\* A commit that is answered with an error: it may be kept all the same, and is
\* not promised to last.
CommitFails(c) ==
  /\ c \in writing
  /\ \A d \in Conn \ {c} : view[d] = NoView
  /\ data' = view[c]
  /\ previous' \in {data, view[c]}
  /\ view' = [view EXCEPT ![c] = NoView]
  /\ writing' = {}
  /\ UNCHANGED durable

\* The end of a write transaction that has changed nothing.
Release(c) ==
  /\ c \in writing
  /\ view[c] = data
  /\ writing' = {}
  /\ UNCHANGED <<data, previous, view, durable>>

\* A rollback, the end of a read transaction, the end of a process.
Leave(c) ==
  /\ view' = [view EXCEPT ![c] = NoView]
  /\ writing' = writing \ {c}
  /\ UNCHANGED <<data, previous, durable>>

\* The last commit reaches the disk for good.
Settle ==
  /\ previous' = data
  /\ UNCHANGED <<data, view, writing, durable>>

PowerLoss ==
  /\ data' \in {data, previous}
  /\ previous' = data'
  /\ view' = [c \in Conn |-> NoView]
  /\ writing' = {}
  /\ UNCHANGED durable

Next ==
  \/ Settle
  \/ PowerLoss
  \/ \E c \in Conn :
       \/ BeginRead(c) \/ BeginWrite(c) \/ Commit(c) \/ CommitFails(c)
       \/ Release(c) \/ Leave(c)
       \/ \E p \in Page, v \in Content : Write(c, p, v)

Spec == Init /\ [][Next]_vars

\* While nobody writes, every open transaction sees the committed image.
ReadersSeeCommitted ==
  \A c \in Conn \ writing : view[c] # NoView => view[c] = data
=============================================================================
