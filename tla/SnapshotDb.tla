----------------------------- MODULE SnapshotDb -----------------------------
(***************************************************************************)
(* What the write-ahead log promises to the pager: every transaction sees  *)
(* one committed image for as long as it lasts, also while others commit;  *)
(* a write transaction begins only on the newest image, one at a time; a   *)
(* commit cut short either happens as a whole or not at all; and a power   *)
(* failure goes back to an image that was once committed.                  *)
(***************************************************************************)
EXTENDS Naturals

CONSTANTS
  Conn,        \* the connections to one database
  Page,        \* the page numbers
  Content,     \* what a page may hold
  NoImage      \* the view of a connection that is not in a transaction

VARIABLES
  data,        \* page -> content: the committed image
  pending,     \* the images of the commits that are not decided yet
  older,       \* further images a power failure may go back to
  view,        \* connection -> the image its transaction sees, or NoImage
  writing,     \* the connections with an open write transaction
  durable      \* a power failure keeps what is committed; fixed

vars == <<data, pending, older, view, writing, durable>>

Init ==
  /\ data \in [Page -> Content]
  /\ pending = {}
  /\ older = {}
  /\ view = [c \in Conn |-> NoImage]
  /\ writing = {}
  /\ durable \in BOOLEAN

BeginRead(c) ==
  /\ view[c] = NoImage
  /\ view' = [view EXCEPT ![c] = data]
  /\ UNCHANGED <<data, pending, older, writing, durable>>

BeginWrite(c) ==
  /\ writing = {} /\ writing' = {c}
  /\ view[c] = data
  /\ UNCHANGED <<data, pending, older, view, durable>>

Write(c, p, v) ==
  /\ c \in writing /\ writing' = writing
  /\ view' = [view EXCEPT ![c][p] = v]
  /\ UNCHANGED <<data, pending, older, durable>>

\* From here on a crash may find the transaction committed.
Prepare(c) ==
  /\ c \in writing
  /\ pending' = {view[c]}
  /\ older' \subseteq older \cup pending
  /\ UNCHANGED <<data, view, writing, durable>>

Commit(c) ==
  /\ c \in writing /\ writing' = {}
  /\ view[c] \in pending
  /\ data' = view[c]
  /\ pending' = {}
  /\ older' \subseteq older \cup {data} \cup pending
  /\ durable => older' = {}
  /\ UNCHANGED <<view, durable>>

Rollback(c) ==
  /\ c \in writing /\ writing' = {}
  /\ view' = [view EXCEPT ![c] = data]
  /\ UNCHANGED <<data, pending, older, durable>>

\* The end of a read transaction, or of a process.
Leave(c) ==
  /\ writing' = writing \ {c}
  /\ view' = [view EXCEPT ![c] = NoImage]
  /\ UNCHANGED <<data, pending, older, durable>>

\* A commit that was cut short is found in the log; others are not found again.
Recover ==
  /\ writing = {} /\ data' \in pending
  /\ pending' \subseteq pending
  /\ older' \subseteq older \cup {data} \cup pending
  /\ UNCHANGED <<view, writing, durable>>

\* The next writer overwrites a commit that was cut short.
Drop ==
  /\ pending' \subseteq pending
  /\ older' \subseteq older \cup pending
  /\ UNCHANGED <<data, view, writing, durable>>

\* What has been written reaches the disk for good.
Settle ==
  /\ UNCHANGED <<data, pending, view, writing, durable>>
  /\ older' \subseteq older

PowerLoss ==
  /\ writing' = {}
  /\ view' = [c \in Conn |-> NoImage]
  /\ data' \in {data} \cup pending \cup older
  /\ pending' = {}
  /\ older' = {}
  /\ UNCHANGED durable

Next ==
  \/ Settle
  \/ \E c \in Conn :
       \/ BeginRead(c) \/ BeginWrite(c) \/ Leave(c) \/ Rollback(c)
       \/ Prepare(c) \/ Commit(c)
       \/ \E p \in Page, v \in Content : Write(c, p, v)
  \/ Recover \/ Drop \/ PowerLoss

Spec == Init /\ [][Next]_vars
=============================================================================
