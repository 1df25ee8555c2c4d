------------------------------ MODULE FileLock ------------------------------
(***************************************************************************)
(* The locks that SQLite's pager relies on, as the comment in front of the *)
(* lock levels in os.h promises them: one level per open handle of the     *)
(* database file, every change one atomic step.                            *)
(***************************************************************************)
EXTENDS Naturals

CONSTANTS
  File,        \* the open handles of one database file
  ProcessOf    \* handle -> the process it belongs to

VARIABLE lock                \* handle -> the level it holds

NO_LOCK == 0
SHARED_LOCK == 1
RESERVED_LOCK == 2
PENDING_LOCK == 3
EXCLUSIVE_LOCK == 4

LockLevel == NO_LOCK .. EXCLUSIVE_LOCK

Others(f) == File \ {f}

Init == lock = [f \in File |-> NO_LOCK]

\* Any number of handles may hold SHARED.  PENDING admits no new reader, except
\* in a process that reads already (unixLock() then asks nobody).
AlreadyReads(f) ==
  \E g \in Others(f) : ProcessOf[g] = ProcessOf[f] /\ lock[g] = SHARED_LOCK

Shared(f) ==
  /\ lock[f] = NO_LOCK
  /\ \A g \in Others(f) :
       \/ lock[g] < PENDING_LOCK
       \/ lock[g] = PENDING_LOCK /\ ProcessOf[g] # ProcessOf[f] /\ AlreadyReads(f)
  /\ lock' = [lock EXCEPT ![f] = SHARED_LOCK]

\* One handle at a time may hold RESERVED; the readers stay.
Reserved(f) ==
  /\ lock[f] = SHARED_LOCK
  /\ \A g \in Others(f) : lock[g] < RESERVED_LOCK
  /\ lock' = [lock EXCEPT ![f] = RESERVED_LOCK]

\* PENDING lets the readers finish and admits no new one.
Pending(f) ==
  /\ lock[f] = RESERVED_LOCK
  /\ lock' = [lock EXCEPT ![f] = PENDING_LOCK]

\* EXCLUSIVE precludes all other locks.
Exclusive(f) ==
  /\ lock[f] \in {SHARED_LOCK, PENDING_LOCK}
  /\ \A g \in Others(f) : lock[g] = NO_LOCK
  /\ lock' = [lock EXCEPT ![f] = EXCLUSIVE_LOCK]

Downgrade(f) ==
  /\ lock[f] > SHARED_LOCK
  /\ lock' = [lock EXCEPT ![f] = SHARED_LOCK]

\* Unlocking one handle, or the end of a process with all of its handles.
Release(S) ==
  /\ S # {}
  /\ lock' = [f \in File |-> IF f \in S THEN NO_LOCK ELSE lock[f]]

Next ==
  \/ \E f \in File : \/ Shared(f) \/ Reserved(f) \/ Pending(f)
                     \/ Exclusive(f) \/ Downgrade(f)
  \/ \E S \in SUBSET File : Release(S)

Spec == Init /\ [][Next]_lock

\* At most one handle may change the database, and while one holds EXCLUSIVE
\* nobody else even reads (os.h, semantics of the lock levels).
Compatible ==
  \A f \in File : \A g \in File \ {f} :
    /\ lock[f] >= RESERVED_LOCK => lock[g] < RESERVED_LOCK
    /\ lock[f] = EXCLUSIVE_LOCK => lock[g] = NO_LOCK
=============================================================================
