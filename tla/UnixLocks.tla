------------------------------ MODULE UnixLocks -----------------------------
(***************************************************************************)
(* Locking of the database file in os_unix.c.  POSIX advisory locks belong *)
(* to a process, not to a handle: a process that holds a lock is granted   *)
(* it again, and closing any handle of the file drops all of them.  So     *)
(* SQLite keeps, per process and inode, its own record of the locks        *)
(* (unixInodeInfo), protected by pLockMutex, and calls fcntl() only when   *)
(* the process as a whole changes its lock.                                *)
(*                                                                         *)
(* An action is the code from one fcntl() or close() to the next; `call'   *)
(* is the call that holds pLockMutex.  A call that is refused without a    *)
(* change of state (SQLITE_BUSY, or an error of fcntl()) is no step.       *)
(* F_UNLCK and the downgrade to F_RDLCK are assumed to succeed, as they do *)
(* on a local file.                                                        *)
(***************************************************************************)
EXTENDS Naturals, FiniteSets

CONSTANTS
  Process,      \* the processes that open the database
  File,         \* their unixFile handles
  ProcessOf,    \* handle -> process
  SerialClose   \* TRUE: no thread locks while another one of its process closes

ASSUME FileAssumption == IsFiniteSet(File)
ASSUME ProcessOfAssumption == ProcessOf \in [File -> Process]
ASSUME SerialCloseAssumption == SerialClose \in BOOLEAN

VARIABLES
  file,         \* handle -> its state and unixFile.eFileLock
  inode,        \* process -> its unixInodeInfo
  posix,        \* process -> its advisory lock on each byte range
  call          \* process -> the unixLock or posixUnlock call in progress

vars == <<file, inode, posix, call>>

NO_LOCK == 0
SHARED_LOCK == 1
RESERVED_LOCK == 2
PENDING_LOCK == 3
EXCLUSIVE_LOCK == 4

Byte == {"PENDING", "RESERVED", "SHARED"}
Idle == [pc |-> "idle"]
NoLocks == [b \in Byte |-> "F_UNLCK"]
NewInode == [eFileLock |-> NO_LOCK, nShared |-> 0, nLock |-> 0, pUnused |-> 0]

FilesOf(p) == {f \in File : ProcessOf[f] = p}

Init ==
  /\ file = [f \in File |-> [state |-> "closed", eFileLock |-> NO_LOCK]]
  /\ inode = [p \in Process |-> NewInode]
  /\ posix = [p \in Process |-> NoLocks]
  /\ call = [p \in Process |-> Idle]

\* fcntl(F_SETLK) refuses a lock that conflicts with one of another process.
Grants(p, b, type) ==
  \A q \in Process \ {p} :
    posix[q][b] = "F_UNLCK" \/ (type = "F_RDLCK" /\ posix[q][b] = "F_RDLCK")

Fcntl(p, bytes, type) ==
  posix' = [posix EXCEPT ![p] = [b \in Byte |-> IF b \in bytes THEN type ELSE @[b]]]

SetFile(f, level) == file' = [file EXCEPT ![f].eFileLock = level]
SetInode(p, level) == inode' = [inode EXCEPT ![p].eFileLock = level]
At(p, f, pc) == call[p] = [pc |-> pc, file |-> f]
Goto(p, f, pc) == call' = [call EXCEPT ![p] = [pc |-> pc, file |-> f]]
Return(p) == call' = [call EXCEPT ![p] = Idle]

Closing(p) == \E g \in FilesOf(p) : file[g].state = "close_fd"

\* The thread of f can enter pLockMutex.
CanCall(p, f) ==
  /\ p = ProcessOf[f]
  /\ call[p] = Idle
  /\ SerialClose => ~Closing(p)

\* Faulty variant: only a request for more than SHARED looks at this process.
SharedNeverPrecluded(p, f, eFileLock) ==
  file[f].eFileLock = inode[p].eFileLock \/ eFileLock = SHARED_LOCK

\* unixLock() returns BUSY at once when another handle of this process has a
\* lock that precludes the requested one.
NotPrecluded(p, f, eFileLock) ==
  \/ file[f].eFileLock = inode[p].eFileLock
  \/ inode[p].eFileLock < PENDING_LOCK /\ eFileLock = SHARED_LOCK
-----------------------------------------------------------------------------
\* A new unixFile of the inode: findReusableFd() prefers a descriptor whose
\* close was deferred.
unixOpen(p, f) ==
  /\ p = ProcessOf[f]
  /\ call[p] = Idle
  /\ ~Closing(p)
  /\ file[f].state = "closed"
  /\ file' = [file EXCEPT ![f].state = "open"]
  /\ inode' = [inode EXCEPT ![p].pUnused = IF @ > 0 THEN @ - 1 ELSE 0]
  /\ UNCHANGED <<posix, call>>

\* Faulty variant: the reader is not counted.
lock_shared_uncounted(p, f) ==
  /\ CanCall(p, f)
  /\ file[f] = [state |-> "open", eFileLock |-> NO_LOCK]
  /\ inode[p].eFileLock \in {SHARED_LOCK, RESERVED_LOCK}
  /\ SetFile(f, SHARED_LOCK)
  /\ inode' = [inode EXCEPT ![p].nLock = @ + 1]
  /\ UNCHANGED <<posix, call>>

\* SHARED when this process already has SHARED or RESERVED: no system call.
lock_shared_again(p, f) ==
  /\ CanCall(p, f)
  /\ file[f] = [state |-> "open", eFileLock |-> NO_LOCK]
  /\ inode[p].eFileLock \in {SHARED_LOCK, RESERVED_LOCK}
  /\ SetFile(f, SHARED_LOCK)
  /\ inode' = [inode EXCEPT ![p].nShared = @ + 1, ![p].nLock = @ + 1]
  /\ UNCHANGED <<posix, call>>

\* Faulty variant: a reader does not ask for the pending byte.
lock_shared_past_pending(p, f) ==
  /\ CanCall(p, f)
  /\ file[f] = [state |-> "open", eFileLock |-> NO_LOCK]
  /\ NotPrecluded(p, f, SHARED_LOCK)
  /\ inode[p].eFileLock \notin {SHARED_LOCK, RESERVED_LOCK}
  /\ Goto(p, f, "shared_range")
  /\ UNCHANGED <<file, inode, posix>>

\* SHARED: first a read lock on the pending byte, ...
lock_shared(p, f) ==
  /\ CanCall(p, f)
  /\ file[f] = [state |-> "open", eFileLock |-> NO_LOCK]
  /\ NotPrecluded(p, f, SHARED_LOCK)
  /\ inode[p].eFileLock \notin {SHARED_LOCK, RESERVED_LOCK}
  /\ Grants(p, "PENDING", "F_RDLCK")
  /\ Fcntl(p, {"PENDING"}, "F_RDLCK")
  /\ Goto(p, f, "shared_range")
  /\ UNCHANGED <<file, inode>>

\* ... then one on the shared range, which may fail, ...
shared_range(p, f) ==
  /\ At(p, f, "shared_range")
  /\ \/ /\ Grants(p, "SHARED", "F_RDLCK")
        /\ Fcntl(p, {"SHARED"}, "F_RDLCK")
        /\ Goto(p, f, "drop_pending")
     \/ /\ Goto(p, f, "shared_refused")
        /\ UNCHANGED posix
  /\ UNCHANGED <<file, inode>>

\* ... and the pending byte is dropped in either case.
drop_pending(p, f) ==
  /\ At(p, f, "drop_pending")
  /\ Fcntl(p, {"PENDING"}, "F_UNLCK")
  /\ SetFile(f, SHARED_LOCK)
  /\ inode' = [inode EXCEPT ![p] = [eFileLock |-> SHARED_LOCK, nShared |-> 1,
                                    nLock |-> @.nLock + 1, pUnused |-> @.pUnused]]
  /\ Return(p)

\* Faulty variant: a refused reader leaves its lock on the pending byte.
shared_refused_at_once(p, f) ==
  /\ At(p, f, "shared_refused")
  /\ Return(p)
  /\ UNCHANGED <<file, inode, posix>>

shared_refused(p, f) ==
  /\ At(p, f, "shared_refused")
  /\ Fcntl(p, {"PENDING"}, "F_UNLCK")
  /\ Return(p)
  /\ UNCHANGED <<file, inode>>

lock_reserved(p, f) ==
  /\ CanCall(p, f)
  /\ file[f] = [state |-> "open", eFileLock |-> SHARED_LOCK]
  /\ NotPrecluded(p, f, RESERVED_LOCK)
  /\ Grants(p, "RESERVED", "F_WRLCK")
  /\ Fcntl(p, {"RESERVED"}, "F_WRLCK")
  /\ SetFile(f, RESERVED_LOCK)
  /\ SetInode(p, RESERVED_LOCK)
  /\ UNCHANGED call

\* EXCLUSIVE from RESERVED takes the pending byte first and keeps it.
lock_pending(p, f) ==
  /\ CanCall(p, f)
  /\ file[f] = [state |-> "open", eFileLock |-> RESERVED_LOCK]
  /\ NotPrecluded(p, f, EXCLUSIVE_LOCK)
  /\ Grants(p, "PENDING", "F_WRLCK")
  /\ Fcntl(p, {"PENDING"}, "F_WRLCK")
  /\ SetFile(f, PENDING_LOCK)
  /\ SetInode(p, PENDING_LOCK)
  /\ Goto(p, f, "exclusive_range")

\* The shared range: refused while another handle, of this process (nShared)
\* or another one, still reads.
GrantExclusive(p, f) ==
  /\ inode[p].nShared = 1
  /\ Grants(p, "SHARED", "F_WRLCK")
  /\ Fcntl(p, {"SHARED"}, "F_WRLCK")
  /\ SetFile(f, EXCLUSIVE_LOCK)
  /\ SetInode(p, EXCLUSIVE_LOCK)

exclusive_range(p, f) ==
  /\ At(p, f, "exclusive_range")
  /\ \/ GrantExclusive(p, f)
     \/ UNCHANGED <<file, inode, posix>>
  /\ Return(p)

\* EXCLUSIVE from SHARED (a hot journal) or again from PENDING.
lock_exclusive(p, f) ==
  /\ CanCall(p, f)
  /\ file[f].state = "open"
  /\ file[f].eFileLock \in {SHARED_LOCK, PENDING_LOCK}
  /\ NotPrecluded(p, f, EXCLUSIVE_LOCK)
  /\ GrantExclusive(p, f)
  /\ UNCHANGED call
-----------------------------------------------------------------------------
\* posixUnlock(SHARED_LOCK): the shared range becomes a read lock, ...
downgrade(p, f) ==
  /\ CanCall(p, f)
  /\ file[f].state = "open"
  /\ file[f].eFileLock > SHARED_LOCK
  /\ Fcntl(p, {"SHARED"}, "F_RDLCK")
  /\ Goto(p, f, "downgraded")
  /\ UNCHANGED <<file, inode>>

\* ... then the pending and the reserved byte go, in one call.
downgraded(p, f) ==
  /\ At(p, f, "downgraded")
  /\ Fcntl(p, {"PENDING", "RESERVED"}, "F_UNLCK")
  /\ SetInode(p, SHARED_LOCK)
  /\ SetFile(f, SHARED_LOCK)
  /\ Return(p)

\* The last handle of the process to give up its SHARED lock drops all the
\* POSIX locks, and closes the descriptors that waited for it.
LastShared(p) == inode[p].nShared = 1

\* Faulty variant: the record of the process is reset with its first reader.
ReleaseAll(p, f, state) ==
  /\ file' = [file EXCEPT ![f] = [state |-> state, eFileLock |-> NO_LOCK]]
  /\ inode' = [inode EXCEPT ![p] = NewInode]

ReleaseShared(p, f, state) ==
  /\ file' = [file EXCEPT ![f] = [state |-> state, eFileLock |-> NO_LOCK]]
  /\ inode' = [inode EXCEPT ![p] =
       [eFileLock |-> IF LastShared(p) THEN NO_LOCK ELSE @.eFileLock,
        nShared |-> @.nShared - 1, nLock |-> @.nLock - 1,
        pUnused |-> IF @.nLock = 1 THEN 0 ELSE @.pUnused]]

\* posixUnlock(NO_LOCK), called on its own or by unixClose(): more than SHARED
\* is given up first.
unlock(p, f) ==
  /\ CanCall(p, f)
  /\ file[f].state = "open"
  /\ file[f].eFileLock > NO_LOCK
  /\ \E state \in {"open", "closing"} :
       IF file[f].eFileLock > SHARED_LOCK
       THEN /\ Fcntl(p, {"PENDING", "RESERVED"}, "F_UNLCK")
            /\ SetInode(p, SHARED_LOCK)
            /\ file' = [file EXCEPT ![f].state = state]
            /\ Goto(p, f, "unlock_shared")
       ELSE /\ Fcntl(p, IF LastShared(p) THEN Byte ELSE {}, "F_UNLCK")
            /\ ReleaseShared(p, f, state)
            /\ UNCHANGED call

unlock_shared(p, f) ==
  /\ At(p, f, "unlock_shared")
  /\ Fcntl(p, IF LastShared(p) THEN Byte ELSE {}, "F_UNLCK")
  /\ ReleaseShared(p, f, file[f].state)
  /\ Return(p)

unixClose(p, f) ==
  /\ CanCall(p, f)
  /\ file[f] = [state |-> "open", eFileLock |-> NO_LOCK]
  /\ file' = [file EXCEPT ![f].state = "closing"]
  /\ UNCHANGED <<inode, posix, call>>

\* Faulty variant: the descriptor is closed whatever the process has locked.
close_check_at_once(p, f) ==
  /\ p = ProcessOf[f]
  /\ call[p] = Idle
  /\ ~Closing(p)
  /\ file[f] = [state |-> "closing", eFileLock |-> NO_LOCK]
  /\ file' = [file EXCEPT ![f].state = "close_fd"]
  /\ UNCHANGED <<inode, posix, call>>

\* Under pLockMutex: with outstanding locks in the process the descriptor is
\* kept for later (setPendingFd), otherwise it is going to be closed.
close_check(p, f) ==
  /\ p = ProcessOf[f]
  /\ call[p] = Idle
  /\ ~Closing(p)
  /\ file[f] = [state |-> "closing", eFileLock |-> NO_LOCK]
  /\ IF inode[p].nLock > 0
     THEN /\ inode' = [inode EXCEPT ![p].pUnused = @ + 1]
          /\ file' = [file EXCEPT ![f].state = "closed"]
     ELSE /\ file' = [file EXCEPT ![f].state = "close_fd"]
          /\ UNCHANGED inode
  /\ UNCHANGED <<posix, call>>

\* close(): pLockMutex is no longer held.  All POSIX locks of the process on
\* this inode go with the descriptor; the last handle frees the inode.
close_fd(p, f) ==
  /\ p = ProcessOf[f]
  /\ file[f].state = "close_fd"
  /\ file' = [file EXCEPT ![f].state = "closed"]
  /\ posix' = [posix EXCEPT ![p] = NoLocks]
  /\ inode' = IF \A g \in FilesOf(p) \ {f} : file[g].state = "closed"
              THEN [inode EXCEPT ![p] = NewInode]
              ELSE inode
  /\ UNCHANGED call

\* The process ends anywhere; the kernel closes its descriptors.
Crash(p) ==
  /\ \E f \in FilesOf(p) : file[f].state # "closed"
  /\ file' = [f \in File |-> IF ProcessOf[f] = p
                             THEN [state |-> "closed", eFileLock |-> NO_LOCK]
                             ELSE file[f]]
  /\ inode' = [inode EXCEPT ![p] = NewInode]
  /\ posix' = [posix EXCEPT ![p] = NoLocks]
  /\ call' = [call EXCEPT ![p] = Idle]

LockStep(p, f) ==
  \/ lock_shared_again(p, f) \/ lock_shared(p, f) \/ shared_range(p, f)
  \/ drop_pending(p, f) \/ shared_refused(p, f) \/ lock_reserved(p, f)
  \/ lock_pending(p, f) \/ exclusive_range(p, f) \/ lock_exclusive(p, f)

UnlockStep(p, f) ==
  \/ downgrade(p, f) \/ downgraded(p, f) \/ unlock(p, f) \/ unlock_shared(p, f)
  \/ unixOpen(p, f) \/ unixClose(p, f) \/ close_check(p, f) \/ close_fd(p, f)

Next ==
  \/ \E p \in Process, f \in File : LockStep(p, f) \/ UnlockStep(p, f)
  \/ \E p \in Process : Crash(p)

Spec == Init /\ [][Next]_vars

\* Every call returns, every reader ends its transaction, and the busy handler
\* of a writer with PENDING calls unixLock() until it has EXCLUSIVE.
EndRead(p, f) == file[f].eFileLock = SHARED_LOCK /\ unlock(p, f)

Fairness ==
  \A p \in Process, f \in File :
    /\ WF_vars(EndRead(p, f))
    /\ WF_vars(unlock_shared(p, f) \/ downgraded(p, f))
    /\ WF_vars(shared_range(p, f) \/ drop_pending(p, f) \/ shared_refused(p, f))
    /\ WF_vars(exclusive_range(p, f) \/ lock_exclusive(p, f))

FairSpec == Spec /\ Fairness
-----------------------------------------------------------------------------
\* unixCheckReservedLock(): does anybody hold RESERVED or more?
ReservedElsewhere(p) == ~Grants(p, "RESERVED", "F_WRLCK")

unixCheckReservedLock(p) ==
  inode[p].eFileLock > SHARED_LOCK \/ ReservedElsewhere(p)

\* The level a handle holds for the others: a call that gives up a lock counts
\* from its first system call.
Level(f) ==
  IF call[ProcessOf[f]] \in {[pc |-> "downgraded", file |-> f],
                             [pc |-> "unlock_shared", file |-> f]}
  THEN SHARED_LOCK
  ELSE file[f].eFileLock

\* What the file system adds up to is the lock of os.h: every step of a handle
\* is a step of FileLock, or invisible there.
FL == INSTANCE FileLock WITH lock <- [f \in File |-> Level(f)]

ImplementsFileLock == FL!Spec
-----------------------------------------------------------------------------
Pcs == {"shared_range", "drop_pending", "shared_refused", "exclusive_range",
        "downgraded", "unlock_shared"}

\* Every variable has its type: counters stay between zero and the number of
\* handles (assert nLock>=0 in posixUnlock).
TypeOK ==
  /\ file \in [File -> [state : {"closed", "open", "closing", "close_fd"},
                        eFileLock : NO_LOCK .. EXCLUSIVE_LOCK]]
  /\ inode \in [Process -> [eFileLock : NO_LOCK .. EXCLUSIVE_LOCK,
                             nShared : Nat, nLock : Nat, pUnused : Nat]]
  /\ posix \in [Process -> [Byte -> {"F_UNLCK", "F_RDLCK", "F_WRLCK"}]]
  /\ call \in [Process -> {Idle} \cup [pc : Pcs, file : File]]

\* At most one handle holds RESERVED or more, and EXCLUSIVE excludes every
\* other lock, also between the handles of one process, which POSIX locks do
\* not separate (unixLock).
Compatible ==
  \A f \in File : \A g \in File \ {f} :
    /\ Level(f) >= RESERVED_LOCK => Level(g) < RESERVED_LOCK
    /\ Level(f) = EXCLUSIVE_LOCK => Level(g) = NO_LOCK

\* A level that a handle holds is backed by the lock of its process in the
\* kernel, so that other processes respect it; closing another handle of the
\* process does not take it away (unixClose defers the close).
LocksBacked ==
  \A f \in File :
    LET held == posix[ProcessOf[f]] IN
      /\ Level(f) >= SHARED_LOCK => held["SHARED"] # "F_UNLCK"
      /\ Level(f) \in {RESERVED_LOCK, PENDING_LOCK} => held["RESERVED"] = "F_WRLCK"
      /\ Level(f) = PENDING_LOCK => held["PENDING"] = "F_WRLCK"
      /\ Level(f) = EXCLUSIVE_LOCK => held["SHARED"] = "F_WRLCK"

\* A process that holds no level keeps nothing in the kernel, where it would
\* lock out the others, and no descriptor that waits to be closed.
NothingLeftBehind ==
  \A p \in Process :
    call[p] = Idle /\ (\A f \in FilesOf(p) : file[f].eFileLock = NO_LOCK)
      => posix[p] = NoLocks /\ inode[p].pUnused = 0

\* While a reader looks for a hot journal, unixCheckReservedLock() tells it
\* exactly whether some handle, of this or another process, has a write
\* transaction: a wrong yes leaves a hot journal alone, a wrong no rolls back
\* the journal of a live writer.
ReservedIsExact ==
  \A f \in File :
    LET p == ProcessOf[f] IN
      Level(f) = SHARED_LOCK /\ call[p] = Idle =>
        (unixCheckReservedLock(p) <=>
           \E g \in File \ {f} :
             \/ Level(g) > SHARED_LOCK
             \/ call[ProcessOf[g]] = [pc |-> "downgraded", file |-> g]
                  /\ posix[ProcessOf[g]]["RESERVED"] = "F_WRLCK")

\* A writer with PENDING gets EXCLUSIVE (or gives up itself), although readers
\* come all the time: the pending byte stops new ones (unixLock).  Only the
\* threads of a process that reads already do not ask for it, and may not go on
\* for ever.
SharedAgain == \E p \in Process, f \in File : lock_shared_again(p, f)
WriterNotStarved ==
  <>[][~SharedAgain]_vars =>
    \A f \in File :
      file[f].eFileLock = PENDING_LOCK ~> file[f].eFileLock # PENDING_LOCK
=============================================================================
