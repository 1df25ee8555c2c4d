--------------------------- MODULE UnixLocksProofs ---------------------------
(***************************************************************************)
(* UnixLocks implements FileLock, for any number of processes and handles. *)
(* Everything a process decides on its own is an invariant of that process *)
(* (ProcInv); what it takes from the others goes through the kernel, whose *)
(* locks never conflict (KernelInv).                                       *)
(***************************************************************************)
EXTENDS UnixLocks, FiniteSetTheorems, TLAPS

Readers(p) == {f \in FilesOf(p) : file[f].eFileLock >= SHARED_LOCK}

\* The counters count the handles with a lock.
Counted(p) ==
  /\ inode[p].nShared = Cardinality(Readers(p))
  /\ inode[p].nLock = inode[p].nShared
  /\ inode[p].nLock = 0 => inode[p].pUnused = 0
  /\ inode[p].eFileLock = NO_LOCK <=> Readers(p) = {}

\* The level of the process is that of its highest handle, and the handles of
\* one process are compatible.
Highest(p) ==
  /\ inode[p].eFileLock > SHARED_LOCK =>
       \E f \in FilesOf(p) : file[f].eFileLock = inode[p].eFileLock
  /\ \A f \in FilesOf(p) :
       /\ file[f].eFileLock > SHARED_LOCK =>
            /\ inode[p].eFileLock = file[f].eFileLock \/ At(p, f, "unlock_shared")
            /\ \A g \in FilesOf(p) \ {f} : file[g].eFileLock <= SHARED_LOCK
       /\ file[f].eFileLock = EXCLUSIVE_LOCK =>
            \A g \in FilesOf(p) \ {f} : file[g].eFileLock = NO_LOCK

\* The kernel holds what the level of the process needs, and nothing else.
Backed(p) ==
  /\ inode[p].eFileLock >= SHARED_LOCK => posix[p]["SHARED"] # "F_UNLCK"
  /\ inode[p].eFileLock \in {RESERVED_LOCK, PENDING_LOCK} =>
       posix[p]["RESERVED"] = "F_WRLCK"
  /\ inode[p].eFileLock = PENDING_LOCK => posix[p]["PENDING"] = "F_WRLCK"
  /\ inode[p].eFileLock = EXCLUSIVE_LOCK =>
       posix[p]["SHARED"] = "F_WRLCK" \/ call[p].pc = "downgraded"
  /\ posix[p]["RESERVED"] # "F_RDLCK"
  /\ posix[p]["RESERVED"] # "F_UNLCK" => inode[p].eFileLock > SHARED_LOCK
  /\ inode[p].eFileLock = NO_LOCK =>
       /\ posix[p]["SHARED"] # "F_UNLCK" => call[p].pc = "drop_pending"
       /\ posix[p]["PENDING"] # "F_UNLCK" =>
            call[p].pc \in {"shared_range", "drop_pending", "shared_refused"}

\* Where a call stands between two system calls.
InCall(p) ==
  \/ call[p] = Idle
  \/ \E f \in FilesOf(p) :
       \/ /\ \E pc \in {"shared_range", "drop_pending", "shared_refused"} : At(p, f, pc)
          /\ inode[p].eFileLock = NO_LOCK
          /\ posix[p]["PENDING"] = "F_RDLCK"
          /\ call[p].pc = "drop_pending" => posix[p]["SHARED"] = "F_RDLCK"
       \/ /\ At(p, f, "exclusive_range")
          /\ file[f].eFileLock = PENDING_LOCK
          /\ inode[p].eFileLock = PENDING_LOCK
       \/ /\ At(p, f, "downgraded")
          /\ file[f].eFileLock > SHARED_LOCK
          /\ inode[p].eFileLock = file[f].eFileLock
          /\ posix[p]["SHARED"] = "F_RDLCK"
       \/ /\ At(p, f, "unlock_shared")
          /\ file[f].eFileLock > SHARED_LOCK
          /\ inode[p].eFileLock = SHARED_LOCK

\* A descriptor is being closed only in a process without locks.
Closed(p) == Closing(p) => call[p] = Idle /\ Readers(p) = {}

ProcInv(p) == Counted(p) /\ Highest(p) /\ Backed(p) /\ InCall(p) /\ Closed(p)

KernelInv ==
  \A p \in Process : \A q \in Process \ {p} : \A b \in Byte :
    posix[p][b] = "F_WRLCK" => posix[q][b] = "F_UNLCK"

IInv == TypeOK /\ KernelInv /\ \A p \in Process : ProcInv(p)
-----------------------------------------------------------------------------
(***************************************************************************)
(* What the actions have in common.                                        *)
(***************************************************************************)
LEMMA ReadersFinite ==
  ASSUME NEW p \in Process
  PROVE  /\ FilesOf(p) \subseteq File
         /\ IsFiniteSet(Readers(p))
         /\ Cardinality(Readers(p)) \in Nat
         /\ Cardinality(Readers(p)) = 0 <=> Readers(p) = {}
<1>1. Readers(p) \subseteq File BY DEF Readers, FilesOf
<1>2. IsFiniteSet(Readers(p)) BY <1>1, FileAssumption, FS_Subset
<1> QED BY <1>2, FS_CardinalityType, FS_EmptySet DEF FilesOf

\* A handle of p keeps a lock, or stays without one.
LEMMA ReadersSame ==
  ASSUME NEW p \in Process,
         \A f \in FilesOf(p) : file'[f].eFileLock >= SHARED_LOCK
                                  <=> file[f].eFileLock >= SHARED_LOCK
  PROVE  Readers(p)' = Readers(p)
BY DEF Readers, FilesOf

\* A handle of p gets its first lock.
LEMMA ReadersAdded ==
  ASSUME NEW p \in Process, NEW f \in FilesOf(p),
         file[f].eFileLock = NO_LOCK, file'[f].eFileLock = SHARED_LOCK,
         \A g \in FilesOf(p) \ {f} : file'[g].eFileLock = file[g].eFileLock
  PROVE  /\ Readers(p)' = Readers(p) \cup {f}
         /\ Cardinality(Readers(p)') = Cardinality(Readers(p)) + 1
<1>1. Readers(p)' = Readers(p) \cup {f}
  BY DEF Readers, FilesOf, NO_LOCK, SHARED_LOCK
<1>2. f \notin Readers(p) BY DEF Readers, NO_LOCK, SHARED_LOCK
<1> QED BY <1>1, <1>2, ReadersFinite, FS_AddElement

\* A handle of p gives up its last lock.
LEMMA ReadersRemoved ==
  ASSUME NEW p \in Process, NEW f \in FilesOf(p),
         file[f].eFileLock >= SHARED_LOCK, file'[f].eFileLock = NO_LOCK,
         \A g \in FilesOf(p) \ {f} : file'[g].eFileLock = file[g].eFileLock
  PROVE  /\ Readers(p)' = Readers(p) \ {f}
         /\ Cardinality(Readers(p)') = Cardinality(Readers(p)) - 1
         /\ Cardinality(Readers(p)) = 1 => Readers(p) = {f}
         /\ Cardinality(Readers(p)) > 0
<1>1. Readers(p)' = Readers(p) \ {f}
  BY DEF Readers, FilesOf, NO_LOCK, SHARED_LOCK
<1>2. f \in Readers(p) BY DEF Readers
<1>3. Cardinality(Readers(p) \ {f}) = Cardinality(Readers(p)) - 1
  BY <1>2, ReadersFinite, FS_RemoveElement
<1>4. IsFiniteSet(Readers(p) \ {f}) BY ReadersFinite, FS_RemoveElement, <1>2
<1>5. Cardinality(Readers(p)) = 1 => Readers(p) \ {f} = {}
  BY <1>3, <1>4, FS_EmptySet
<1>6. Cardinality(Readers(p)) # 0 BY <1>2, ReadersFinite
<1> QED BY <1>1, <1>2, <1>3, <1>5, <1>6, ReadersFinite

\* One reader is the reader.
LEMMA OnlyReader ==
  ASSUME NEW p \in Process, NEW f \in FilesOf(p), Cardinality(Readers(p)) = 1,
         file[f].eFileLock >= SHARED_LOCK
  PROVE  Readers(p) = {f}
<1>1. f \in Readers(p) BY DEF Readers
<1>2. Cardinality(Readers(p) \ {f}) = 0 /\ IsFiniteSet(Readers(p) \ {f})
  BY <1>1, ReadersFinite, FS_RemoveElement
<1>3. Readers(p) \ {f} = {} BY <1>2, FS_EmptySet
<1> QED BY <1>1, <1>3

\* The kernel grants what does not conflict, and nobody loses a lock by a
\* lock of another process that is given up or weakened.
LEMMA KernelStep ==
  ASSUME TypeOK, KernelInv, NEW p \in Process, NEW bytes \in SUBSET Byte,
         NEW type \in {"F_UNLCK", "F_RDLCK", "F_WRLCK"}, Fcntl(p, bytes, type),
         \/ type = "F_UNLCK"
         \/ \A b \in bytes : Grants(p, b, type)
         \/ type = "F_RDLCK" /\ \A b \in bytes : posix[p][b] # "F_UNLCK"
  PROVE  /\ KernelInv'
         /\ posix' \in [Process -> [Byte -> {"F_UNLCK", "F_RDLCK", "F_WRLCK"}]]
         /\ \A b \in Byte : posix'[p][b] = IF b \in bytes THEN type ELSE posix[p][b]
         /\ \A q \in Process \ {p} : posix'[q] = posix[q]
<1>1. posix' = [posix EXCEPT ![p] = [b \in Byte |-> IF b \in bytes THEN type ELSE posix[p][b]]]
  BY DEF Fcntl
<1>2. posix \in [Process -> [Byte -> {"F_UNLCK", "F_RDLCK", "F_WRLCK"}]]
  BY DEF TypeOK
<1>3. posix' \in [Process -> [Byte -> {"F_UNLCK", "F_RDLCK", "F_WRLCK"}]]
  BY <1>1, <1>2
<1>4. \A b \in Byte : posix'[p][b] = IF b \in bytes THEN type ELSE posix[p][b]
  BY <1>1, <1>2
<1>5. \A q \in Process \ {p} : posix'[q] = posix[q]
  BY <1>1, <1>2
<1>6. KernelInv'
  <2> SUFFICES ASSUME NEW q \in Process, NEW r \in Process \ {q}, NEW b \in Byte,
                      posix'[q][b] = "F_WRLCK"
               PROVE  posix'[r][b] = "F_UNLCK"
    BY DEF KernelInv
  <2>1. CASE q # p /\ r # p BY <2>1, <1>5 DEF KernelInv
  <2>2. CASE q = p BY <2>2, <1>4, <1>5 DEF KernelInv, Grants
  <2>3. CASE r = p
    <3>1. posix[p][b] = "F_UNLCK" BY <2>3, <1>5 DEF KernelInv
    <3> QED BY <3>1, <2>3, <1>4, <1>5 DEF Grants
  <2> QED BY <2>1, <2>2, <2>3
<1> QED BY <1>3, <1>4, <1>5, <1>6

\* A step of p leaves the other processes alone.
LEMMA Frame ==
  ASSUME NEW q \in Process, ProcInv(q), inode'[q] = inode[q],
         posix'[q] = posix[q], call'[q] = call[q],
         \A f \in FilesOf(q) : file'[f] = file[f]
  PROVE  ProcInv(q)'
<1>1. Readers(q)' = Readers(q) BY ReadersSame
<1>2. Counted(q)' BY <1>1 DEF ProcInv, Counted
<1>3. Highest(q)' BY DEF ProcInv, Highest, FilesOf, At
<1>4. Backed(q)' BY DEF ProcInv, Backed
<1>5. InCall(q)' BY DEF ProcInv, InCall, FilesOf, At
<1>6. Closed(q)' BY <1>1 DEF ProcInv, Closed, Closing, FilesOf
<1> QED BY <1>2, <1>3, <1>4, <1>5, <1>6 DEF ProcInv

\* A step of a handle of p changes only what belongs to p.
Local(p) ==
  \A q \in Process \ {p} :
    /\ inode'[q] = inode[q]
    /\ posix'[q] = posix[q]
    /\ call'[q] = call[q]
    /\ \A g \in FilesOf(q) : file'[g] = file[g]

Typed(p) ==
  /\ inode[p].eFileLock \in 0 .. 4
  /\ inode[p].nShared \in Nat /\ inode[p].nLock \in Nat /\ inode[p].pUnused \in Nat
  /\ \A f \in File : file[f].eFileLock \in 0 .. 4

\* Between two calls, and at one system call, nobody is at another one.
LEMMA NotAt ==
  ASSUME NEW p \in Process
  PROVE  /\ call[p] = Idle => \A g, c : c \in Pcs => ~At(p, g, c)
         /\ \A f, pc, g, c : At(p, f, pc) /\ At(p, g, c) => c = pc /\ g = f
<1>1. ASSUME call[p] = Idle, NEW g, NEW c \in Pcs, At(p, g, c) PROVE FALSE
  <2>1. call[p].pc = c BY <1>1 DEF At
  <2>2. call[p].pc = "idle" BY <1>1 DEF Idle
  <2> QED BY <2>1, <2>2 DEF Pcs
<1>2. ASSUME NEW f, NEW pc, NEW g, NEW c, At(p, f, pc), At(p, g, c)
      PROVE  c = pc /\ g = f
  <2>1. call[p].pc = c /\ call[p].pc = pc /\ call[p].file = f /\ call[p].file = g
    BY <1>2 DEF At
  <2> QED BY <2>1
<1> QED BY <1>1, <1>2

LEMMA TypedParts ==
  ASSUME TypeOK, NEW p \in Process
  PROVE  Typed(p)
BY DEF TypeOK, Typed, NO_LOCK, EXCLUSIVE_LOCK

WhereFacts(p, f, pc) ==
  /\ call[p].pc = pc
  /\ call[p] # Idle
  /\ pc \in {"shared_range", "drop_pending", "shared_refused"} =>
       /\ inode[p].eFileLock = NO_LOCK
       /\ posix[p]["PENDING"] = "F_RDLCK"
       /\ pc = "drop_pending" => posix[p]["SHARED"] = "F_RDLCK"
  /\ pc = "exclusive_range" =>
       /\ file[f].eFileLock = PENDING_LOCK
       /\ inode[p].eFileLock = PENDING_LOCK
  /\ pc = "downgraded" =>
       /\ file[f].eFileLock > SHARED_LOCK
       /\ inode[p].eFileLock = file[f].eFileLock
       /\ posix[p]["SHARED"] = "F_RDLCK"
  /\ pc = "unlock_shared" =>
       /\ file[f].eFileLock > SHARED_LOCK
       /\ inode[p].eFileLock = SHARED_LOCK

\* What InCall says of the call at one of its system calls.
LEMMA WhereAt ==
  ASSUME NEW p \in Process, NEW f \in File, NEW pc \in Pcs, TypeOK, InCall(p), At(p, f, pc)
  PROVE  f \in FilesOf(p) /\ WhereFacts(p, f, pc)
<1>1. call[p] = [pc |-> pc, file |-> f] BY DEF At
<1>2. call[p] # Idle /\ call[p].pc = pc /\ call[p].file = f
  BY <1>1 DEF Idle, Pcs
<1>3. PICK g \in FilesOf(p) :
       \/ /\ \E c \in {"shared_range", "drop_pending", "shared_refused"} : At(p, g, c)
          /\ inode[p].eFileLock = NO_LOCK
          /\ posix[p]["PENDING"] = "F_RDLCK"
          /\ call[p].pc = "drop_pending" => posix[p]["SHARED"] = "F_RDLCK"
       \/ /\ At(p, g, "exclusive_range")
          /\ file[g].eFileLock = PENDING_LOCK
          /\ inode[p].eFileLock = PENDING_LOCK
       \/ /\ At(p, g, "downgraded")
          /\ file[g].eFileLock > SHARED_LOCK
          /\ inode[p].eFileLock = file[g].eFileLock
          /\ posix[p]["SHARED"] = "F_RDLCK"
       \/ /\ At(p, g, "unlock_shared")
          /\ file[g].eFileLock > SHARED_LOCK
          /\ inode[p].eFileLock = SHARED_LOCK
  BY <1>2 DEF InCall
<1>4. \A c : At(p, g, c) => c = pc /\ g = f
  BY <1>2 DEF At
<1> QED BY <1>2, <1>3, <1>4 DEF WhereFacts
-----------------------------------------------------------------------------
(***************************************************************************)
(* The actions, one by one.                                                *)
(***************************************************************************)
LEMMA Step_unixOpen ==
  ASSUME IInv, SerialClose, NEW p \in Process, NEW f \in File,
         unixOpen(p, f)
  PROVE  TypeOK' /\ KernelInv' /\ ProcInv(p)' /\ Local(p)
<1> USE DEF NO_LOCK, SHARED_LOCK, RESERVED_LOCK, PENDING_LOCK, EXCLUSIVE_LOCK
<1>1. /\ TypeOK /\ KernelInv /\ Counted(p) /\ Highest(p) /\ Backed(p) /\ InCall(p)
      /\ Closed(p) /\ Typed(p)
  BY TypedParts DEF IInv, ProcInv
<1>2. /\ f \in FilesOf(p)
      /\ call[p] = Idle
      /\ file[f].state = "closed"
  <2>1. f \in FilesOf(p) /\ call[p] = Idle
    BY DEF unixOpen, CanCall, FilesOf
  <2>2. \A g : ~At(p, g, "unlock_shared") BY <2>1, NotAt DEF Pcs
  <2> QED
    BY <1>1, <2>1, <2>2 DEF unixOpen, CanCall, NotPrecluded, Counted, Highest,
     Readers, Typed
<1>3. posix' = posix /\ KernelInv'
  BY <1>1 DEF unixOpen, KernelInv
<1>4. /\ file'[f].eFileLock = file[f].eFileLock
      /\ file'[f].state = "open"
      /\ \A g \in File \ {f} : file'[g] = file[g]
      /\ inode'[p].eFileLock = inode[p].eFileLock
      /\ inode'[p].nShared = inode[p].nShared
      /\ inode'[p].nLock = inode[p].nLock
      /\ inode'[p].pUnused = (IF inode[p].pUnused > 0 THEN inode[p].pUnused - 1 ELSE 0)
      /\ \A q \in Process \ {p} : inode'[q] = inode[q]
      /\ call'[p] = call[p]
      /\ \A q \in Process \ {p} : call'[q] = call[q]
  BY <1>1, <1>2 DEF unixOpen, Goto, Return, SetFile, SetInode, GrantExclusive,
     ReleaseShared, LastShared, TypeOK
<1>5. Readers(p)' = Readers(p)
  BY <1>1, <1>2, <1>4, ReadersSame DEF FilesOf, Typed
<1>6. TypeOK'
  <2>1. file' \in [File -> [state : {"closed", "open", "closing", "close_fd"},
                          eFileLock : NO_LOCK .. EXCLUSIVE_LOCK]]
    BY <1>1, <1>2 DEF unixOpen, SetFile, GrantExclusive, ReleaseShared, TypeOK
  <2>2. inode' \in [Process -> [eFileLock : NO_LOCK .. EXCLUSIVE_LOCK,
                           nShared : Nat, nLock : Nat, pUnused : Nat]]
    <3> DEFINE I == [eFileLock : NO_LOCK .. EXCLUSIVE_LOCK,
                     nShared : Nat, nLock : Nat, pUnused : Nat]
    <3>1. inode \in [Process -> I] BY <1>1 DEF TypeOK
    <3>2. [inode[p] EXCEPT !.pUnused = IF @ > 0 THEN @ - 1 ELSE 0] \in I BY <3>1
    <3>3. inode' = [inode EXCEPT ![p] = [inode[p] EXCEPT !.pUnused = IF @ > 0 THEN @ - 1 ELSE 0]]
      BY DEF unixOpen, SetInode
    <3> HIDE DEF I
    <3>4. inode' \in [Process -> I] BY <3>1, <3>2, <3>3
    <3> QED BY <3>4 DEF I
  <2>3. posix' \in [Process -> [Byte -> {"F_UNLCK", "F_RDLCK", "F_WRLCK"}]]
    BY <1>1, <1>3 DEF TypeOK
  <2>4. call' \in [Process -> {Idle} \cup [pc : Pcs, file : File]]
    BY <1>1, <1>2 DEF unixOpen, Goto, Return, TypeOK, Pcs
  <2> QED BY <2>1, <2>2, <2>3, <2>4 DEF TypeOK
<1>7. Counted(p)'
  BY <1>1, <1>2, <1>4, <1>5, ReadersFinite DEF Counted, Typed
<1>8. Highest(p)'
  <2>1. \A g \in FilesOf(p) : g \in File BY DEF FilesOf
  <2>2. \A g : ~At(p, g, "unlock_shared") BY <1>2, NotAt DEF Pcs
  <2>3. inode'[p].eFileLock > SHARED_LOCK =>
         \E g \in FilesOf(p) : file'[g].eFileLock = inode'[p].eFileLock
    BY <1>1, <1>2, <1>4, <2>1, <2>2 DEF Highest, Typed
  <2>4. ASSUME NEW g \in FilesOf(p), file'[g].eFileLock > SHARED_LOCK
        PROVE  /\ inode'[p].eFileLock = file'[g].eFileLock \/ At(p, g, "unlock_shared")'
               /\ \A h \in FilesOf(p) \ {g} : file'[h].eFileLock <= SHARED_LOCK
    <3>1. CASE g = f
      BY <1>1, <1>2, <1>4, <2>1, <2>2, <2>4, <3>1 DEF Highest, Typed
    <3>2. CASE g # f
      BY <1>1, <1>2, <1>4, <2>1, <2>2, <2>4, <3>2 DEF Highest, Typed
    <3> QED BY <3>1, <3>2
  <2>5. ASSUME NEW g \in FilesOf(p), file'[g].eFileLock = EXCLUSIVE_LOCK
        PROVE  \A h \in FilesOf(p) \ {g} : file'[h].eFileLock = NO_LOCK
    <3>1. CASE g = f
      BY <1>1, <1>2, <1>4, <2>1, <2>2, <2>5, <3>1 DEF Highest, Typed
    <3>2. CASE g # f
      BY <1>1, <1>2, <1>4, <2>1, <2>2, <2>5, <3>2 DEF Highest, Typed
    <3> QED BY <3>1, <3>2
  <2> QED BY <2>3, <2>4, <2>5 DEF Highest, FilesOf
<1>9. Backed(p)'
  BY <1>1, <1>2, <1>3, <1>4 DEF Backed, TypeOK, Byte, At, Idle, LastShared
<1>10. InCall(p)'
  BY <1>1, <1>2, <1>3, <1>4 DEF InCall, TypeOK, Byte, At
<1>11. Closed(p)'
  BY <1>1, <1>2, <1>4, <1>5, ReadersFinite DEF Closed, Closing, Counted,
     FilesOf, Readers, TypeOK, At, Idle
<1>12. Local(p)
  BY <1>2, <1>3, <1>4 DEF Local, FilesOf
<1> QED BY <1>3, <1>6, <1>7, <1>8, <1>9, <1>10, <1>11, <1>12 DEF ProcInv

LEMMA Step_lock_shared_again ==
  ASSUME IInv, SerialClose, NEW p \in Process, NEW f \in File,
         lock_shared_again(p, f)
  PROVE  TypeOK' /\ KernelInv' /\ ProcInv(p)' /\ Local(p)
<1> USE DEF NO_LOCK, SHARED_LOCK, RESERVED_LOCK, PENDING_LOCK, EXCLUSIVE_LOCK
<1>1. /\ TypeOK /\ KernelInv /\ Counted(p) /\ Highest(p) /\ Backed(p) /\ InCall(p)
      /\ Closed(p) /\ Typed(p)
  BY TypedParts DEF IInv, ProcInv
<1>2. /\ f \in FilesOf(p)
      /\ call[p] = Idle
      /\ file[f].state = "open"
      /\ file[f].eFileLock = NO_LOCK
      /\ inode[p].eFileLock \in {SHARED_LOCK, RESERVED_LOCK}
  <2>1. f \in FilesOf(p) /\ call[p] = Idle
    BY DEF lock_shared_again, CanCall, FilesOf
  <2>2. \A g : ~At(p, g, "unlock_shared") BY <2>1, NotAt DEF Pcs
  <2> QED
    BY <1>1, <2>1, <2>2 DEF lock_shared_again, CanCall, NotPrecluded, Counted,
     Highest, Readers, Typed
<1>3. posix' = posix /\ KernelInv'
  BY <1>1 DEF lock_shared_again, KernelInv
<1>4. /\ file'[f].eFileLock = SHARED_LOCK
      /\ file'[f].state = file[f].state
      /\ \A g \in File \ {f} : file'[g] = file[g]
      /\ inode'[p].eFileLock = inode[p].eFileLock
      /\ inode'[p].nShared = inode[p].nShared + 1
      /\ inode'[p].nLock = inode[p].nLock + 1
      /\ inode'[p].pUnused = inode[p].pUnused
      /\ \A q \in Process \ {p} : inode'[q] = inode[q]
      /\ call'[p] = call[p]
      /\ \A q \in Process \ {p} : call'[q] = call[q]
  BY <1>1, <1>2 DEF lock_shared_again, Goto, Return, SetFile, SetInode,
     GrantExclusive, ReleaseShared, LastShared, TypeOK
<1>5. /\ Readers(p)' = Readers(p) \cup {f}
      /\ Cardinality(Readers(p)') = Cardinality(Readers(p)) + 1
  BY <1>2, <1>4, ReadersAdded DEF FilesOf
<1>6. TypeOK'
  <2>1. file' \in [File -> [state : {"closed", "open", "closing", "close_fd"},
                          eFileLock : NO_LOCK .. EXCLUSIVE_LOCK]]
    BY <1>1, <1>2 DEF lock_shared_again, SetFile, GrantExclusive, ReleaseShared,
     TypeOK
  <2>2. inode' \in [Process -> [eFileLock : NO_LOCK .. EXCLUSIVE_LOCK,
                           nShared : Nat, nLock : Nat, pUnused : Nat]]
    BY <1>1, <1>2 DEF lock_shared_again, SetInode, GrantExclusive, ReleaseShared,
     LastShared, TypeOK
  <2>3. posix' \in [Process -> [Byte -> {"F_UNLCK", "F_RDLCK", "F_WRLCK"}]]
    BY <1>1, <1>3 DEF TypeOK
  <2>4. call' \in [Process -> {Idle} \cup [pc : Pcs, file : File]]
    BY <1>1, <1>2 DEF lock_shared_again, Goto, Return, TypeOK, Pcs
  <2> QED BY <2>1, <2>2, <2>3, <2>4 DEF TypeOK
<1>7. Counted(p)'
  BY <1>1, <1>2, <1>4, <1>5, ReadersFinite DEF Counted, Typed
<1>8. Highest(p)'
  <2>1. \A g \in FilesOf(p) : g \in File BY DEF FilesOf
  <2>2. \A g : ~At(p, g, "unlock_shared") BY <1>2, NotAt DEF Pcs
  <2>3. inode'[p].eFileLock > SHARED_LOCK =>
         \E g \in FilesOf(p) : file'[g].eFileLock = inode'[p].eFileLock
    BY <1>1, <1>2, <1>4, <2>1, <2>2 DEF Highest, Typed, Readers, Counted
  <2>4. ASSUME NEW g \in FilesOf(p), file'[g].eFileLock > SHARED_LOCK
        PROVE  /\ inode'[p].eFileLock = file'[g].eFileLock \/ At(p, g, "unlock_shared")'
               /\ \A h \in FilesOf(p) \ {g} : file'[h].eFileLock <= SHARED_LOCK
    <3>1. CASE g = f
      BY <1>1, <1>2, <1>4, <2>1, <2>2, <2>4, <3>1 DEF Highest, Typed, Readers,
     Counted
    <3>2. CASE g # f
      BY <1>1, <1>2, <1>4, <2>1, <2>2, <2>4, <3>2 DEF Highest, Typed, Readers,
     Counted
    <3> QED BY <3>1, <3>2
  <2>5. ASSUME NEW g \in FilesOf(p), file'[g].eFileLock = EXCLUSIVE_LOCK
        PROVE  \A h \in FilesOf(p) \ {g} : file'[h].eFileLock = NO_LOCK
    <3>1. CASE g = f
      BY <1>1, <1>2, <1>4, <2>1, <2>2, <2>5, <3>1 DEF Highest, Typed, Readers,
     Counted
    <3>2. CASE g # f
      BY <1>1, <1>2, <1>4, <2>1, <2>2, <2>5, <3>2 DEF Highest, Typed, Readers,
     Counted
    <3> QED BY <3>1, <3>2
  <2> QED BY <2>3, <2>4, <2>5 DEF Highest, FilesOf
<1>9. Backed(p)'
  BY <1>1, <1>2, <1>3, <1>4 DEF Backed, TypeOK, Byte, At, Idle, LastShared
<1>10. InCall(p)'
  BY <1>1, <1>2, <1>3, <1>4 DEF InCall, TypeOK, Byte, At
<1>11. Closed(p)'
  BY <1>1, <1>2, <1>4, <1>5, ReadersFinite DEF Closed, Closing, Counted,
     FilesOf, Readers, TypeOK, At, Idle
<1>12. Local(p)
  BY <1>2, <1>3, <1>4 DEF Local, FilesOf
<1> QED BY <1>3, <1>6, <1>7, <1>8, <1>9, <1>10, <1>11, <1>12 DEF ProcInv

LEMMA Step_lock_shared ==
  ASSUME IInv, SerialClose, NEW p \in Process, NEW f \in File,
         lock_shared(p, f)
  PROVE  TypeOK' /\ KernelInv' /\ ProcInv(p)' /\ Local(p)
<1> USE DEF NO_LOCK, SHARED_LOCK, RESERVED_LOCK, PENDING_LOCK, EXCLUSIVE_LOCK
<1>1. /\ TypeOK /\ KernelInv /\ Counted(p) /\ Highest(p) /\ Backed(p) /\ InCall(p)
      /\ Closed(p) /\ Typed(p)
  BY TypedParts DEF IInv, ProcInv
<1>2. /\ f \in FilesOf(p)
      /\ call[p] = Idle
      /\ ~Closing(p)
      /\ file[f].state = "open"
      /\ file[f].eFileLock = NO_LOCK
      /\ inode[p].eFileLock = NO_LOCK
  <2>1. f \in FilesOf(p) /\ call[p] = Idle
    BY DEF lock_shared, CanCall, FilesOf
  <2>2. \A g : ~At(p, g, "unlock_shared") BY <2>1, NotAt DEF Pcs
  <2> QED
    BY <1>1, <2>1, <2>2 DEF lock_shared, CanCall, NotPrecluded, Counted, Highest,
     Readers, Typed
<1>3. /\ KernelInv'
      /\ posix' \in [Process -> [Byte -> {"F_UNLCK", "F_RDLCK", "F_WRLCK"}]]
      /\ \A b \in Byte : posix'[p][b] = IF b \in {"PENDING"} THEN "F_RDLCK" ELSE posix[p][b]
      /\ \A q \in Process \ {p} : posix'[q] = posix[q]
  <2>1. Fcntl(p, {"PENDING"}, "F_RDLCK")
    BY <1>2 DEF lock_shared
  <2>2. \A b \in {"PENDING"} : Grants(p, b, "F_RDLCK")
    BY <1>2 DEF lock_shared
  <2>3. {"PENDING"} \in SUBSET Byte BY DEF Byte
  <2> QED BY <1>1, <2>1, <2>2, <2>3, KernelStep
<1>4. /\ file'[f].eFileLock = NO_LOCK
      /\ file'[f].state = file[f].state
      /\ \A g \in File \ {f} : file'[g] = file[g]
      /\ inode' = inode
      /\ call'[p] = [pc |-> "shared_range", file |-> f]
      /\ \A q \in Process \ {p} : call'[q] = call[q]
  BY <1>1, <1>2 DEF lock_shared, Goto, Return, SetFile, SetInode,
     GrantExclusive, ReleaseShared, LastShared, TypeOK
<1>5. Readers(p)' = Readers(p)
  BY <1>1, <1>2, <1>4, ReadersSame DEF FilesOf, Typed
<1>6. TypeOK'
  <2>1. file' \in [File -> [state : {"closed", "open", "closing", "close_fd"},
                          eFileLock : NO_LOCK .. EXCLUSIVE_LOCK]]
    BY <1>1, <1>2 DEF lock_shared, SetFile, GrantExclusive, ReleaseShared, TypeOK
  <2>2. inode' \in [Process -> [eFileLock : NO_LOCK .. EXCLUSIVE_LOCK,
                           nShared : Nat, nLock : Nat, pUnused : Nat]]
    BY <1>1, <1>2 DEF lock_shared, SetInode, GrantExclusive, ReleaseShared,
     LastShared, TypeOK
  <2>3. posix' \in [Process -> [Byte -> {"F_UNLCK", "F_RDLCK", "F_WRLCK"}]]
    BY <1>1, <1>3 DEF TypeOK
  <2>4. call' \in [Process -> {Idle} \cup [pc : Pcs, file : File]]
    BY <1>1, <1>2 DEF lock_shared, Goto, Return, TypeOK, Pcs
  <2> QED BY <2>1, <2>2, <2>3, <2>4 DEF TypeOK
<1>7. Counted(p)'
  BY <1>1, <1>2, <1>4, <1>5, ReadersFinite DEF Counted, Typed
<1>8. Highest(p)'
  <2>1. \A g \in FilesOf(p) : g \in File BY DEF FilesOf
  <2>2. \A g : ~At(p, g, "unlock_shared") BY <1>2, NotAt DEF Pcs
  <2>3. inode'[p].eFileLock > SHARED_LOCK =>
         \E g \in FilesOf(p) : file'[g].eFileLock = inode'[p].eFileLock
    BY <1>1, <1>2, <1>4, <2>1, <2>2 DEF Highest, Typed
  <2>4. ASSUME NEW g \in FilesOf(p), file'[g].eFileLock > SHARED_LOCK
        PROVE  /\ inode'[p].eFileLock = file'[g].eFileLock \/ At(p, g, "unlock_shared")'
               /\ \A h \in FilesOf(p) \ {g} : file'[h].eFileLock <= SHARED_LOCK
    <3>1. CASE g = f
      BY <1>1, <1>2, <1>4, <2>1, <2>2, <2>4, <3>1 DEF Highest, Typed
    <3>2. CASE g # f
      BY <1>1, <1>2, <1>4, <2>1, <2>2, <2>4, <3>2 DEF Highest, Typed
    <3> QED BY <3>1, <3>2
  <2>5. ASSUME NEW g \in FilesOf(p), file'[g].eFileLock = EXCLUSIVE_LOCK
        PROVE  \A h \in FilesOf(p) \ {g} : file'[h].eFileLock = NO_LOCK
    <3>1. CASE g = f
      BY <1>1, <1>2, <1>4, <2>1, <2>2, <2>5, <3>1 DEF Highest, Typed
    <3>2. CASE g # f
      BY <1>1, <1>2, <1>4, <2>1, <2>2, <2>5, <3>2 DEF Highest, Typed
    <3> QED BY <3>1, <3>2
  <2> QED BY <2>3, <2>4, <2>5 DEF Highest, FilesOf
<1>9. Backed(p)'
  BY <1>1, <1>2, <1>3, <1>4 DEF Backed, TypeOK, Byte, At, Idle, LastShared
<1>10. InCall(p)'
  BY <1>1, <1>2, <1>3, <1>4 DEF InCall, TypeOK, Byte, At
<1>11. Closed(p)'
  BY <1>1, <1>2, <1>4, <1>5, ReadersFinite DEF Closed, Closing, Counted,
     FilesOf, Readers, TypeOK, At, Idle
<1>12. Local(p)
  BY <1>2, <1>3, <1>4 DEF Local, FilesOf
<1> QED BY <1>3, <1>6, <1>7, <1>8, <1>9, <1>10, <1>11, <1>12 DEF ProcInv

LEMMA Step_shared_granted ==
  ASSUME IInv, SerialClose, NEW p \in Process, NEW f \in File,
         At(p, f, "shared_range"),
         Grants(p, "SHARED", "F_RDLCK"),
         Fcntl(p, {"SHARED"}, "F_RDLCK"),
         Goto(p, f, "drop_pending"),
         UNCHANGED <<file, inode>>
  PROVE  TypeOK' /\ KernelInv' /\ ProcInv(p)' /\ Local(p)
<1> USE DEF NO_LOCK, SHARED_LOCK, RESERVED_LOCK, PENDING_LOCK, EXCLUSIVE_LOCK
<1>1. /\ TypeOK /\ KernelInv /\ Counted(p) /\ Highest(p) /\ Backed(p) /\ InCall(p)
      /\ Closed(p) /\ Typed(p)
  BY TypedParts DEF IInv, ProcInv
<1>2. /\ f \in FilesOf(p)
      /\ At(p, f, "shared_range")
      /\ inode[p].eFileLock = NO_LOCK
      /\ posix[p]["PENDING"] = "F_RDLCK"
  <2>1. At(p, f, "shared_range") /\ "shared_range" \in Pcs BY DEF Pcs
  <2>2. f \in FilesOf(p) /\ WhereFacts(p, f, "shared_range") BY <1>1, <2>1, WhereAt
  <2> QED BY <2>1, <2>2 DEF WhereFacts
<1>3. /\ KernelInv'
      /\ posix' \in [Process -> [Byte -> {"F_UNLCK", "F_RDLCK", "F_WRLCK"}]]
      /\ \A b \in Byte : posix'[p][b] = IF b \in {"SHARED"} THEN "F_RDLCK" ELSE posix[p][b]
      /\ \A q \in Process \ {p} : posix'[q] = posix[q]
  <2>1. Fcntl(p, {"SHARED"}, "F_RDLCK")
    OBVIOUS
  <2>2. \A b \in {"SHARED"} : Grants(p, b, "F_RDLCK")
    BY <1>2
  <2>3. {"SHARED"} \in SUBSET Byte BY DEF Byte
  <2> QED BY <1>1, <2>1, <2>2, <2>3, KernelStep
<1>4. /\ file'[f].eFileLock = file[f].eFileLock
      /\ file'[f].state = file[f].state
      /\ \A g \in File \ {f} : file'[g] = file[g]
      /\ inode' = inode
      /\ call'[p] = [pc |-> "drop_pending", file |-> f]
      /\ \A q \in Process \ {p} : call'[q] = call[q]
  BY <1>1, <1>2 DEF Goto, Return, SetFile, SetInode, GrantExclusive,
     ReleaseShared, LastShared, TypeOK
<1>5. Readers(p)' = Readers(p)
  BY <1>1, <1>2, <1>4, ReadersSame DEF FilesOf, Typed
<1>6. TypeOK'
  <2>1. file' \in [File -> [state : {"closed", "open", "closing", "close_fd"},
                          eFileLock : NO_LOCK .. EXCLUSIVE_LOCK]]
    BY <1>1, <1>2 DEF SetFile, GrantExclusive, ReleaseShared, TypeOK
  <2>2. inode' \in [Process -> [eFileLock : NO_LOCK .. EXCLUSIVE_LOCK,
                           nShared : Nat, nLock : Nat, pUnused : Nat]]
    BY <1>1, <1>2 DEF SetInode, GrantExclusive, ReleaseShared, LastShared, TypeOK
  <2>3. posix' \in [Process -> [Byte -> {"F_UNLCK", "F_RDLCK", "F_WRLCK"}]]
    BY <1>1, <1>3 DEF TypeOK
  <2>4. call' \in [Process -> {Idle} \cup [pc : Pcs, file : File]]
    BY <1>1, <1>2 DEF Goto, Return, TypeOK, Pcs
  <2> QED BY <2>1, <2>2, <2>3, <2>4 DEF TypeOK
<1>7. Counted(p)'
  BY <1>1, <1>2, <1>4, <1>5, ReadersFinite DEF Counted, Typed
<1>8. Highest(p)'
  <2>1. \A g \in FilesOf(p) : g \in File BY DEF FilesOf
  <2>2. \A g : ~At(p, g, "unlock_shared") BY <1>2, NotAt DEF Pcs
  <2>3. inode'[p].eFileLock > SHARED_LOCK =>
         \E g \in FilesOf(p) : file'[g].eFileLock = inode'[p].eFileLock
    BY <1>1, <1>2, <1>4, <2>1, <2>2 DEF Highest, Typed
  <2>4. ASSUME NEW g \in FilesOf(p), file'[g].eFileLock > SHARED_LOCK
        PROVE  /\ inode'[p].eFileLock = file'[g].eFileLock \/ At(p, g, "unlock_shared")'
               /\ \A h \in FilesOf(p) \ {g} : file'[h].eFileLock <= SHARED_LOCK
    <3>1. CASE g = f
      BY <1>1, <1>2, <1>4, <2>1, <2>2, <2>4, <3>1 DEF Highest, Typed
    <3>2. CASE g # f
      BY <1>1, <1>2, <1>4, <2>1, <2>2, <2>4, <3>2 DEF Highest, Typed
    <3> QED BY <3>1, <3>2
  <2>5. ASSUME NEW g \in FilesOf(p), file'[g].eFileLock = EXCLUSIVE_LOCK
        PROVE  \A h \in FilesOf(p) \ {g} : file'[h].eFileLock = NO_LOCK
    <3>1. CASE g = f
      BY <1>1, <1>2, <1>4, <2>1, <2>2, <2>5, <3>1 DEF Highest, Typed
    <3>2. CASE g # f
      BY <1>1, <1>2, <1>4, <2>1, <2>2, <2>5, <3>2 DEF Highest, Typed
    <3> QED BY <3>1, <3>2
  <2> QED BY <2>3, <2>4, <2>5 DEF Highest, FilesOf
<1>9. Backed(p)'
  BY <1>1, <1>2, <1>3, <1>4 DEF Backed, TypeOK, Byte, At, Idle, LastShared
<1>10. InCall(p)'
  BY <1>1, <1>2, <1>3, <1>4 DEF InCall, TypeOK, Byte, At
<1>11. Closed(p)'
  BY <1>1, <1>2, <1>4, <1>5, ReadersFinite DEF Closed, Closing, Counted,
     FilesOf, Readers, TypeOK, At, Idle
<1>12. Local(p)
  BY <1>2, <1>3, <1>4 DEF Local, FilesOf
<1> QED BY <1>3, <1>6, <1>7, <1>8, <1>9, <1>10, <1>11, <1>12 DEF ProcInv

LEMMA Step_shared_failed ==
  ASSUME IInv, SerialClose, NEW p \in Process, NEW f \in File,
         At(p, f, "shared_range"),
         Goto(p, f, "shared_refused"),
         UNCHANGED <<file, inode, posix>>
  PROVE  TypeOK' /\ KernelInv' /\ ProcInv(p)' /\ Local(p)
<1> USE DEF NO_LOCK, SHARED_LOCK, RESERVED_LOCK, PENDING_LOCK, EXCLUSIVE_LOCK
<1>1. /\ TypeOK /\ KernelInv /\ Counted(p) /\ Highest(p) /\ Backed(p) /\ InCall(p)
      /\ Closed(p) /\ Typed(p)
  BY TypedParts DEF IInv, ProcInv
<1>2. /\ f \in FilesOf(p)
      /\ At(p, f, "shared_range")
      /\ inode[p].eFileLock = NO_LOCK
      /\ posix[p]["PENDING"] = "F_RDLCK"
      /\ posix[p]["SHARED"] = "F_UNLCK"
  <2>1. At(p, f, "shared_range") /\ "shared_range" \in Pcs BY DEF Pcs
  <2>2. f \in FilesOf(p) /\ WhereFacts(p, f, "shared_range") BY <1>1, <2>1, WhereAt
  <2>3. posix[p]["SHARED"] = "F_UNLCK"
    BY <1>1, <2>1, <2>2 DEF WhereFacts, Backed
  <2> QED BY <2>1, <2>2, <2>3 DEF WhereFacts
<1>3. posix' = posix /\ KernelInv'
  BY <1>1 DEF KernelInv
<1>4. /\ file'[f].eFileLock = file[f].eFileLock
      /\ file'[f].state = file[f].state
      /\ \A g \in File \ {f} : file'[g] = file[g]
      /\ inode' = inode
      /\ call'[p] = [pc |-> "shared_refused", file |-> f]
      /\ \A q \in Process \ {p} : call'[q] = call[q]
  BY <1>1, <1>2 DEF Goto, Return, SetFile, SetInode, GrantExclusive,
     ReleaseShared, LastShared, TypeOK
<1>5. Readers(p)' = Readers(p)
  BY <1>1, <1>2, <1>4, ReadersSame DEF FilesOf, Typed
<1>6. TypeOK'
  <2>1. file' \in [File -> [state : {"closed", "open", "closing", "close_fd"},
                          eFileLock : NO_LOCK .. EXCLUSIVE_LOCK]]
    BY <1>1, <1>2 DEF SetFile, GrantExclusive, ReleaseShared, TypeOK
  <2>2. inode' \in [Process -> [eFileLock : NO_LOCK .. EXCLUSIVE_LOCK,
                           nShared : Nat, nLock : Nat, pUnused : Nat]]
    BY <1>1, <1>2 DEF SetInode, GrantExclusive, ReleaseShared, LastShared, TypeOK
  <2>3. posix' \in [Process -> [Byte -> {"F_UNLCK", "F_RDLCK", "F_WRLCK"}]]
    BY <1>1, <1>3 DEF TypeOK
  <2>4. call' \in [Process -> {Idle} \cup [pc : Pcs, file : File]]
    BY <1>1, <1>2 DEF Goto, Return, TypeOK, Pcs
  <2> QED BY <2>1, <2>2, <2>3, <2>4 DEF TypeOK
<1>7. Counted(p)'
  BY <1>1, <1>2, <1>4, <1>5, ReadersFinite DEF Counted, Typed
<1>8. Highest(p)'
  <2>1. \A g \in FilesOf(p) : g \in File BY DEF FilesOf
  <2>2. \A g : ~At(p, g, "unlock_shared") BY <1>2, NotAt DEF Pcs
  <2>3. inode'[p].eFileLock > SHARED_LOCK =>
         \E g \in FilesOf(p) : file'[g].eFileLock = inode'[p].eFileLock
    BY <1>1, <1>2, <1>4, <2>1, <2>2 DEF Highest, Typed
  <2>4. ASSUME NEW g \in FilesOf(p), file'[g].eFileLock > SHARED_LOCK
        PROVE  /\ inode'[p].eFileLock = file'[g].eFileLock \/ At(p, g, "unlock_shared")'
               /\ \A h \in FilesOf(p) \ {g} : file'[h].eFileLock <= SHARED_LOCK
    <3>1. CASE g = f
      BY <1>1, <1>2, <1>4, <2>1, <2>2, <2>4, <3>1 DEF Highest, Typed
    <3>2. CASE g # f
      BY <1>1, <1>2, <1>4, <2>1, <2>2, <2>4, <3>2 DEF Highest, Typed
    <3> QED BY <3>1, <3>2
  <2>5. ASSUME NEW g \in FilesOf(p), file'[g].eFileLock = EXCLUSIVE_LOCK
        PROVE  \A h \in FilesOf(p) \ {g} : file'[h].eFileLock = NO_LOCK
    <3>1. CASE g = f
      BY <1>1, <1>2, <1>4, <2>1, <2>2, <2>5, <3>1 DEF Highest, Typed
    <3>2. CASE g # f
      BY <1>1, <1>2, <1>4, <2>1, <2>2, <2>5, <3>2 DEF Highest, Typed
    <3> QED BY <3>1, <3>2
  <2> QED BY <2>3, <2>4, <2>5 DEF Highest, FilesOf
<1>9. Backed(p)'
  BY <1>1, <1>2, <1>3, <1>4 DEF Backed, TypeOK, Byte, At, Idle, LastShared
<1>10. InCall(p)'
  BY <1>1, <1>2, <1>3, <1>4 DEF InCall, TypeOK, Byte, At
<1>11. Closed(p)'
  BY <1>1, <1>2, <1>4, <1>5, ReadersFinite DEF Closed, Closing, Counted,
     FilesOf, Readers, TypeOK, At, Idle
<1>12. Local(p)
  BY <1>2, <1>3, <1>4 DEF Local, FilesOf
<1> QED BY <1>3, <1>6, <1>7, <1>8, <1>9, <1>10, <1>11, <1>12 DEF ProcInv

LEMMA Step_drop_pending ==
  ASSUME IInv, SerialClose, NEW p \in Process, NEW f \in File,
         drop_pending(p, f)
  PROVE  TypeOK' /\ KernelInv' /\ ProcInv(p)' /\ Local(p)
<1> USE DEF NO_LOCK, SHARED_LOCK, RESERVED_LOCK, PENDING_LOCK, EXCLUSIVE_LOCK
<1>1. /\ TypeOK /\ KernelInv /\ Counted(p) /\ Highest(p) /\ Backed(p) /\ InCall(p)
      /\ Closed(p) /\ Typed(p)
  BY TypedParts DEF IInv, ProcInv
<1>2. /\ f \in FilesOf(p)
      /\ At(p, f, "drop_pending")
      /\ inode[p].eFileLock = NO_LOCK
      /\ file[f].eFileLock = NO_LOCK
      /\ posix[p]["SHARED"] = "F_RDLCK"
  <2>1. At(p, f, "drop_pending") /\ "drop_pending" \in Pcs BY DEF drop_pending, Pcs
  <2>2. f \in FilesOf(p) /\ WhereFacts(p, f, "drop_pending") BY <1>1, <2>1, WhereAt
  <2>3. file[f].eFileLock = NO_LOCK BY <1>1, <2>2 DEF WhereFacts, Counted, Readers, Typed
  <2> QED BY <2>1, <2>2, <2>3 DEF WhereFacts
<1>3. /\ KernelInv'
      /\ posix' \in [Process -> [Byte -> {"F_UNLCK", "F_RDLCK", "F_WRLCK"}]]
      /\ \A b \in Byte : posix'[p][b] = IF b \in {"PENDING"} THEN "F_UNLCK" ELSE posix[p][b]
      /\ \A q \in Process \ {p} : posix'[q] = posix[q]
  <2>1. Fcntl(p, {"PENDING"}, "F_UNLCK")
    BY <1>2 DEF drop_pending
  <2>3. {"PENDING"} \in SUBSET Byte BY DEF Byte
  <2> QED BY <1>1, <2>1, <2>3, KernelStep
<1>4. /\ file'[f].eFileLock = SHARED_LOCK
      /\ file'[f].state = file[f].state
      /\ \A g \in File \ {f} : file'[g] = file[g]
      /\ inode'[p].eFileLock = SHARED_LOCK
      /\ inode'[p].nShared = 1
      /\ inode'[p].nLock = inode[p].nLock + 1
      /\ inode'[p].pUnused = inode[p].pUnused
      /\ \A q \in Process \ {p} : inode'[q] = inode[q]
      /\ call'[p] = Idle
      /\ \A q \in Process \ {p} : call'[q] = call[q]
  BY <1>1, <1>2 DEF drop_pending, Goto, Return, SetFile, SetInode,
     GrantExclusive, ReleaseShared, LastShared, TypeOK
<1>5. /\ Readers(p)' = Readers(p) \cup {f}
      /\ Cardinality(Readers(p)') = Cardinality(Readers(p)) + 1
  BY <1>2, <1>4, ReadersAdded DEF FilesOf
<1>6. TypeOK'
  <2>1. file' \in [File -> [state : {"closed", "open", "closing", "close_fd"},
                          eFileLock : NO_LOCK .. EXCLUSIVE_LOCK]]
    BY <1>1, <1>2 DEF drop_pending, SetFile, GrantExclusive, ReleaseShared,
     TypeOK
  <2>2. inode' \in [Process -> [eFileLock : NO_LOCK .. EXCLUSIVE_LOCK,
                           nShared : Nat, nLock : Nat, pUnused : Nat]]
    <3> DEFINE I == [eFileLock : NO_LOCK .. EXCLUSIVE_LOCK,
                     nShared : Nat, nLock : Nat, pUnused : Nat]
    <3>1. inode \in [Process -> I] BY <1>1 DEF TypeOK
    <3>2. [eFileLock |-> SHARED_LOCK, nShared |-> 1,
          nLock |-> inode[p].nLock + 1, pUnused |-> inode[p].pUnused] \in I BY <3>1
    <3>3. inode' = [inode EXCEPT ![p] = [eFileLock |-> SHARED_LOCK, nShared |-> 1,
          nLock |-> inode[p].nLock + 1, pUnused |-> inode[p].pUnused]]
      BY DEF drop_pending, SetInode
    <3> HIDE DEF I
    <3>4. inode' \in [Process -> I] BY <3>1, <3>2, <3>3
    <3> QED BY <3>4 DEF I
  <2>3. posix' \in [Process -> [Byte -> {"F_UNLCK", "F_RDLCK", "F_WRLCK"}]]
    BY <1>1, <1>3 DEF TypeOK
  <2>4. call' \in [Process -> {Idle} \cup [pc : Pcs, file : File]]
    BY <1>1, <1>2 DEF drop_pending, Goto, Return, TypeOK, Pcs
  <2> QED BY <2>1, <2>2, <2>3, <2>4 DEF TypeOK
<1>7. Counted(p)'
  BY <1>1, <1>2, <1>4, <1>5, ReadersFinite DEF Counted, Typed
<1>8. Highest(p)'
  <2>1. \A g \in FilesOf(p) : g \in File BY DEF FilesOf
  <2>2. \A g : ~At(p, g, "unlock_shared") BY <1>2, NotAt DEF Pcs
  <2>3. inode'[p].eFileLock > SHARED_LOCK =>
         \E g \in FilesOf(p) : file'[g].eFileLock = inode'[p].eFileLock
    BY <1>1, <1>2, <1>4, <2>1, <2>2 DEF Highest, Typed, Readers, Counted
  <2>4. ASSUME NEW g \in FilesOf(p), file'[g].eFileLock > SHARED_LOCK
        PROVE  /\ inode'[p].eFileLock = file'[g].eFileLock \/ At(p, g, "unlock_shared")'
               /\ \A h \in FilesOf(p) \ {g} : file'[h].eFileLock <= SHARED_LOCK
    <3>1. CASE g = f
      BY <1>1, <1>2, <1>4, <2>1, <2>2, <2>4, <3>1 DEF Highest, Typed, Readers,
     Counted
    <3>2. CASE g # f
      BY <1>1, <1>2, <1>4, <2>1, <2>2, <2>4, <3>2 DEF Highest, Typed, Readers,
     Counted
    <3> QED BY <3>1, <3>2
  <2>5. ASSUME NEW g \in FilesOf(p), file'[g].eFileLock = EXCLUSIVE_LOCK
        PROVE  \A h \in FilesOf(p) \ {g} : file'[h].eFileLock = NO_LOCK
    <3>1. CASE g = f
      BY <1>1, <1>2, <1>4, <2>1, <2>2, <2>5, <3>1 DEF Highest, Typed, Readers,
     Counted
    <3>2. CASE g # f
      BY <1>1, <1>2, <1>4, <2>1, <2>2, <2>5, <3>2 DEF Highest, Typed, Readers,
     Counted
    <3> QED BY <3>1, <3>2
  <2> QED BY <2>3, <2>4, <2>5 DEF Highest, FilesOf
<1>9. Backed(p)'
  BY <1>1, <1>2, <1>3, <1>4 DEF Backed, TypeOK, Byte, At, Idle, LastShared
<1>10. InCall(p)'
  BY <1>1, <1>2, <1>3, <1>4 DEF InCall, TypeOK, Byte, At
<1>11. Closed(p)'
  BY <1>1, <1>2, <1>4, <1>5, ReadersFinite DEF Closed, Closing, Counted,
     FilesOf, Readers, TypeOK, At, Idle
<1>12. Local(p)
  BY <1>2, <1>3, <1>4 DEF Local, FilesOf
<1> QED BY <1>3, <1>6, <1>7, <1>8, <1>9, <1>10, <1>11, <1>12 DEF ProcInv

LEMMA Step_shared_refused ==
  ASSUME IInv, SerialClose, NEW p \in Process, NEW f \in File,
         shared_refused(p, f)
  PROVE  TypeOK' /\ KernelInv' /\ ProcInv(p)' /\ Local(p)
<1> USE DEF NO_LOCK, SHARED_LOCK, RESERVED_LOCK, PENDING_LOCK, EXCLUSIVE_LOCK
<1>1. /\ TypeOK /\ KernelInv /\ Counted(p) /\ Highest(p) /\ Backed(p) /\ InCall(p)
      /\ Closed(p) /\ Typed(p)
  BY TypedParts DEF IInv, ProcInv
<1>2. /\ f \in FilesOf(p)
      /\ At(p, f, "shared_refused")
      /\ inode[p].eFileLock = NO_LOCK
  <2>1. At(p, f, "shared_refused") /\ "shared_refused" \in Pcs BY DEF shared_refused, Pcs
  <2>2. f \in FilesOf(p) /\ WhereFacts(p, f, "shared_refused") BY <1>1, <2>1, WhereAt
  <2> QED BY <2>1, <2>2 DEF WhereFacts
<1>3. /\ KernelInv'
      /\ posix' \in [Process -> [Byte -> {"F_UNLCK", "F_RDLCK", "F_WRLCK"}]]
      /\ \A b \in Byte : posix'[p][b] = IF b \in {"PENDING"} THEN "F_UNLCK" ELSE posix[p][b]
      /\ \A q \in Process \ {p} : posix'[q] = posix[q]
  <2>1. Fcntl(p, {"PENDING"}, "F_UNLCK")
    BY <1>2 DEF shared_refused
  <2>3. {"PENDING"} \in SUBSET Byte BY DEF Byte
  <2> QED BY <1>1, <2>1, <2>3, KernelStep
<1>4. /\ file'[f].eFileLock = file[f].eFileLock
      /\ file'[f].state = file[f].state
      /\ \A g \in File \ {f} : file'[g] = file[g]
      /\ inode' = inode
      /\ call'[p] = Idle
      /\ \A q \in Process \ {p} : call'[q] = call[q]
  BY <1>1, <1>2 DEF shared_refused, Goto, Return, SetFile, SetInode,
     GrantExclusive, ReleaseShared, LastShared, TypeOK
<1>5. Readers(p)' = Readers(p)
  BY <1>1, <1>2, <1>4, ReadersSame DEF FilesOf, Typed
<1>6. TypeOK'
  <2>1. file' \in [File -> [state : {"closed", "open", "closing", "close_fd"},
                          eFileLock : NO_LOCK .. EXCLUSIVE_LOCK]]
    BY <1>1, <1>2 DEF shared_refused, SetFile, GrantExclusive, ReleaseShared,
     TypeOK
  <2>2. inode' \in [Process -> [eFileLock : NO_LOCK .. EXCLUSIVE_LOCK,
                           nShared : Nat, nLock : Nat, pUnused : Nat]]
    BY <1>1, <1>2 DEF shared_refused, SetInode, GrantExclusive, ReleaseShared,
     LastShared, TypeOK
  <2>3. posix' \in [Process -> [Byte -> {"F_UNLCK", "F_RDLCK", "F_WRLCK"}]]
    BY <1>1, <1>3 DEF TypeOK
  <2>4. call' \in [Process -> {Idle} \cup [pc : Pcs, file : File]]
    BY <1>1, <1>2 DEF shared_refused, Goto, Return, TypeOK, Pcs
  <2> QED BY <2>1, <2>2, <2>3, <2>4 DEF TypeOK
<1>7. Counted(p)'
  BY <1>1, <1>2, <1>4, <1>5, ReadersFinite DEF Counted, Typed
<1>8. Highest(p)'
  <2>1. \A g \in FilesOf(p) : g \in File BY DEF FilesOf
  <2>2. \A g : ~At(p, g, "unlock_shared") BY <1>2, NotAt DEF Pcs
  <2>3. inode'[p].eFileLock > SHARED_LOCK =>
         \E g \in FilesOf(p) : file'[g].eFileLock = inode'[p].eFileLock
    BY <1>1, <1>2, <1>4, <2>1, <2>2 DEF Highest, Typed
  <2>4. ASSUME NEW g \in FilesOf(p), file'[g].eFileLock > SHARED_LOCK
        PROVE  /\ inode'[p].eFileLock = file'[g].eFileLock \/ At(p, g, "unlock_shared")'
               /\ \A h \in FilesOf(p) \ {g} : file'[h].eFileLock <= SHARED_LOCK
    <3>1. CASE g = f
      BY <1>1, <1>2, <1>4, <2>1, <2>2, <2>4, <3>1 DEF Highest, Typed
    <3>2. CASE g # f
      BY <1>1, <1>2, <1>4, <2>1, <2>2, <2>4, <3>2 DEF Highest, Typed
    <3> QED BY <3>1, <3>2
  <2>5. ASSUME NEW g \in FilesOf(p), file'[g].eFileLock = EXCLUSIVE_LOCK
        PROVE  \A h \in FilesOf(p) \ {g} : file'[h].eFileLock = NO_LOCK
    <3>1. CASE g = f
      BY <1>1, <1>2, <1>4, <2>1, <2>2, <2>5, <3>1 DEF Highest, Typed
    <3>2. CASE g # f
      BY <1>1, <1>2, <1>4, <2>1, <2>2, <2>5, <3>2 DEF Highest, Typed
    <3> QED BY <3>1, <3>2
  <2> QED BY <2>3, <2>4, <2>5 DEF Highest, FilesOf
<1>9. Backed(p)'
  BY <1>1, <1>2, <1>3, <1>4 DEF Backed, TypeOK, Byte, At, Idle, LastShared
<1>10. InCall(p)'
  BY <1>1, <1>2, <1>3, <1>4 DEF InCall, TypeOK, Byte, At
<1>11. Closed(p)'
  BY <1>1, <1>2, <1>4, <1>5, ReadersFinite DEF Closed, Closing, Counted,
     FilesOf, Readers, TypeOK, At, Idle
<1>12. Local(p)
  BY <1>2, <1>3, <1>4 DEF Local, FilesOf
<1> QED BY <1>3, <1>6, <1>7, <1>8, <1>9, <1>10, <1>11, <1>12 DEF ProcInv

LEMMA Step_lock_reserved ==
  ASSUME IInv, SerialClose, NEW p \in Process, NEW f \in File,
         lock_reserved(p, f)
  PROVE  TypeOK' /\ KernelInv' /\ ProcInv(p)' /\ Local(p)
<1> USE DEF NO_LOCK, SHARED_LOCK, RESERVED_LOCK, PENDING_LOCK, EXCLUSIVE_LOCK
<1>1. /\ TypeOK /\ KernelInv /\ Counted(p) /\ Highest(p) /\ Backed(p) /\ InCall(p)
      /\ Closed(p) /\ Typed(p)
  BY TypedParts DEF IInv, ProcInv
<1>2. /\ f \in FilesOf(p)
      /\ call[p] = Idle
      /\ ~Closing(p)
      /\ file[f].state = "open"
      /\ file[f].eFileLock = SHARED_LOCK
      /\ inode[p].eFileLock = SHARED_LOCK
  <2>1. f \in FilesOf(p) /\ call[p] = Idle
    BY DEF lock_reserved, CanCall, FilesOf
  <2>2. \A g : ~At(p, g, "unlock_shared") BY <2>1, NotAt DEF Pcs
  <2> QED
    BY <1>1, <2>1, <2>2 DEF lock_reserved, CanCall, NotPrecluded, Counted,
     Highest, Readers, Typed
<1>3. /\ KernelInv'
      /\ posix' \in [Process -> [Byte -> {"F_UNLCK", "F_RDLCK", "F_WRLCK"}]]
      /\ \A b \in Byte : posix'[p][b] = IF b \in {"RESERVED"} THEN "F_WRLCK" ELSE posix[p][b]
      /\ \A q \in Process \ {p} : posix'[q] = posix[q]
  <2>1. Fcntl(p, {"RESERVED"}, "F_WRLCK")
    BY <1>2 DEF lock_reserved
  <2>2. \A b \in {"RESERVED"} : Grants(p, b, "F_WRLCK")
    BY <1>2 DEF lock_reserved
  <2>3. {"RESERVED"} \in SUBSET Byte BY DEF Byte
  <2> QED BY <1>1, <2>1, <2>2, <2>3, KernelStep
<1>4. /\ file'[f].eFileLock = RESERVED_LOCK
      /\ file'[f].state = file[f].state
      /\ \A g \in File \ {f} : file'[g] = file[g]
      /\ inode'[p].eFileLock = RESERVED_LOCK
      /\ inode'[p].nShared = inode[p].nShared
      /\ inode'[p].nLock = inode[p].nLock
      /\ inode'[p].pUnused = inode[p].pUnused
      /\ \A q \in Process \ {p} : inode'[q] = inode[q]
      /\ call'[p] = call[p]
      /\ \A q \in Process \ {p} : call'[q] = call[q]
  BY <1>1, <1>2 DEF lock_reserved, Goto, Return, SetFile, SetInode,
     GrantExclusive, ReleaseShared, LastShared, TypeOK
<1>5. Readers(p)' = Readers(p)
  BY <1>1, <1>2, <1>4, ReadersSame DEF FilesOf, Typed
<1>6. TypeOK'
  <2>1. file' \in [File -> [state : {"closed", "open", "closing", "close_fd"},
                          eFileLock : NO_LOCK .. EXCLUSIVE_LOCK]]
    BY <1>1, <1>2 DEF lock_reserved, SetFile, GrantExclusive, ReleaseShared,
     TypeOK
  <2>2. inode' \in [Process -> [eFileLock : NO_LOCK .. EXCLUSIVE_LOCK,
                           nShared : Nat, nLock : Nat, pUnused : Nat]]
    <3> DEFINE I == [eFileLock : NO_LOCK .. EXCLUSIVE_LOCK,
                     nShared : Nat, nLock : Nat, pUnused : Nat]
    <3>1. inode \in [Process -> I] BY <1>1 DEF TypeOK
    <3>2. [inode[p] EXCEPT !.eFileLock = RESERVED_LOCK] \in I BY <3>1
    <3>3. inode' = [inode EXCEPT ![p] = [inode[p] EXCEPT !.eFileLock = RESERVED_LOCK]]
      BY DEF lock_reserved, SetInode
    <3> HIDE DEF I
    <3>4. inode' \in [Process -> I] BY <3>1, <3>2, <3>3
    <3> QED BY <3>4 DEF I
  <2>3. posix' \in [Process -> [Byte -> {"F_UNLCK", "F_RDLCK", "F_WRLCK"}]]
    BY <1>1, <1>3 DEF TypeOK
  <2>4. call' \in [Process -> {Idle} \cup [pc : Pcs, file : File]]
    BY <1>1, <1>2 DEF lock_reserved, Goto, Return, TypeOK, Pcs
  <2> QED BY <2>1, <2>2, <2>3, <2>4 DEF TypeOK
<1>7. Counted(p)'
  BY <1>1, <1>2, <1>4, <1>5, ReadersFinite DEF Counted, Typed
<1>8. Highest(p)'
  <2>1. \A g \in FilesOf(p) : g \in File BY DEF FilesOf
  <2>2. \A g : ~At(p, g, "unlock_shared") BY <1>2, NotAt DEF Pcs
  <2>3. inode'[p].eFileLock > SHARED_LOCK =>
         \E g \in FilesOf(p) : file'[g].eFileLock = inode'[p].eFileLock
    BY <1>1, <1>2, <1>4, <2>1, <2>2 DEF Highest, Typed
  <2>4. ASSUME NEW g \in FilesOf(p), file'[g].eFileLock > SHARED_LOCK
        PROVE  /\ inode'[p].eFileLock = file'[g].eFileLock \/ At(p, g, "unlock_shared")'
               /\ \A h \in FilesOf(p) \ {g} : file'[h].eFileLock <= SHARED_LOCK
    <3>1. CASE g = f
      BY <1>1, <1>2, <1>4, <2>1, <2>2, <2>4, <3>1 DEF Highest, Typed
    <3>2. CASE g # f
      BY <1>1, <1>2, <1>4, <2>1, <2>2, <2>4, <3>2 DEF Highest, Typed
    <3> QED BY <3>1, <3>2
  <2>5. ASSUME NEW g \in FilesOf(p), file'[g].eFileLock = EXCLUSIVE_LOCK
        PROVE  \A h \in FilesOf(p) \ {g} : file'[h].eFileLock = NO_LOCK
    <3>1. CASE g = f
      BY <1>1, <1>2, <1>4, <2>1, <2>2, <2>5, <3>1 DEF Highest, Typed
    <3>2. CASE g # f
      BY <1>1, <1>2, <1>4, <2>1, <2>2, <2>5, <3>2 DEF Highest, Typed
    <3> QED BY <3>1, <3>2
  <2> QED BY <2>3, <2>4, <2>5 DEF Highest, FilesOf
<1>9. Backed(p)'
  BY <1>1, <1>2, <1>3, <1>4 DEF Backed, TypeOK, Byte, At, Idle, LastShared
<1>10. InCall(p)'
  BY <1>1, <1>2, <1>3, <1>4 DEF InCall, TypeOK, Byte, At
<1>11. Closed(p)'
  BY <1>1, <1>2, <1>4, <1>5, ReadersFinite DEF Closed, Closing, Counted,
     FilesOf, Readers, TypeOK, At, Idle
<1>12. Local(p)
  BY <1>2, <1>3, <1>4 DEF Local, FilesOf
<1> QED BY <1>3, <1>6, <1>7, <1>8, <1>9, <1>10, <1>11, <1>12 DEF ProcInv

LEMMA Step_lock_pending ==
  ASSUME IInv, SerialClose, NEW p \in Process, NEW f \in File,
         lock_pending(p, f)
  PROVE  TypeOK' /\ KernelInv' /\ ProcInv(p)' /\ Local(p)
<1> USE DEF NO_LOCK, SHARED_LOCK, RESERVED_LOCK, PENDING_LOCK, EXCLUSIVE_LOCK
<1>1. /\ TypeOK /\ KernelInv /\ Counted(p) /\ Highest(p) /\ Backed(p) /\ InCall(p)
      /\ Closed(p) /\ Typed(p)
  BY TypedParts DEF IInv, ProcInv
<1>2. /\ f \in FilesOf(p)
      /\ call[p] = Idle
      /\ ~Closing(p)
      /\ file[f].state = "open"
      /\ file[f].eFileLock = RESERVED_LOCK
      /\ inode[p].eFileLock = RESERVED_LOCK
  <2>1. f \in FilesOf(p) /\ call[p] = Idle
    BY DEF lock_pending, CanCall, FilesOf
  <2>2. \A g : ~At(p, g, "unlock_shared") BY <2>1, NotAt DEF Pcs
  <2> QED
    BY <1>1, <2>1, <2>2 DEF lock_pending, CanCall, NotPrecluded, Counted,
     Highest, Readers, Typed
<1>3. /\ KernelInv'
      /\ posix' \in [Process -> [Byte -> {"F_UNLCK", "F_RDLCK", "F_WRLCK"}]]
      /\ \A b \in Byte : posix'[p][b] = IF b \in {"PENDING"} THEN "F_WRLCK" ELSE posix[p][b]
      /\ \A q \in Process \ {p} : posix'[q] = posix[q]
  <2>1. Fcntl(p, {"PENDING"}, "F_WRLCK")
    BY <1>2 DEF lock_pending
  <2>2. \A b \in {"PENDING"} : Grants(p, b, "F_WRLCK")
    BY <1>2 DEF lock_pending
  <2>3. {"PENDING"} \in SUBSET Byte BY DEF Byte
  <2> QED BY <1>1, <2>1, <2>2, <2>3, KernelStep
<1>4. /\ file'[f].eFileLock = PENDING_LOCK
      /\ file'[f].state = file[f].state
      /\ \A g \in File \ {f} : file'[g] = file[g]
      /\ inode'[p].eFileLock = PENDING_LOCK
      /\ inode'[p].nShared = inode[p].nShared
      /\ inode'[p].nLock = inode[p].nLock
      /\ inode'[p].pUnused = inode[p].pUnused
      /\ \A q \in Process \ {p} : inode'[q] = inode[q]
      /\ call'[p] = [pc |-> "exclusive_range", file |-> f]
      /\ \A q \in Process \ {p} : call'[q] = call[q]
  BY <1>1, <1>2 DEF lock_pending, Goto, Return, SetFile, SetInode,
     GrantExclusive, ReleaseShared, LastShared, TypeOK
<1>5. Readers(p)' = Readers(p)
  BY <1>1, <1>2, <1>4, ReadersSame DEF FilesOf, Typed
<1>6. TypeOK'
  <2>1. file' \in [File -> [state : {"closed", "open", "closing", "close_fd"},
                          eFileLock : NO_LOCK .. EXCLUSIVE_LOCK]]
    BY <1>1, <1>2 DEF lock_pending, SetFile, GrantExclusive, ReleaseShared,
     TypeOK
  <2>2. inode' \in [Process -> [eFileLock : NO_LOCK .. EXCLUSIVE_LOCK,
                           nShared : Nat, nLock : Nat, pUnused : Nat]]
    BY <1>1, <1>2 DEF lock_pending, SetInode, GrantExclusive, ReleaseShared,
     LastShared, TypeOK
  <2>3. posix' \in [Process -> [Byte -> {"F_UNLCK", "F_RDLCK", "F_WRLCK"}]]
    BY <1>1, <1>3 DEF TypeOK
  <2>4. call' \in [Process -> {Idle} \cup [pc : Pcs, file : File]]
    BY <1>1, <1>2 DEF lock_pending, Goto, Return, TypeOK, Pcs
  <2> QED BY <2>1, <2>2, <2>3, <2>4 DEF TypeOK
<1>7. Counted(p)'
  BY <1>1, <1>2, <1>4, <1>5, ReadersFinite DEF Counted, Typed
<1>8. Highest(p)'
  <2>1. \A g \in FilesOf(p) : g \in File BY DEF FilesOf
  <2>2. \A g : ~At(p, g, "unlock_shared") BY <1>2, NotAt DEF Pcs
  <2>3. inode'[p].eFileLock > SHARED_LOCK =>
         \E g \in FilesOf(p) : file'[g].eFileLock = inode'[p].eFileLock
    BY <1>1, <1>2, <1>4, <2>1, <2>2 DEF Highest, Typed
  <2>4. ASSUME NEW g \in FilesOf(p), file'[g].eFileLock > SHARED_LOCK
        PROVE  /\ inode'[p].eFileLock = file'[g].eFileLock \/ At(p, g, "unlock_shared")'
               /\ \A h \in FilesOf(p) \ {g} : file'[h].eFileLock <= SHARED_LOCK
    <3>1. CASE g = f
      BY <1>1, <1>2, <1>4, <2>1, <2>2, <2>4, <3>1 DEF Highest, Typed
    <3>2. CASE g # f
      BY <1>1, <1>2, <1>4, <2>1, <2>2, <2>4, <3>2 DEF Highest, Typed
    <3> QED BY <3>1, <3>2
  <2>5. ASSUME NEW g \in FilesOf(p), file'[g].eFileLock = EXCLUSIVE_LOCK
        PROVE  \A h \in FilesOf(p) \ {g} : file'[h].eFileLock = NO_LOCK
    <3>1. CASE g = f
      BY <1>1, <1>2, <1>4, <2>1, <2>2, <2>5, <3>1 DEF Highest, Typed
    <3>2. CASE g # f
      BY <1>1, <1>2, <1>4, <2>1, <2>2, <2>5, <3>2 DEF Highest, Typed
    <3> QED BY <3>1, <3>2
  <2> QED BY <2>3, <2>4, <2>5 DEF Highest, FilesOf
<1>9. Backed(p)'
  BY <1>1, <1>2, <1>3, <1>4 DEF Backed, TypeOK, Byte, At, Idle, LastShared
<1>10. InCall(p)'
  BY <1>1, <1>2, <1>3, <1>4 DEF InCall, TypeOK, Byte, At
<1>11. Closed(p)'
  BY <1>1, <1>2, <1>4, <1>5, ReadersFinite DEF Closed, Closing, Counted,
     FilesOf, Readers, TypeOK, At, Idle
<1>12. Local(p)
  BY <1>2, <1>3, <1>4 DEF Local, FilesOf
<1> QED BY <1>3, <1>6, <1>7, <1>8, <1>9, <1>10, <1>11, <1>12 DEF ProcInv

LEMMA Step_exclusive_granted ==
  ASSUME IInv, SerialClose, NEW p \in Process, NEW f \in File,
         At(p, f, "exclusive_range"),
         GrantExclusive(p, f),
         Return(p)
  PROVE  TypeOK' /\ KernelInv' /\ ProcInv(p)' /\ Local(p)
<1> USE DEF NO_LOCK, SHARED_LOCK, RESERVED_LOCK, PENDING_LOCK, EXCLUSIVE_LOCK
<1>1. /\ TypeOK /\ KernelInv /\ Counted(p) /\ Highest(p) /\ Backed(p) /\ InCall(p)
      /\ Closed(p) /\ Typed(p)
  BY TypedParts DEF IInv, ProcInv
<1>2. /\ f \in FilesOf(p)
      /\ At(p, f, "exclusive_range")
      /\ file[f].eFileLock = PENDING_LOCK
      /\ inode[p].eFileLock = PENDING_LOCK
      /\ Readers(p) = {f}
  <2>1. At(p, f, "exclusive_range") /\ "exclusive_range" \in Pcs BY DEF GrantExclusive, Pcs
  <2>2. f \in FilesOf(p) /\ WhereFacts(p, f, "exclusive_range") BY <1>1, <2>1, WhereAt
  <2>3. Cardinality(Readers(p)) = 1 BY <1>1 DEF GrantExclusive, Counted
  <2>4. Readers(p) = {f} BY <1>1, <2>2, <2>3, OnlyReader DEF WhereFacts, Typed
  <2> QED BY <2>1, <2>2, <2>4 DEF WhereFacts
<1>3. /\ KernelInv'
      /\ posix' \in [Process -> [Byte -> {"F_UNLCK", "F_RDLCK", "F_WRLCK"}]]
      /\ \A b \in Byte : posix'[p][b] = IF b \in {"SHARED"} THEN "F_WRLCK" ELSE posix[p][b]
      /\ \A q \in Process \ {p} : posix'[q] = posix[q]
  <2>1. Fcntl(p, {"SHARED"}, "F_WRLCK")
    BY <1>2 DEF GrantExclusive
  <2>2. \A b \in {"SHARED"} : Grants(p, b, "F_WRLCK")
    BY <1>2 DEF GrantExclusive
  <2>3. {"SHARED"} \in SUBSET Byte BY DEF Byte
  <2> QED BY <1>1, <2>1, <2>2, <2>3, KernelStep
<1>4. /\ file'[f].eFileLock = EXCLUSIVE_LOCK
      /\ file'[f].state = file[f].state
      /\ \A g \in File \ {f} : file'[g] = file[g]
      /\ inode'[p].eFileLock = EXCLUSIVE_LOCK
      /\ inode'[p].nShared = inode[p].nShared
      /\ inode'[p].nLock = inode[p].nLock
      /\ inode'[p].pUnused = inode[p].pUnused
      /\ \A q \in Process \ {p} : inode'[q] = inode[q]
      /\ call'[p] = Idle
      /\ \A q \in Process \ {p} : call'[q] = call[q]
  BY <1>1, <1>2 DEF GrantExclusive, Goto, Return, SetFile, SetInode,
     GrantExclusive, ReleaseShared, LastShared, TypeOK
<1>5. Readers(p)' = Readers(p)
  BY <1>1, <1>2, <1>4, ReadersSame DEF FilesOf, Typed
<1>6. TypeOK'
  <2>1. file' \in [File -> [state : {"closed", "open", "closing", "close_fd"},
                          eFileLock : NO_LOCK .. EXCLUSIVE_LOCK]]
    BY <1>1, <1>2 DEF GrantExclusive, SetFile, GrantExclusive, ReleaseShared,
     TypeOK
  <2>2. inode' \in [Process -> [eFileLock : NO_LOCK .. EXCLUSIVE_LOCK,
                           nShared : Nat, nLock : Nat, pUnused : Nat]]
    BY <1>1, <1>2 DEF GrantExclusive, SetInode, GrantExclusive, ReleaseShared,
     LastShared, TypeOK
  <2>3. posix' \in [Process -> [Byte -> {"F_UNLCK", "F_RDLCK", "F_WRLCK"}]]
    BY <1>1, <1>3 DEF TypeOK
  <2>4. call' \in [Process -> {Idle} \cup [pc : Pcs, file : File]]
    BY <1>1, <1>2 DEF GrantExclusive, Goto, Return, TypeOK, Pcs
  <2> QED BY <2>1, <2>2, <2>3, <2>4 DEF TypeOK
<1>7. Counted(p)'
  <2>1. Readers(p)' # {} BY <1>2, <1>5
  <2> QED
    BY <1>1, <1>4, <1>5, <2>1 DEF Counted, Typed
<1>8. Highest(p)'
  <2>1. \A g \in FilesOf(p) : g \in File BY DEF FilesOf
  <2>2. \A g : ~At(p, g, "unlock_shared") BY <1>2, NotAt DEF Pcs
  <2>3. inode'[p].eFileLock > SHARED_LOCK =>
         \E g \in FilesOf(p) : file'[g].eFileLock = inode'[p].eFileLock
    BY <1>1, <1>2, <1>4, <2>1, <2>2 DEF Highest, Typed, Readers, Counted
  <2>4. ASSUME NEW g \in FilesOf(p), file'[g].eFileLock > SHARED_LOCK
        PROVE  /\ inode'[p].eFileLock = file'[g].eFileLock \/ At(p, g, "unlock_shared")'
               /\ \A h \in FilesOf(p) \ {g} : file'[h].eFileLock <= SHARED_LOCK
    <3>1. CASE g = f
      BY <1>1, <1>2, <1>4, <2>1, <2>2, <2>4, <3>1 DEF Highest, Typed, Readers,
     Counted
    <3>2. CASE g # f
      BY <1>1, <1>2, <1>4, <2>1, <2>2, <2>4, <3>2 DEF Highest, Typed, Readers,
     Counted
    <3> QED BY <3>1, <3>2
  <2>5. ASSUME NEW g \in FilesOf(p), file'[g].eFileLock = EXCLUSIVE_LOCK
        PROVE  \A h \in FilesOf(p) \ {g} : file'[h].eFileLock = NO_LOCK
    <3>1. CASE g = f
      BY <1>1, <1>2, <1>4, <2>1, <2>2, <2>5, <3>1 DEF Highest, Typed, Readers,
     Counted
    <3>2. CASE g # f
      BY <1>1, <1>2, <1>4, <2>1, <2>2, <2>5, <3>2 DEF Highest, Typed, Readers,
     Counted
    <3> QED BY <3>1, <3>2
  <2> QED BY <2>3, <2>4, <2>5 DEF Highest, FilesOf
<1>9. Backed(p)'
  BY <1>1, <1>2, <1>3, <1>4 DEF Backed, TypeOK, Byte, At, Idle, LastShared
<1>10. InCall(p)'
  BY <1>1, <1>2, <1>3, <1>4 DEF InCall, TypeOK, Byte, At
<1>11. Closed(p)'
  BY <1>1, <1>2, <1>4, <1>5, ReadersFinite DEF Closed, Closing, Counted,
     FilesOf, Readers, TypeOK, At, Idle
<1>12. Local(p)
  BY <1>2, <1>3, <1>4 DEF Local, FilesOf
<1> QED BY <1>3, <1>6, <1>7, <1>8, <1>9, <1>10, <1>11, <1>12 DEF ProcInv

LEMMA Step_exclusive_refused ==
  ASSUME IInv, SerialClose, NEW p \in Process, NEW f \in File,
         At(p, f, "exclusive_range"),
         UNCHANGED <<file, inode, posix>>,
         Return(p)
  PROVE  TypeOK' /\ KernelInv' /\ ProcInv(p)' /\ Local(p)
<1> USE DEF NO_LOCK, SHARED_LOCK, RESERVED_LOCK, PENDING_LOCK, EXCLUSIVE_LOCK
<1>1. /\ TypeOK /\ KernelInv /\ Counted(p) /\ Highest(p) /\ Backed(p) /\ InCall(p)
      /\ Closed(p) /\ Typed(p)
  BY TypedParts DEF IInv, ProcInv
<1>2. /\ f \in FilesOf(p)
      /\ At(p, f, "exclusive_range")
      /\ file[f].eFileLock = PENDING_LOCK
      /\ inode[p].eFileLock = PENDING_LOCK
  <2>1. At(p, f, "exclusive_range") /\ "exclusive_range" \in Pcs BY DEF Pcs
  <2>2. f \in FilesOf(p) /\ WhereFacts(p, f, "exclusive_range") BY <1>1, <2>1, WhereAt
  <2> QED BY <2>1, <2>2 DEF WhereFacts
<1>3. posix' = posix /\ KernelInv'
  BY <1>1 DEF KernelInv
<1>4. /\ file'[f].eFileLock = file[f].eFileLock
      /\ file'[f].state = file[f].state
      /\ \A g \in File \ {f} : file'[g] = file[g]
      /\ inode' = inode
      /\ call'[p] = Idle
      /\ \A q \in Process \ {p} : call'[q] = call[q]
  BY <1>1, <1>2 DEF Goto, Return, SetFile, SetInode, GrantExclusive,
     ReleaseShared, LastShared, TypeOK
<1>5. Readers(p)' = Readers(p)
  BY <1>1, <1>2, <1>4, ReadersSame DEF FilesOf, Typed
<1>6. TypeOK'
  <2>1. file' \in [File -> [state : {"closed", "open", "closing", "close_fd"},
                          eFileLock : NO_LOCK .. EXCLUSIVE_LOCK]]
    BY <1>1, <1>2 DEF SetFile, GrantExclusive, ReleaseShared, TypeOK
  <2>2. inode' \in [Process -> [eFileLock : NO_LOCK .. EXCLUSIVE_LOCK,
                           nShared : Nat, nLock : Nat, pUnused : Nat]]
    BY <1>1, <1>2 DEF SetInode, GrantExclusive, ReleaseShared, LastShared, TypeOK
  <2>3. posix' \in [Process -> [Byte -> {"F_UNLCK", "F_RDLCK", "F_WRLCK"}]]
    BY <1>1, <1>3 DEF TypeOK
  <2>4. call' \in [Process -> {Idle} \cup [pc : Pcs, file : File]]
    BY <1>1, <1>2 DEF Goto, Return, TypeOK, Pcs
  <2> QED BY <2>1, <2>2, <2>3, <2>4 DEF TypeOK
<1>7. Counted(p)'
  BY <1>1, <1>2, <1>4, <1>5, ReadersFinite DEF Counted, Typed
<1>8. Highest(p)'
  <2>1. \A g \in FilesOf(p) : g \in File BY DEF FilesOf
  <2>2. \A g : ~At(p, g, "unlock_shared") BY <1>2, NotAt DEF Pcs
  <2>3. inode'[p].eFileLock > SHARED_LOCK =>
         \E g \in FilesOf(p) : file'[g].eFileLock = inode'[p].eFileLock
    BY <1>1, <1>2, <1>4, <2>1, <2>2 DEF Highest, Typed
  <2>4. ASSUME NEW g \in FilesOf(p), file'[g].eFileLock > SHARED_LOCK
        PROVE  /\ inode'[p].eFileLock = file'[g].eFileLock \/ At(p, g, "unlock_shared")'
               /\ \A h \in FilesOf(p) \ {g} : file'[h].eFileLock <= SHARED_LOCK
    <3>1. CASE g = f
      BY <1>1, <1>2, <1>4, <2>1, <2>2, <2>4, <3>1 DEF Highest, Typed
    <3>2. CASE g # f
      BY <1>1, <1>2, <1>4, <2>1, <2>2, <2>4, <3>2 DEF Highest, Typed
    <3> QED BY <3>1, <3>2
  <2>5. ASSUME NEW g \in FilesOf(p), file'[g].eFileLock = EXCLUSIVE_LOCK
        PROVE  \A h \in FilesOf(p) \ {g} : file'[h].eFileLock = NO_LOCK
    <3>1. CASE g = f
      BY <1>1, <1>2, <1>4, <2>1, <2>2, <2>5, <3>1 DEF Highest, Typed
    <3>2. CASE g # f
      BY <1>1, <1>2, <1>4, <2>1, <2>2, <2>5, <3>2 DEF Highest, Typed
    <3> QED BY <3>1, <3>2
  <2> QED BY <2>3, <2>4, <2>5 DEF Highest, FilesOf
<1>9. Backed(p)'
  BY <1>1, <1>2, <1>3, <1>4 DEF Backed, TypeOK, Byte, At, Idle, LastShared
<1>10. InCall(p)'
  BY <1>1, <1>2, <1>3, <1>4 DEF InCall, TypeOK, Byte, At
<1>11. Closed(p)'
  BY <1>1, <1>2, <1>4, <1>5, ReadersFinite DEF Closed, Closing, Counted,
     FilesOf, Readers, TypeOK, At, Idle
<1>12. Local(p)
  BY <1>2, <1>3, <1>4 DEF Local, FilesOf
<1> QED BY <1>3, <1>6, <1>7, <1>8, <1>9, <1>10, <1>11, <1>12 DEF ProcInv

LEMMA Step_lock_exclusive ==
  ASSUME IInv, SerialClose, NEW p \in Process, NEW f \in File,
         lock_exclusive(p, f)
  PROVE  TypeOK' /\ KernelInv' /\ ProcInv(p)' /\ Local(p)
<1> USE DEF NO_LOCK, SHARED_LOCK, RESERVED_LOCK, PENDING_LOCK, EXCLUSIVE_LOCK
<1>1. /\ TypeOK /\ KernelInv /\ Counted(p) /\ Highest(p) /\ Backed(p) /\ InCall(p)
      /\ Closed(p) /\ Typed(p)
  BY TypedParts DEF IInv, ProcInv
<1>2. /\ f \in FilesOf(p)
      /\ call[p] = Idle
      /\ ~Closing(p)
      /\ file[f].state = "open"
      /\ file[f].eFileLock \in {SHARED_LOCK, PENDING_LOCK}
      /\ inode[p].eFileLock = file[f].eFileLock
      /\ Readers(p) = {f}
  <2>1. f \in FilesOf(p) /\ call[p] = Idle
    BY DEF lock_exclusive, GrantExclusive, CanCall, FilesOf
  <2>2. \A g : ~At(p, g, "unlock_shared") BY <2>1, NotAt DEF Pcs
  <2>3. Cardinality(Readers(p)) = 1 BY <1>1 DEF lock_exclusive, GrantExclusive, Counted
  <2>4. Readers(p) = {f} BY <2>1, <2>3, OnlyReader DEF lock_exclusive
  <2> QED
    BY <1>1, <2>1, <2>2, <2>4 DEF lock_exclusive, GrantExclusive, CanCall,
     NotPrecluded, Counted, Highest, Readers, Typed
<1>3. /\ KernelInv'
      /\ posix' \in [Process -> [Byte -> {"F_UNLCK", "F_RDLCK", "F_WRLCK"}]]
      /\ \A b \in Byte : posix'[p][b] = IF b \in {"SHARED"} THEN "F_WRLCK" ELSE posix[p][b]
      /\ \A q \in Process \ {p} : posix'[q] = posix[q]
  <2>1. Fcntl(p, {"SHARED"}, "F_WRLCK")
    BY <1>2 DEF lock_exclusive, GrantExclusive
  <2>2. \A b \in {"SHARED"} : Grants(p, b, "F_WRLCK")
    BY <1>2 DEF lock_exclusive, GrantExclusive
  <2>3. {"SHARED"} \in SUBSET Byte BY DEF Byte
  <2> QED BY <1>1, <2>1, <2>2, <2>3, KernelStep
<1>4. /\ file'[f].eFileLock = EXCLUSIVE_LOCK
      /\ file'[f].state = file[f].state
      /\ \A g \in File \ {f} : file'[g] = file[g]
      /\ inode'[p].eFileLock = EXCLUSIVE_LOCK
      /\ inode'[p].nShared = inode[p].nShared
      /\ inode'[p].nLock = inode[p].nLock
      /\ inode'[p].pUnused = inode[p].pUnused
      /\ \A q \in Process \ {p} : inode'[q] = inode[q]
      /\ call'[p] = call[p]
      /\ \A q \in Process \ {p} : call'[q] = call[q]
  BY <1>1, <1>2 DEF lock_exclusive, GrantExclusive, Goto, Return, SetFile,
     SetInode, GrantExclusive, ReleaseShared, LastShared, TypeOK
<1>5. Readers(p)' = Readers(p)
  BY <1>1, <1>2, <1>4, ReadersSame DEF FilesOf, Typed
<1>6. TypeOK'
  <2>1. file' \in [File -> [state : {"closed", "open", "closing", "close_fd"},
                          eFileLock : NO_LOCK .. EXCLUSIVE_LOCK]]
    BY <1>1, <1>2 DEF lock_exclusive, GrantExclusive, SetFile, GrantExclusive,
     ReleaseShared, TypeOK
  <2>2. inode' \in [Process -> [eFileLock : NO_LOCK .. EXCLUSIVE_LOCK,
                           nShared : Nat, nLock : Nat, pUnused : Nat]]
    BY <1>1, <1>2 DEF lock_exclusive, GrantExclusive, SetInode, GrantExclusive,
     ReleaseShared, LastShared, TypeOK
  <2>3. posix' \in [Process -> [Byte -> {"F_UNLCK", "F_RDLCK", "F_WRLCK"}]]
    BY <1>1, <1>3 DEF TypeOK
  <2>4. call' \in [Process -> {Idle} \cup [pc : Pcs, file : File]]
    BY <1>1, <1>2 DEF lock_exclusive, GrantExclusive, Goto, Return, TypeOK, Pcs
  <2> QED BY <2>1, <2>2, <2>3, <2>4 DEF TypeOK
<1>7. Counted(p)'
  <2>1. Readers(p)' # {} BY <1>2, <1>5
  <2> QED
    BY <1>1, <1>4, <1>5, <2>1 DEF Counted, Typed
<1>8. Highest(p)'
  <2>1. \A g \in FilesOf(p) : g \in File BY DEF FilesOf
  <2>2. \A g : ~At(p, g, "unlock_shared") BY <1>2, NotAt DEF Pcs
  <2>3. inode'[p].eFileLock > SHARED_LOCK =>
         \E g \in FilesOf(p) : file'[g].eFileLock = inode'[p].eFileLock
    BY <1>1, <1>2, <1>4, <2>1, <2>2 DEF Highest, Typed, Readers, Counted
  <2>4. ASSUME NEW g \in FilesOf(p), file'[g].eFileLock > SHARED_LOCK
        PROVE  /\ inode'[p].eFileLock = file'[g].eFileLock \/ At(p, g, "unlock_shared")'
               /\ \A h \in FilesOf(p) \ {g} : file'[h].eFileLock <= SHARED_LOCK
    <3>1. CASE g = f
      BY <1>1, <1>2, <1>4, <2>1, <2>2, <2>4, <3>1 DEF Highest, Typed, Readers,
     Counted
    <3>2. CASE g # f
      BY <1>1, <1>2, <1>4, <2>1, <2>2, <2>4, <3>2 DEF Highest, Typed, Readers,
     Counted
    <3> QED BY <3>1, <3>2
  <2>5. ASSUME NEW g \in FilesOf(p), file'[g].eFileLock = EXCLUSIVE_LOCK
        PROVE  \A h \in FilesOf(p) \ {g} : file'[h].eFileLock = NO_LOCK
    <3>1. CASE g = f
      BY <1>1, <1>2, <1>4, <2>1, <2>2, <2>5, <3>1 DEF Highest, Typed, Readers,
     Counted
    <3>2. CASE g # f
      BY <1>1, <1>2, <1>4, <2>1, <2>2, <2>5, <3>2 DEF Highest, Typed, Readers,
     Counted
    <3> QED BY <3>1, <3>2
  <2> QED BY <2>3, <2>4, <2>5 DEF Highest, FilesOf
<1>9. Backed(p)'
  BY <1>1, <1>2, <1>3, <1>4 DEF Backed, TypeOK, Byte, At, Idle, LastShared
<1>10. InCall(p)'
  BY <1>1, <1>2, <1>3, <1>4 DEF InCall, TypeOK, Byte, At
<1>11. Closed(p)'
  BY <1>1, <1>2, <1>4, <1>5, ReadersFinite DEF Closed, Closing, Counted,
     FilesOf, Readers, TypeOK, At, Idle
<1>12. Local(p)
  BY <1>2, <1>3, <1>4 DEF Local, FilesOf
<1> QED BY <1>3, <1>6, <1>7, <1>8, <1>9, <1>10, <1>11, <1>12 DEF ProcInv

LEMMA Step_downgrade ==
  ASSUME IInv, SerialClose, NEW p \in Process, NEW f \in File,
         downgrade(p, f)
  PROVE  TypeOK' /\ KernelInv' /\ ProcInv(p)' /\ Local(p)
<1> USE DEF NO_LOCK, SHARED_LOCK, RESERVED_LOCK, PENDING_LOCK, EXCLUSIVE_LOCK
<1>1. /\ TypeOK /\ KernelInv /\ Counted(p) /\ Highest(p) /\ Backed(p) /\ InCall(p)
      /\ Closed(p) /\ Typed(p)
  BY TypedParts DEF IInv, ProcInv
<1>2. /\ f \in FilesOf(p)
      /\ call[p] = Idle
      /\ ~Closing(p)
      /\ file[f].state = "open"
      /\ file[f].eFileLock > SHARED_LOCK
      /\ inode[p].eFileLock = file[f].eFileLock
  <2>1. f \in FilesOf(p) /\ call[p] = Idle
    BY DEF downgrade, CanCall, FilesOf
  <2>2. \A g : ~At(p, g, "unlock_shared") BY <2>1, NotAt DEF Pcs
  <2> QED
    BY <1>1, <2>1, <2>2 DEF downgrade, CanCall, NotPrecluded, Counted, Highest,
     Readers, Typed
<1>3. /\ KernelInv'
      /\ posix' \in [Process -> [Byte -> {"F_UNLCK", "F_RDLCK", "F_WRLCK"}]]
      /\ \A b \in Byte : posix'[p][b] = IF b \in {"SHARED"} THEN "F_RDLCK" ELSE posix[p][b]
      /\ \A q \in Process \ {p} : posix'[q] = posix[q]
  <2>1. Fcntl(p, {"SHARED"}, "F_RDLCK")
    BY <1>2 DEF downgrade
  <2>2. posix[p]["SHARED"] # "F_UNLCK"
    BY <1>1, <1>2 DEF Backed, TypeOK
  <2>3. {"SHARED"} \in SUBSET Byte BY DEF Byte
  <2> QED BY <1>1, <2>1, <2>2, <2>3, KernelStep
<1>4. /\ file'[f].eFileLock = file[f].eFileLock
      /\ file'[f].state = file[f].state
      /\ \A g \in File \ {f} : file'[g] = file[g]
      /\ inode' = inode
      /\ call'[p] = [pc |-> "downgraded", file |-> f]
      /\ \A q \in Process \ {p} : call'[q] = call[q]
  BY <1>1, <1>2 DEF downgrade, Goto, Return, SetFile, SetInode, GrantExclusive,
     ReleaseShared, LastShared, TypeOK
<1>5. Readers(p)' = Readers(p)
  BY <1>1, <1>2, <1>4, ReadersSame DEF FilesOf, Typed
<1>6. TypeOK'
  <2>1. file' \in [File -> [state : {"closed", "open", "closing", "close_fd"},
                          eFileLock : NO_LOCK .. EXCLUSIVE_LOCK]]
    BY <1>1, <1>2 DEF downgrade, SetFile, GrantExclusive, ReleaseShared, TypeOK
  <2>2. inode' \in [Process -> [eFileLock : NO_LOCK .. EXCLUSIVE_LOCK,
                           nShared : Nat, nLock : Nat, pUnused : Nat]]
    BY <1>1, <1>2 DEF downgrade, SetInode, GrantExclusive, ReleaseShared,
     LastShared, TypeOK
  <2>3. posix' \in [Process -> [Byte -> {"F_UNLCK", "F_RDLCK", "F_WRLCK"}]]
    BY <1>1, <1>3 DEF TypeOK
  <2>4. call' \in [Process -> {Idle} \cup [pc : Pcs, file : File]]
    BY <1>1, <1>2 DEF downgrade, Goto, Return, TypeOK, Pcs
  <2> QED BY <2>1, <2>2, <2>3, <2>4 DEF TypeOK
<1>7. Counted(p)'
  BY <1>1, <1>2, <1>4, <1>5, ReadersFinite DEF Counted, Typed
<1>8. Highest(p)'
  <2>1. \A g \in FilesOf(p) : g \in File BY DEF FilesOf
  <2>2. \A g : ~At(p, g, "unlock_shared") BY <1>2, NotAt DEF Pcs
  <2>3. inode'[p].eFileLock > SHARED_LOCK =>
         \E g \in FilesOf(p) : file'[g].eFileLock = inode'[p].eFileLock
    BY <1>1, <1>2, <1>4, <2>1, <2>2 DEF Highest, Typed
  <2>4. ASSUME NEW g \in FilesOf(p), file'[g].eFileLock > SHARED_LOCK
        PROVE  /\ inode'[p].eFileLock = file'[g].eFileLock \/ At(p, g, "unlock_shared")'
               /\ \A h \in FilesOf(p) \ {g} : file'[h].eFileLock <= SHARED_LOCK
    <3>1. CASE g = f
      BY <1>1, <1>2, <1>4, <2>1, <2>2, <2>4, <3>1 DEF Highest, Typed
    <3>2. CASE g # f
      BY <1>1, <1>2, <1>4, <2>1, <2>2, <2>4, <3>2 DEF Highest, Typed
    <3> QED BY <3>1, <3>2
  <2>5. ASSUME NEW g \in FilesOf(p), file'[g].eFileLock = EXCLUSIVE_LOCK
        PROVE  \A h \in FilesOf(p) \ {g} : file'[h].eFileLock = NO_LOCK
    <3>1. CASE g = f
      BY <1>1, <1>2, <1>4, <2>1, <2>2, <2>5, <3>1 DEF Highest, Typed
    <3>2. CASE g # f
      BY <1>1, <1>2, <1>4, <2>1, <2>2, <2>5, <3>2 DEF Highest, Typed
    <3> QED BY <3>1, <3>2
  <2> QED BY <2>3, <2>4, <2>5 DEF Highest, FilesOf
<1>9. Backed(p)'
  BY <1>1, <1>2, <1>3, <1>4 DEF Backed, TypeOK, Byte, At, Idle, LastShared
<1>10. InCall(p)'
  BY <1>1, <1>2, <1>3, <1>4 DEF InCall, TypeOK, Byte, At
<1>11. Closed(p)'
  BY <1>1, <1>2, <1>4, <1>5, ReadersFinite DEF Closed, Closing, Counted,
     FilesOf, Readers, TypeOK, At, Idle
<1>12. Local(p)
  BY <1>2, <1>3, <1>4 DEF Local, FilesOf
<1> QED BY <1>3, <1>6, <1>7, <1>8, <1>9, <1>10, <1>11, <1>12 DEF ProcInv

LEMMA Step_downgraded ==
  ASSUME IInv, SerialClose, NEW p \in Process, NEW f \in File,
         downgraded(p, f)
  PROVE  TypeOK' /\ KernelInv' /\ ProcInv(p)' /\ Local(p)
<1> USE DEF NO_LOCK, SHARED_LOCK, RESERVED_LOCK, PENDING_LOCK, EXCLUSIVE_LOCK
<1>1. /\ TypeOK /\ KernelInv /\ Counted(p) /\ Highest(p) /\ Backed(p) /\ InCall(p)
      /\ Closed(p) /\ Typed(p)
  BY TypedParts DEF IInv, ProcInv
<1>2. /\ f \in FilesOf(p)
      /\ At(p, f, "downgraded")
      /\ file[f].eFileLock > SHARED_LOCK
      /\ inode[p].eFileLock = file[f].eFileLock
      /\ posix[p]["SHARED"] = "F_RDLCK"
  <2>1. At(p, f, "downgraded") /\ "downgraded" \in Pcs BY DEF downgraded, Pcs
  <2>2. f \in FilesOf(p) /\ WhereFacts(p, f, "downgraded") BY <1>1, <2>1, WhereAt
  <2> QED BY <2>1, <2>2 DEF WhereFacts
<1>3. /\ KernelInv'
      /\ posix' \in [Process -> [Byte -> {"F_UNLCK", "F_RDLCK", "F_WRLCK"}]]
      /\ \A b \in Byte : posix'[p][b] = IF b \in {"PENDING", "RESERVED"} THEN "F_UNLCK" ELSE posix[p][b]
      /\ \A q \in Process \ {p} : posix'[q] = posix[q]
  <2>1. Fcntl(p, {"PENDING", "RESERVED"}, "F_UNLCK")
    BY <1>2 DEF downgraded
  <2>3. {"PENDING", "RESERVED"} \in SUBSET Byte BY DEF Byte
  <2> QED BY <1>1, <2>1, <2>3, KernelStep
<1>4. /\ file'[f].eFileLock = SHARED_LOCK
      /\ file'[f].state = file[f].state
      /\ \A g \in File \ {f} : file'[g] = file[g]
      /\ inode'[p].eFileLock = SHARED_LOCK
      /\ inode'[p].nShared = inode[p].nShared
      /\ inode'[p].nLock = inode[p].nLock
      /\ inode'[p].pUnused = inode[p].pUnused
      /\ \A q \in Process \ {p} : inode'[q] = inode[q]
      /\ call'[p] = Idle
      /\ \A q \in Process \ {p} : call'[q] = call[q]
  BY <1>1, <1>2 DEF downgraded, Goto, Return, SetFile, SetInode,
     GrantExclusive, ReleaseShared, LastShared, TypeOK
<1>5. Readers(p)' = Readers(p)
  BY <1>1, <1>2, <1>4, ReadersSame DEF FilesOf, Typed
<1>6. TypeOK'
  <2>1. file' \in [File -> [state : {"closed", "open", "closing", "close_fd"},
                          eFileLock : NO_LOCK .. EXCLUSIVE_LOCK]]
    BY <1>1, <1>2 DEF downgraded, SetFile, GrantExclusive, ReleaseShared, TypeOK
  <2>2. inode' \in [Process -> [eFileLock : NO_LOCK .. EXCLUSIVE_LOCK,
                           nShared : Nat, nLock : Nat, pUnused : Nat]]
    BY <1>1, <1>2 DEF downgraded, SetInode, GrantExclusive, ReleaseShared,
     LastShared, TypeOK
  <2>3. posix' \in [Process -> [Byte -> {"F_UNLCK", "F_RDLCK", "F_WRLCK"}]]
    BY <1>1, <1>3 DEF TypeOK
  <2>4. call' \in [Process -> {Idle} \cup [pc : Pcs, file : File]]
    BY <1>1, <1>2 DEF downgraded, Goto, Return, TypeOK, Pcs
  <2> QED BY <2>1, <2>2, <2>3, <2>4 DEF TypeOK
<1>7. Counted(p)'
  BY <1>1, <1>2, <1>4, <1>5, ReadersFinite DEF Counted, Typed
<1>8. Highest(p)'
  <2>1. \A g \in FilesOf(p) : g \in File BY DEF FilesOf
  <2>2. \A g : ~At(p, g, "unlock_shared") BY <1>2, NotAt DEF Pcs
  <2>3. inode'[p].eFileLock > SHARED_LOCK =>
         \E g \in FilesOf(p) : file'[g].eFileLock = inode'[p].eFileLock
    BY <1>1, <1>2, <1>4, <2>1, <2>2 DEF Highest, Typed
  <2>4. ASSUME NEW g \in FilesOf(p), file'[g].eFileLock > SHARED_LOCK
        PROVE  /\ inode'[p].eFileLock = file'[g].eFileLock \/ At(p, g, "unlock_shared")'
               /\ \A h \in FilesOf(p) \ {g} : file'[h].eFileLock <= SHARED_LOCK
    <3>1. CASE g = f
      BY <1>1, <1>2, <1>4, <2>1, <2>2, <2>4, <3>1 DEF Highest, Typed
    <3>2. CASE g # f
      BY <1>1, <1>2, <1>4, <2>1, <2>2, <2>4, <3>2 DEF Highest, Typed
    <3> QED BY <3>1, <3>2
  <2>5. ASSUME NEW g \in FilesOf(p), file'[g].eFileLock = EXCLUSIVE_LOCK
        PROVE  \A h \in FilesOf(p) \ {g} : file'[h].eFileLock = NO_LOCK
    <3>1. CASE g = f
      BY <1>1, <1>2, <1>4, <2>1, <2>2, <2>5, <3>1 DEF Highest, Typed
    <3>2. CASE g # f
      BY <1>1, <1>2, <1>4, <2>1, <2>2, <2>5, <3>2 DEF Highest, Typed
    <3> QED BY <3>1, <3>2
  <2> QED BY <2>3, <2>4, <2>5 DEF Highest, FilesOf
<1>9. Backed(p)'
  BY <1>1, <1>2, <1>3, <1>4 DEF Backed, TypeOK, Byte, At, Idle, LastShared
<1>10. InCall(p)'
  BY <1>1, <1>2, <1>3, <1>4 DEF InCall, TypeOK, Byte, At
<1>11. Closed(p)'
  BY <1>1, <1>2, <1>4, <1>5, ReadersFinite DEF Closed, Closing, Counted,
     FilesOf, Readers, TypeOK, At, Idle
<1>12. Local(p)
  BY <1>2, <1>3, <1>4 DEF Local, FilesOf
<1> QED BY <1>3, <1>6, <1>7, <1>8, <1>9, <1>10, <1>11, <1>12 DEF ProcInv

LEMMA Step_unlock_high ==
  ASSUME IInv, SerialClose, NEW p \in Process, NEW f \in File,
         unlock(p, f),
         file[f].eFileLock > SHARED_LOCK
  PROVE  TypeOK' /\ KernelInv' /\ ProcInv(p)' /\ Local(p)
<1> USE DEF NO_LOCK, SHARED_LOCK, RESERVED_LOCK, PENDING_LOCK, EXCLUSIVE_LOCK
<1>1. /\ TypeOK /\ KernelInv /\ Counted(p) /\ Highest(p) /\ Backed(p) /\ InCall(p)
      /\ Closed(p) /\ Typed(p)
  BY TypedParts DEF IInv, ProcInv
<1>2. /\ f \in FilesOf(p)
      /\ call[p] = Idle
      /\ ~Closing(p)
      /\ file[f].state = "open"
      /\ file[f].eFileLock > SHARED_LOCK
      /\ inode[p].eFileLock = file[f].eFileLock
  <2>1. f \in FilesOf(p) /\ call[p] = Idle
    BY DEF unlock, CanCall, FilesOf
  <2>2. \A g : ~At(p, g, "unlock_shared") BY <2>1, NotAt DEF Pcs
  <2> QED
    BY <1>1, <2>1, <2>2 DEF unlock, CanCall, NotPrecluded, Counted, Highest,
     Readers, Typed
<1>3. /\ KernelInv'
      /\ posix' \in [Process -> [Byte -> {"F_UNLCK", "F_RDLCK", "F_WRLCK"}]]
      /\ \A b \in Byte : posix'[p][b] = IF b \in {"PENDING", "RESERVED"} THEN "F_UNLCK" ELSE posix[p][b]
      /\ \A q \in Process \ {p} : posix'[q] = posix[q]
  <2>1. Fcntl(p, {"PENDING", "RESERVED"}, "F_UNLCK")
    BY <1>2 DEF unlock
  <2>3. {"PENDING", "RESERVED"} \in SUBSET Byte BY DEF Byte
  <2> QED BY <1>1, <2>1, <2>3, KernelStep
<1>4. /\ file'[f].eFileLock = file[f].eFileLock
      /\ file'[f].state \in {"open", "closing"}
      /\ \A g \in File \ {f} : file'[g] = file[g]
      /\ inode'[p].eFileLock = SHARED_LOCK
      /\ inode'[p].nShared = inode[p].nShared
      /\ inode'[p].nLock = inode[p].nLock
      /\ inode'[p].pUnused = inode[p].pUnused
      /\ \A q \in Process \ {p} : inode'[q] = inode[q]
      /\ call'[p] = [pc |-> "unlock_shared", file |-> f]
      /\ \A q \in Process \ {p} : call'[q] = call[q]
  BY <1>1, <1>2 DEF unlock, Goto, Return, SetFile, SetInode, GrantExclusive,
     ReleaseShared, LastShared, TypeOK
<1>5. Readers(p)' = Readers(p)
  BY <1>1, <1>2, <1>4, ReadersSame DEF FilesOf, Typed
<1>6. TypeOK'
  <2>1. file' \in [File -> [state : {"closed", "open", "closing", "close_fd"},
                          eFileLock : NO_LOCK .. EXCLUSIVE_LOCK]]
      <3>1. PICK state \in {"open", "closing"} : file' = [file EXCEPT ![f].state = state]
      BY <1>2 DEF unlock
    <3> QED BY <1>1, <3>1 DEF TypeOK
  <2>2. inode' \in [Process -> [eFileLock : NO_LOCK .. EXCLUSIVE_LOCK,
                           nShared : Nat, nLock : Nat, pUnused : Nat]]
    <3> DEFINE I == [eFileLock : NO_LOCK .. EXCLUSIVE_LOCK,
                     nShared : Nat, nLock : Nat, pUnused : Nat]
    <3>1. inode \in [Process -> I] BY <1>1 DEF TypeOK
    <3>2. [inode[p] EXCEPT !.eFileLock = SHARED_LOCK] \in I BY <3>1
    <3>3. inode' = [inode EXCEPT ![p] = [inode[p] EXCEPT !.eFileLock = SHARED_LOCK]]
      BY DEF unlock, SetInode
    <3> HIDE DEF I
    <3>4. inode' \in [Process -> I] BY <3>1, <3>2, <3>3
    <3> QED BY <3>4 DEF I
  <2>3. posix' \in [Process -> [Byte -> {"F_UNLCK", "F_RDLCK", "F_WRLCK"}]]
    BY <1>1, <1>3 DEF TypeOK
  <2>4. call' \in [Process -> {Idle} \cup [pc : Pcs, file : File]]
    BY <1>1, <1>2 DEF unlock, Goto, Return, TypeOK, Pcs
  <2> QED BY <2>1, <2>2, <2>3, <2>4 DEF TypeOK
<1>7. Counted(p)'
  BY <1>1, <1>2, <1>4, <1>5, ReadersFinite DEF Counted, Typed
<1>8. Highest(p)'
  <2>1. \A g \in FilesOf(p) : g \in File BY DEF FilesOf
  <2>2. \A g : ~At(p, g, "unlock_shared") BY <1>2, NotAt DEF Pcs
  <2>3. inode'[p].eFileLock > SHARED_LOCK =>
         \E g \in FilesOf(p) : file'[g].eFileLock = inode'[p].eFileLock
    BY <1>1, <1>2, <1>4, <2>1, <2>2 DEF Highest, Typed, At
  <2>4. ASSUME NEW g \in FilesOf(p), file'[g].eFileLock > SHARED_LOCK
        PROVE  /\ inode'[p].eFileLock = file'[g].eFileLock \/ At(p, g, "unlock_shared")'
               /\ \A h \in FilesOf(p) \ {g} : file'[h].eFileLock <= SHARED_LOCK
    <3>1. CASE g = f
      BY <1>1, <1>2, <1>4, <2>1, <2>2, <2>4, <3>1 DEF Highest, Typed, At
    <3>2. CASE g # f
      BY <1>1, <1>2, <1>4, <2>1, <2>2, <2>4, <3>2 DEF Highest, Typed, At
    <3> QED BY <3>1, <3>2
  <2>5. ASSUME NEW g \in FilesOf(p), file'[g].eFileLock = EXCLUSIVE_LOCK
        PROVE  \A h \in FilesOf(p) \ {g} : file'[h].eFileLock = NO_LOCK
    <3>1. CASE g = f
      BY <1>1, <1>2, <1>4, <2>1, <2>2, <2>5, <3>1 DEF Highest, Typed, At
    <3>2. CASE g # f
      BY <1>1, <1>2, <1>4, <2>1, <2>2, <2>5, <3>2 DEF Highest, Typed, At
    <3> QED BY <3>1, <3>2
  <2> QED BY <2>3, <2>4, <2>5 DEF Highest, FilesOf
<1>9. Backed(p)'
  BY <1>1, <1>2, <1>3, <1>4 DEF Backed, TypeOK, Byte, At, Idle, LastShared
<1>10. InCall(p)'
  BY <1>1, <1>2, <1>3, <1>4 DEF InCall, TypeOK, Byte, At
<1>11. Closed(p)'
  BY <1>1, <1>2, <1>4, <1>5, ReadersFinite DEF Closed, Closing, Counted,
     FilesOf, Readers, TypeOK, At, Idle
<1>12. Local(p)
  BY <1>2, <1>3, <1>4 DEF Local, FilesOf
<1> QED BY <1>3, <1>6, <1>7, <1>8, <1>9, <1>10, <1>11, <1>12 DEF ProcInv

LEMMA Step_unlock_low ==
  ASSUME IInv, SerialClose, NEW p \in Process, NEW f \in File,
         unlock(p, f),
         ~(file[f].eFileLock > SHARED_LOCK)
  PROVE  TypeOK' /\ KernelInv' /\ ProcInv(p)' /\ Local(p)
<1> USE DEF NO_LOCK, SHARED_LOCK, RESERVED_LOCK, PENDING_LOCK, EXCLUSIVE_LOCK
<1>1. /\ TypeOK /\ KernelInv /\ Counted(p) /\ Highest(p) /\ Backed(p) /\ InCall(p)
      /\ Closed(p) /\ Typed(p)
  BY TypedParts DEF IInv, ProcInv
<1>2. /\ f \in FilesOf(p)
      /\ call[p] = Idle
      /\ ~Closing(p)
      /\ file[f].state = "open"
      /\ file[f].eFileLock = SHARED_LOCK
  <2>1. f \in FilesOf(p) /\ call[p] = Idle
    BY DEF unlock, CanCall, FilesOf
  <2>2. \A g : ~At(p, g, "unlock_shared") BY <2>1, NotAt DEF Pcs
  <2> QED
    BY <1>1, <2>1, <2>2 DEF unlock, CanCall, NotPrecluded, Counted, Highest,
     Readers, Typed
<1>3. /\ KernelInv'
      /\ posix' \in [Process -> [Byte -> {"F_UNLCK", "F_RDLCK", "F_WRLCK"}]]
      /\ \A b \in Byte : posix'[p][b] = IF b \in (IF LastShared(p) THEN Byte ELSE {}) THEN "F_UNLCK" ELSE posix[p][b]
      /\ \A q \in Process \ {p} : posix'[q] = posix[q]
  <2>1. Fcntl(p, (IF LastShared(p) THEN Byte ELSE {}), "F_UNLCK")
    BY <1>2 DEF unlock
  <2>3. (IF LastShared(p) THEN Byte ELSE {}) \in SUBSET Byte BY DEF Byte
  <2> QED BY <1>1, <2>1, <2>3, KernelStep
<1>4. /\ file'[f].eFileLock = NO_LOCK
      /\ file'[f].state \in {"open", "closing"}
      /\ \A g \in File \ {f} : file'[g] = file[g]
      /\ inode'[p].eFileLock = (IF inode[p].nShared = 1 THEN NO_LOCK ELSE inode[p].eFileLock)
      /\ inode'[p].nShared = inode[p].nShared - 1
      /\ inode'[p].nLock = inode[p].nLock - 1
      /\ inode'[p].pUnused = (IF inode[p].nLock = 1 THEN 0 ELSE inode[p].pUnused)
      /\ \A q \in Process \ {p} : inode'[q] = inode[q]
      /\ call'[p] = call[p]
      /\ \A q \in Process \ {p} : call'[q] = call[q]
  BY <1>1, <1>2 DEF unlock, Goto, Return, SetFile, SetInode, GrantExclusive,
     ReleaseShared, LastShared, TypeOK
<1>5. /\ Readers(p)' = Readers(p) \ {f}
      /\ Cardinality(Readers(p)') = Cardinality(Readers(p)) - 1
      /\ Cardinality(Readers(p)) = 1 => Readers(p) = {f}
      /\ Cardinality(Readers(p)) > 0
  BY <1>1, <1>2, <1>4, ReadersRemoved DEF FilesOf, Typed
<1>6. TypeOK'
  <2> PICK state \in {"open", "closing"} : ReleaseShared(p, f, state)
    BY DEF unlock
  <2>1. file' \in [File -> [state : {"closed", "open", "closing", "close_fd"},
                          eFileLock : NO_LOCK .. EXCLUSIVE_LOCK]]
    BY <1>1 DEF ReleaseShared, TypeOK
  <2>2. inode' \in [Process -> [eFileLock : NO_LOCK .. EXCLUSIVE_LOCK,
                           nShared : Nat, nLock : Nat, pUnused : Nat]]
    <3>1. inode[p].nShared > 0 /\ inode[p].nLock > 0 BY <1>1, <1>5, ReadersFinite DEF Counted
    <3>2. inode[p].nShared - 1 \in Nat /\ inode[p].nLock - 1 \in Nat
      BY <1>1, <3>1 DEF TypeOK
    <3> QED
      BY <1>1, <3>2 DEF ReleaseShared, LastShared, TypeOK
  <2>3. posix' \in [Process -> [Byte -> {"F_UNLCK", "F_RDLCK", "F_WRLCK"}]]
    BY <1>1, <1>3 DEF TypeOK
  <2>4. call' \in [Process -> {Idle} \cup [pc : Pcs, file : File]]
    BY <1>1, <1>2 DEF unlock, Goto, Return, TypeOK, Pcs
  <2> QED BY <2>1, <2>2, <2>3, <2>4 DEF TypeOK
<1>7. Counted(p)'
  <2>1. Readers(p)' = {} <=> Cardinality(Readers(p)') = 0
    BY <1>5, ReadersFinite, FS_Subset, FS_EmptySet
  <2>2. inode[p].eFileLock # NO_LOCK BY <1>1, <1>5, ReadersFinite DEF Counted
  <2> QED
    BY <1>1, <1>4, <1>5, <2>1, <2>2, ReadersFinite DEF Counted, Typed
<1>8. Highest(p)'
  <2>1. \A g \in FilesOf(p) : g \in File BY DEF FilesOf
  <2>2. \A g : ~At(p, g, "unlock_shared") BY <1>2, NotAt DEF Pcs
  <2>3. inode'[p].eFileLock > SHARED_LOCK =>
         \E g \in FilesOf(p) : file'[g].eFileLock = inode'[p].eFileLock
    BY <1>1, <1>2, <1>4, <2>1, <2>2 DEF Highest, Typed, Readers, Counted
  <2>4. ASSUME NEW g \in FilesOf(p), file'[g].eFileLock > SHARED_LOCK
        PROVE  /\ inode'[p].eFileLock = file'[g].eFileLock \/ At(p, g, "unlock_shared")'
               /\ \A h \in FilesOf(p) \ {g} : file'[h].eFileLock <= SHARED_LOCK
    <3>1. CASE g = f
      BY <1>1, <1>2, <1>4, <2>1, <2>2, <2>4, <3>1, <1>5 DEF Highest, Typed,
     Readers, Counted
    <3>2. CASE g # f
      BY <1>1, <1>2, <1>4, <2>1, <2>2, <2>4, <3>2, <1>5 DEF Highest, Typed,
     Readers, Counted
    <3> QED BY <3>1, <3>2
  <2>5. ASSUME NEW g \in FilesOf(p), file'[g].eFileLock = EXCLUSIVE_LOCK
        PROVE  \A h \in FilesOf(p) \ {g} : file'[h].eFileLock = NO_LOCK
    <3>1. CASE g = f
      BY <1>1, <1>2, <1>4, <2>1, <2>2, <2>5, <3>1 DEF Highest, Typed, Readers,
     Counted
    <3>2. CASE g # f
      BY <1>1, <1>2, <1>4, <2>1, <2>2, <2>5, <3>2 DEF Highest, Typed, Readers,
     Counted
    <3> QED BY <3>1, <3>2
  <2> QED BY <2>3, <2>4, <2>5 DEF Highest, FilesOf
<1>9. Backed(p)'
  BY <1>1, <1>2, <1>3, <1>4 DEF Backed, TypeOK, Byte, At, Idle, LastShared
<1>10. InCall(p)'
  BY <1>1, <1>2, <1>3, <1>4 DEF InCall, TypeOK, Byte, At
<1>11. Closed(p)'
  BY <1>1, <1>2, <1>4, <1>5, ReadersFinite DEF Closed, Closing, Counted,
     FilesOf, Readers, TypeOK, At, Idle
<1>12. Local(p)
  BY <1>2, <1>3, <1>4 DEF Local, FilesOf
<1> QED BY <1>3, <1>6, <1>7, <1>8, <1>9, <1>10, <1>11, <1>12 DEF ProcInv

LEMMA Step_unlock_shared ==
  ASSUME IInv, SerialClose, NEW p \in Process, NEW f \in File,
         unlock_shared(p, f)
  PROVE  TypeOK' /\ KernelInv' /\ ProcInv(p)' /\ Local(p)
<1> USE DEF NO_LOCK, SHARED_LOCK, RESERVED_LOCK, PENDING_LOCK, EXCLUSIVE_LOCK
<1>1. /\ TypeOK /\ KernelInv /\ Counted(p) /\ Highest(p) /\ Backed(p) /\ InCall(p)
      /\ Closed(p) /\ Typed(p)
  BY TypedParts DEF IInv, ProcInv
<1>2. /\ f \in FilesOf(p)
      /\ At(p, f, "unlock_shared")
      /\ file[f].eFileLock > SHARED_LOCK
      /\ inode[p].eFileLock = SHARED_LOCK
  <2>1. At(p, f, "unlock_shared") /\ "unlock_shared" \in Pcs BY DEF unlock_shared, Pcs
  <2>2. f \in FilesOf(p) /\ WhereFacts(p, f, "unlock_shared") BY <1>1, <2>1, WhereAt
  <2> QED BY <2>1, <2>2 DEF WhereFacts
<1>3. /\ KernelInv'
      /\ posix' \in [Process -> [Byte -> {"F_UNLCK", "F_RDLCK", "F_WRLCK"}]]
      /\ \A b \in Byte : posix'[p][b] = IF b \in (IF LastShared(p) THEN Byte ELSE {}) THEN "F_UNLCK" ELSE posix[p][b]
      /\ \A q \in Process \ {p} : posix'[q] = posix[q]
  <2>1. Fcntl(p, (IF LastShared(p) THEN Byte ELSE {}), "F_UNLCK")
    BY <1>2 DEF unlock_shared
  <2>3. (IF LastShared(p) THEN Byte ELSE {}) \in SUBSET Byte BY DEF Byte
  <2> QED BY <1>1, <2>1, <2>3, KernelStep
<1>4. /\ file'[f].eFileLock = NO_LOCK
      /\ file'[f].state = file[f].state
      /\ \A g \in File \ {f} : file'[g] = file[g]
      /\ inode'[p].eFileLock = (IF inode[p].nShared = 1 THEN NO_LOCK ELSE inode[p].eFileLock)
      /\ inode'[p].nShared = inode[p].nShared - 1
      /\ inode'[p].nLock = inode[p].nLock - 1
      /\ inode'[p].pUnused = (IF inode[p].nLock = 1 THEN 0 ELSE inode[p].pUnused)
      /\ \A q \in Process \ {p} : inode'[q] = inode[q]
      /\ call'[p] = Idle
      /\ \A q \in Process \ {p} : call'[q] = call[q]
  BY <1>1, <1>2 DEF unlock_shared, Goto, Return, SetFile, SetInode,
     GrantExclusive, ReleaseShared, LastShared, TypeOK
<1>5. /\ Readers(p)' = Readers(p) \ {f}
      /\ Cardinality(Readers(p)') = Cardinality(Readers(p)) - 1
      /\ Cardinality(Readers(p)) = 1 => Readers(p) = {f}
      /\ Cardinality(Readers(p)) > 0
  BY <1>1, <1>2, <1>4, ReadersRemoved DEF FilesOf, Typed
<1>6. TypeOK'
  <2>1. file' \in [File -> [state : {"closed", "open", "closing", "close_fd"},
                          eFileLock : NO_LOCK .. EXCLUSIVE_LOCK]]
    BY <1>1, <1>2 DEF unlock_shared, SetFile, GrantExclusive, ReleaseShared,
     TypeOK
  <2>2. inode' \in [Process -> [eFileLock : NO_LOCK .. EXCLUSIVE_LOCK,
                           nShared : Nat, nLock : Nat, pUnused : Nat]]
    <3>1. inode[p].nShared > 0 /\ inode[p].nLock > 0 BY <1>1, <1>5, ReadersFinite DEF Counted
    <3> QED
      BY <1>1, <1>2, <3>1 DEF unlock_shared, SetInode, ReleaseShared, LastShared,
     TypeOK
  <2>3. posix' \in [Process -> [Byte -> {"F_UNLCK", "F_RDLCK", "F_WRLCK"}]]
    BY <1>1, <1>3 DEF TypeOK
  <2>4. call' \in [Process -> {Idle} \cup [pc : Pcs, file : File]]
    BY <1>1, <1>2 DEF unlock_shared, Goto, Return, TypeOK, Pcs
  <2> QED BY <2>1, <2>2, <2>3, <2>4 DEF TypeOK
<1>7. Counted(p)'
  <2>1. Readers(p)' = {} <=> Cardinality(Readers(p)') = 0
    BY <1>5, ReadersFinite, FS_Subset, FS_EmptySet
  <2>2. inode[p].eFileLock # NO_LOCK BY <1>1, <1>5, ReadersFinite DEF Counted
  <2> QED
    BY <1>1, <1>4, <1>5, <2>1, <2>2, ReadersFinite DEF Counted, Typed
<1>8. Highest(p)'
  <2>1. \A g \in FilesOf(p) : g \in File BY DEF FilesOf
  <2>2. \A g : At(p, g, "unlock_shared") => g = f BY <1>2, NotAt
  <2>3. inode'[p].eFileLock > SHARED_LOCK =>
         \E g \in FilesOf(p) : file'[g].eFileLock = inode'[p].eFileLock
    BY <1>1, <1>2, <1>4, <2>1, <2>2 DEF Highest, Typed, Readers, Counted
  <2>4. ASSUME NEW g \in FilesOf(p), file'[g].eFileLock > SHARED_LOCK
        PROVE  /\ inode'[p].eFileLock = file'[g].eFileLock \/ At(p, g, "unlock_shared")'
               /\ \A h \in FilesOf(p) \ {g} : file'[h].eFileLock <= SHARED_LOCK
    <3>1. CASE g = f
      BY <1>1, <1>2, <1>4, <2>1, <2>2, <2>4, <3>1, <1>5 DEF Highest, Typed,
     Readers, Counted
    <3>2. CASE g # f
      BY <1>1, <1>2, <1>4, <2>1, <2>2, <2>4, <3>2, <1>5 DEF Highest, Typed,
     Readers, Counted
    <3> QED BY <3>1, <3>2
  <2>5. ASSUME NEW g \in FilesOf(p), file'[g].eFileLock = EXCLUSIVE_LOCK
        PROVE  \A h \in FilesOf(p) \ {g} : file'[h].eFileLock = NO_LOCK
    <3>1. CASE g = f
      BY <1>1, <1>2, <1>4, <2>1, <2>2, <2>5, <3>1 DEF Highest, Typed, Readers,
     Counted
    <3>2. CASE g # f
      BY <1>1, <1>2, <1>4, <2>1, <2>2, <2>5, <3>2 DEF Highest, Typed, Readers,
     Counted
    <3> QED BY <3>1, <3>2
  <2> QED BY <2>3, <2>4, <2>5 DEF Highest, FilesOf
<1>9. Backed(p)'
  BY <1>1, <1>2, <1>3, <1>4 DEF Backed, TypeOK, Byte, At, Idle, LastShared
<1>10. InCall(p)'
  BY <1>1, <1>2, <1>3, <1>4 DEF InCall, TypeOK, Byte, At
<1>11. Closed(p)'
  BY <1>1, <1>2, <1>4, <1>5, ReadersFinite DEF Closed, Closing, Counted,
     FilesOf, Readers, TypeOK, At, Idle
<1>12. Local(p)
  BY <1>2, <1>3, <1>4 DEF Local, FilesOf
<1> QED BY <1>3, <1>6, <1>7, <1>8, <1>9, <1>10, <1>11, <1>12 DEF ProcInv

LEMMA Step_unixClose ==
  ASSUME IInv, SerialClose, NEW p \in Process, NEW f \in File,
         unixClose(p, f)
  PROVE  TypeOK' /\ KernelInv' /\ ProcInv(p)' /\ Local(p)
<1> USE DEF NO_LOCK, SHARED_LOCK, RESERVED_LOCK, PENDING_LOCK, EXCLUSIVE_LOCK
<1>1. /\ TypeOK /\ KernelInv /\ Counted(p) /\ Highest(p) /\ Backed(p) /\ InCall(p)
      /\ Closed(p) /\ Typed(p)
  BY TypedParts DEF IInv, ProcInv
<1>2. /\ f \in FilesOf(p)
      /\ call[p] = Idle
      /\ ~Closing(p)
      /\ file[f].state = "open"
      /\ file[f].eFileLock = NO_LOCK
  <2>1. f \in FilesOf(p) /\ call[p] = Idle
    BY DEF unixClose, CanCall, FilesOf
  <2>2. \A g : ~At(p, g, "unlock_shared") BY <2>1, NotAt DEF Pcs
  <2> QED
    BY <1>1, <2>1, <2>2 DEF unixClose, CanCall, NotPrecluded, Counted, Highest,
     Readers, Typed
<1>3. posix' = posix /\ KernelInv'
  BY <1>1 DEF unixClose, KernelInv
<1>4. /\ file'[f].eFileLock = NO_LOCK
      /\ file'[f].state = "closing"
      /\ \A g \in File \ {f} : file'[g] = file[g]
      /\ inode' = inode
      /\ call'[p] = call[p]
      /\ \A q \in Process \ {p} : call'[q] = call[q]
  BY <1>1, <1>2 DEF unixClose, Goto, Return, SetFile, SetInode, GrantExclusive,
     ReleaseShared, LastShared, TypeOK
<1>5. Readers(p)' = Readers(p)
  BY <1>1, <1>2, <1>4, ReadersSame DEF FilesOf, Typed
<1>6. TypeOK'
  <2>1. file' \in [File -> [state : {"closed", "open", "closing", "close_fd"},
                          eFileLock : NO_LOCK .. EXCLUSIVE_LOCK]]
    BY <1>1, <1>2 DEF unixClose, SetFile, GrantExclusive, ReleaseShared, TypeOK
  <2>2. inode' \in [Process -> [eFileLock : NO_LOCK .. EXCLUSIVE_LOCK,
                           nShared : Nat, nLock : Nat, pUnused : Nat]]
    BY <1>1, <1>2 DEF unixClose, SetInode, GrantExclusive, ReleaseShared,
     LastShared, TypeOK
  <2>3. posix' \in [Process -> [Byte -> {"F_UNLCK", "F_RDLCK", "F_WRLCK"}]]
    BY <1>1, <1>3 DEF TypeOK
  <2>4. call' \in [Process -> {Idle} \cup [pc : Pcs, file : File]]
    BY <1>1, <1>2 DEF unixClose, Goto, Return, TypeOK, Pcs
  <2> QED BY <2>1, <2>2, <2>3, <2>4 DEF TypeOK
<1>7. Counted(p)'
  BY <1>1, <1>2, <1>4, <1>5, ReadersFinite DEF Counted, Typed
<1>8. Highest(p)'
  <2>1. \A g \in FilesOf(p) : g \in File BY DEF FilesOf
  <2>2. \A g : ~At(p, g, "unlock_shared") BY <1>2, NotAt DEF Pcs
  <2>3. inode'[p].eFileLock > SHARED_LOCK =>
         \E g \in FilesOf(p) : file'[g].eFileLock = inode'[p].eFileLock
    BY <1>1, <1>2, <1>4, <2>1, <2>2 DEF Highest, Typed
  <2>4. ASSUME NEW g \in FilesOf(p), file'[g].eFileLock > SHARED_LOCK
        PROVE  /\ inode'[p].eFileLock = file'[g].eFileLock \/ At(p, g, "unlock_shared")'
               /\ \A h \in FilesOf(p) \ {g} : file'[h].eFileLock <= SHARED_LOCK
    <3>1. CASE g = f
      BY <1>1, <1>2, <1>4, <2>1, <2>2, <2>4, <3>1 DEF Highest, Typed
    <3>2. CASE g # f
      BY <1>1, <1>2, <1>4, <2>1, <2>2, <2>4, <3>2 DEF Highest, Typed
    <3> QED BY <3>1, <3>2
  <2>5. ASSUME NEW g \in FilesOf(p), file'[g].eFileLock = EXCLUSIVE_LOCK
        PROVE  \A h \in FilesOf(p) \ {g} : file'[h].eFileLock = NO_LOCK
    <3>1. CASE g = f
      BY <1>1, <1>2, <1>4, <2>1, <2>2, <2>5, <3>1 DEF Highest, Typed
    <3>2. CASE g # f
      BY <1>1, <1>2, <1>4, <2>1, <2>2, <2>5, <3>2 DEF Highest, Typed
    <3> QED BY <3>1, <3>2
  <2> QED BY <2>3, <2>4, <2>5 DEF Highest, FilesOf
<1>9. Backed(p)'
  BY <1>1, <1>2, <1>3, <1>4 DEF Backed, TypeOK, Byte, At, Idle, LastShared
<1>10. InCall(p)'
  BY <1>1, <1>2, <1>3, <1>4 DEF InCall, TypeOK, Byte, At
<1>11. Closed(p)'
  BY <1>1, <1>2, <1>4, <1>5, ReadersFinite DEF Closed, Closing, Counted,
     FilesOf, Readers, TypeOK, At, Idle
<1>12. Local(p)
  BY <1>2, <1>3, <1>4 DEF Local, FilesOf
<1> QED BY <1>3, <1>6, <1>7, <1>8, <1>9, <1>10, <1>11, <1>12 DEF ProcInv

LEMMA Step_close_later ==
  ASSUME IInv, SerialClose, NEW p \in Process, NEW f \in File,
         close_check(p, f),
         inode[p].nLock > 0
  PROVE  TypeOK' /\ KernelInv' /\ ProcInv(p)' /\ Local(p)
<1> USE DEF NO_LOCK, SHARED_LOCK, RESERVED_LOCK, PENDING_LOCK, EXCLUSIVE_LOCK
<1>1. /\ TypeOK /\ KernelInv /\ Counted(p) /\ Highest(p) /\ Backed(p) /\ InCall(p)
      /\ Closed(p) /\ Typed(p)
  BY TypedParts DEF IInv, ProcInv
<1>2. /\ f \in FilesOf(p)
      /\ call[p] = Idle
      /\ ~Closing(p)
      /\ inode[p].nLock > 0
      /\ file[f].state = "closing"
      /\ file[f].eFileLock = NO_LOCK
  <2>1. f \in FilesOf(p) /\ call[p] = Idle
    BY DEF close_check, CanCall, FilesOf
  <2>2. \A g : ~At(p, g, "unlock_shared") BY <2>1, NotAt DEF Pcs
  <2> QED
    BY <1>1, <2>1, <2>2 DEF close_check, CanCall, NotPrecluded, Counted, Highest,
     Readers, Typed
<1>3. posix' = posix /\ KernelInv'
  BY <1>1 DEF close_check, KernelInv
<1>4. /\ file'[f].eFileLock = NO_LOCK
      /\ file'[f].state = "closed"
      /\ \A g \in File \ {f} : file'[g] = file[g]
      /\ inode'[p].eFileLock = inode[p].eFileLock
      /\ inode'[p].nShared = inode[p].nShared
      /\ inode'[p].nLock = inode[p].nLock
      /\ inode'[p].pUnused = inode[p].pUnused + 1
      /\ \A q \in Process \ {p} : inode'[q] = inode[q]
      /\ call'[p] = call[p]
      /\ \A q \in Process \ {p} : call'[q] = call[q]
  <2>1. inode' = [inode EXCEPT ![p].pUnused = inode[p].pUnused + 1] /\ call' = call
    BY <1>2 DEF close_check
  <2>2. file' = [file EXCEPT ![f].state = "closed"] BY <1>2 DEF close_check
  <2> QED BY <1>1, <1>2, <2>1, <2>2 DEF TypeOK
<1>5. Readers(p)' = Readers(p)
  BY <1>1, <1>2, <1>4, ReadersSame DEF FilesOf, Typed
<1>6. TypeOK'
  <2>1. file' \in [File -> [state : {"closed", "open", "closing", "close_fd"},
                          eFileLock : NO_LOCK .. EXCLUSIVE_LOCK]]
    BY <1>1, <1>2 DEF close_check, SetFile, GrantExclusive, ReleaseShared, TypeOK
  <2>2. inode' \in [Process -> [eFileLock : NO_LOCK .. EXCLUSIVE_LOCK,
                           nShared : Nat, nLock : Nat, pUnused : Nat]]
    <3> DEFINE I == [eFileLock : NO_LOCK .. EXCLUSIVE_LOCK,
                     nShared : Nat, nLock : Nat, pUnused : Nat]
    <3>1. inode \in [Process -> I] BY <1>1 DEF TypeOK
    <3>2. [inode[p] EXCEPT !.pUnused = @ + 1] \in I BY <3>1
    <3>3. inode' = [inode EXCEPT ![p] = [inode[p] EXCEPT !.pUnused = @ + 1]]
      BY DEF close_check, SetInode
    <3> HIDE DEF I
    <3>4. inode' \in [Process -> I] BY <3>1, <3>2, <3>3
    <3> QED BY <3>4 DEF I
  <2>3. posix' \in [Process -> [Byte -> {"F_UNLCK", "F_RDLCK", "F_WRLCK"}]]
    BY <1>1, <1>3 DEF TypeOK
  <2>4. call' \in [Process -> {Idle} \cup [pc : Pcs, file : File]]
    BY <1>1, <1>2 DEF close_check, Goto, Return, TypeOK, Pcs
  <2> QED BY <2>1, <2>2, <2>3, <2>4 DEF TypeOK
<1>7. Counted(p)'
  BY <1>1, <1>2, <1>4, <1>5, ReadersFinite DEF Counted, Typed
<1>8. Highest(p)'
  <2>1. \A g \in FilesOf(p) : g \in File BY DEF FilesOf
  <2>2. \A g : ~At(p, g, "unlock_shared") BY <1>2, NotAt DEF Pcs
  <2>3. inode'[p].eFileLock > SHARED_LOCK =>
         \E g \in FilesOf(p) : file'[g].eFileLock = inode'[p].eFileLock
    BY <1>1, <1>2, <1>4, <2>1, <2>2 DEF Highest, Typed
  <2>4. ASSUME NEW g \in FilesOf(p), file'[g].eFileLock > SHARED_LOCK
        PROVE  /\ inode'[p].eFileLock = file'[g].eFileLock \/ At(p, g, "unlock_shared")'
               /\ \A h \in FilesOf(p) \ {g} : file'[h].eFileLock <= SHARED_LOCK
    <3>1. CASE g = f
      BY <1>1, <1>2, <1>4, <2>1, <2>2, <2>4, <3>1 DEF Highest, Typed
    <3>2. CASE g # f
      BY <1>1, <1>2, <1>4, <2>1, <2>2, <2>4, <3>2 DEF Highest, Typed
    <3> QED BY <3>1, <3>2
  <2>5. ASSUME NEW g \in FilesOf(p), file'[g].eFileLock = EXCLUSIVE_LOCK
        PROVE  \A h \in FilesOf(p) \ {g} : file'[h].eFileLock = NO_LOCK
    <3>1. CASE g = f
      BY <1>1, <1>2, <1>4, <2>1, <2>2, <2>5, <3>1 DEF Highest, Typed
    <3>2. CASE g # f
      BY <1>1, <1>2, <1>4, <2>1, <2>2, <2>5, <3>2 DEF Highest, Typed
    <3> QED BY <3>1, <3>2
  <2> QED BY <2>3, <2>4, <2>5 DEF Highest, FilesOf
<1>9. Backed(p)'
  BY <1>1, <1>2, <1>3, <1>4 DEF Backed, TypeOK, Byte, At, Idle, LastShared
<1>10. InCall(p)'
  BY <1>1, <1>2, <1>3, <1>4 DEF InCall, TypeOK, Byte, At
<1>11. Closed(p)'
  BY <1>1, <1>2, <1>4, <1>5, ReadersFinite DEF Closed, Closing, Counted,
     FilesOf, Readers, TypeOK, At, Idle
<1>12. Local(p)
  BY <1>2, <1>3, <1>4 DEF Local, FilesOf
<1> QED BY <1>3, <1>6, <1>7, <1>8, <1>9, <1>10, <1>11, <1>12 DEF ProcInv

LEMMA Step_close_now ==
  ASSUME IInv, SerialClose, NEW p \in Process, NEW f \in File,
         close_check(p, f),
         ~(inode[p].nLock > 0)
  PROVE  TypeOK' /\ KernelInv' /\ ProcInv(p)' /\ Local(p)
<1> USE DEF NO_LOCK, SHARED_LOCK, RESERVED_LOCK, PENDING_LOCK, EXCLUSIVE_LOCK
<1>1. /\ TypeOK /\ KernelInv /\ Counted(p) /\ Highest(p) /\ Backed(p) /\ InCall(p)
      /\ Closed(p) /\ Typed(p)
  BY TypedParts DEF IInv, ProcInv
<1>2. /\ f \in FilesOf(p)
      /\ call[p] = Idle
      /\ inode[p].nLock = 0
      /\ file[f].state = "closing"
      /\ file[f].eFileLock = NO_LOCK
  <2>1. f \in FilesOf(p) /\ call[p] = Idle
    BY DEF close_check, CanCall, FilesOf
  <2>2. \A g : ~At(p, g, "unlock_shared") BY <2>1, NotAt DEF Pcs
  <2> QED
    BY <1>1, <2>1, <2>2 DEF close_check, CanCall, NotPrecluded, Counted, Highest,
     Readers, Typed
<1>3. posix' = posix /\ KernelInv'
  BY <1>1 DEF close_check, KernelInv
<1>4. /\ file'[f].eFileLock = NO_LOCK
      /\ file'[f].state = "close_fd"
      /\ \A g \in File \ {f} : file'[g] = file[g]
      /\ inode' = inode
      /\ call'[p] = call[p]
      /\ \A q \in Process \ {p} : call'[q] = call[q]
  BY <1>1, <1>2 DEF close_check, Goto, Return, SetFile, SetInode,
     GrantExclusive, ReleaseShared, LastShared, TypeOK
<1>5. Readers(p)' = Readers(p)
  BY <1>1, <1>2, <1>4, ReadersSame DEF FilesOf, Typed
<1>6. TypeOK'
  <2>1. file' \in [File -> [state : {"closed", "open", "closing", "close_fd"},
                          eFileLock : NO_LOCK .. EXCLUSIVE_LOCK]]
    BY <1>1, <1>2 DEF close_check, SetFile, GrantExclusive, ReleaseShared, TypeOK
  <2>2. inode' \in [Process -> [eFileLock : NO_LOCK .. EXCLUSIVE_LOCK,
                           nShared : Nat, nLock : Nat, pUnused : Nat]]
    BY <1>1, <1>2 DEF close_check, SetInode, GrantExclusive, ReleaseShared,
     LastShared, TypeOK
  <2>3. posix' \in [Process -> [Byte -> {"F_UNLCK", "F_RDLCK", "F_WRLCK"}]]
    BY <1>1, <1>3 DEF TypeOK
  <2>4. call' \in [Process -> {Idle} \cup [pc : Pcs, file : File]]
    BY <1>1, <1>2 DEF close_check, Goto, Return, TypeOK, Pcs
  <2> QED BY <2>1, <2>2, <2>3, <2>4 DEF TypeOK
<1>7. Counted(p)'
  BY <1>1, <1>2, <1>4, <1>5, ReadersFinite DEF Counted, Typed
<1>8. Highest(p)'
  <2>1. \A g \in FilesOf(p) : g \in File BY DEF FilesOf
  <2>2. \A g : ~At(p, g, "unlock_shared") BY <1>2, NotAt DEF Pcs
  <2>3. inode'[p].eFileLock > SHARED_LOCK =>
         \E g \in FilesOf(p) : file'[g].eFileLock = inode'[p].eFileLock
    BY <1>1, <1>2, <1>4, <2>1, <2>2 DEF Highest, Typed
  <2>4. ASSUME NEW g \in FilesOf(p), file'[g].eFileLock > SHARED_LOCK
        PROVE  /\ inode'[p].eFileLock = file'[g].eFileLock \/ At(p, g, "unlock_shared")'
               /\ \A h \in FilesOf(p) \ {g} : file'[h].eFileLock <= SHARED_LOCK
    <3>1. CASE g = f
      BY <1>1, <1>2, <1>4, <2>1, <2>2, <2>4, <3>1 DEF Highest, Typed
    <3>2. CASE g # f
      BY <1>1, <1>2, <1>4, <2>1, <2>2, <2>4, <3>2 DEF Highest, Typed
    <3> QED BY <3>1, <3>2
  <2>5. ASSUME NEW g \in FilesOf(p), file'[g].eFileLock = EXCLUSIVE_LOCK
        PROVE  \A h \in FilesOf(p) \ {g} : file'[h].eFileLock = NO_LOCK
    <3>1. CASE g = f
      BY <1>1, <1>2, <1>4, <2>1, <2>2, <2>5, <3>1 DEF Highest, Typed
    <3>2. CASE g # f
      BY <1>1, <1>2, <1>4, <2>1, <2>2, <2>5, <3>2 DEF Highest, Typed
    <3> QED BY <3>1, <3>2
  <2> QED BY <2>3, <2>4, <2>5 DEF Highest, FilesOf
<1>9. Backed(p)'
  BY <1>1, <1>2, <1>3, <1>4 DEF Backed, TypeOK, Byte, At, Idle, LastShared
<1>10. InCall(p)'
  BY <1>1, <1>2, <1>3, <1>4 DEF InCall, TypeOK, Byte, At
<1>11. Closed(p)'
  <2>1. Readers(p) = {} BY <1>1, <1>2, ReadersFinite DEF Counted
  <2> QED BY <1>2, <1>4, <1>5, <2>1 DEF Closed
<1>12. Local(p)
  BY <1>2, <1>3, <1>4 DEF Local, FilesOf
<1> QED BY <1>3, <1>6, <1>7, <1>8, <1>9, <1>10, <1>11, <1>12 DEF ProcInv

LEMMA Step_close_fd ==
  ASSUME IInv, SerialClose, NEW p \in Process, NEW f \in File, close_fd(p, f)
  PROVE  TypeOK' /\ KernelInv' /\ ProcInv(p)' /\ Local(p)
<1> USE DEF NO_LOCK, SHARED_LOCK, RESERVED_LOCK, PENDING_LOCK, EXCLUSIVE_LOCK
<1>1. /\ TypeOK /\ KernelInv /\ Counted(p) /\ Highest(p) /\ Backed(p) /\ InCall(p)
      /\ Closed(p) /\ Typed(p)
  BY TypedParts DEF IInv, ProcInv
<1>2. f \in FilesOf(p) /\ call[p] = Idle /\ Readers(p) = {}
  BY <1>1 DEF close_fd, FilesOf, Closed, Closing
<1>3. /\ posix' = [posix EXCEPT ![p] = NoLocks]
      /\ call' = call
      /\ \A g \in File : file'[g].eFileLock = file[g].eFileLock
      /\ \A g \in File \ {f} : file'[g] = file[g]
      /\ inode'[p] \in {NewInode, inode[p]}
      /\ \A q \in Process \ {p} : inode'[q] = inode[q]
  BY <1>1 DEF close_fd, TypeOK
<1>4. \A g \in FilesOf(p) : file[g].eFileLock = 0
  BY <1>1, <1>2 DEF Readers, FilesOf, Typed
<1>5. /\ inode'[p].eFileLock = 0 /\ inode'[p].nShared = 0
      /\ inode'[p].nLock = 0 /\ inode'[p].pUnused = 0
  <2>1. Cardinality(Readers(p)) = 0 BY <1>2, ReadersFinite
  <2>2. /\ inode[p].eFileLock = 0 /\ inode[p].nShared = 0
        /\ inode[p].nLock = 0 /\ inode[p].pUnused = 0
    BY <1>1, <1>2, <2>1 DEF Counted
  <2> QED BY <1>3, <2>2 DEF NewInode
<1>6. Readers(p)' = {}
  BY <1>2, <1>3, <1>4 DEF Readers, FilesOf
<1>7. TypeOK'
  <2>1. NewInode \in [eFileLock : 0 .. 4, nShared : Nat, nLock : Nat, pUnused : Nat]
    BY DEF NewInode
  <2>2. file' \in [File -> [state : {"closed", "open", "closing", "close_fd"}, eFileLock : 0 .. 4]]
    BY <1>1 DEF TypeOK, close_fd
  <2>3. inode' \in [Process -> [eFileLock : 0 .. 4, nShared : Nat, nLock : Nat, pUnused : Nat]]
    BY <1>1, <2>1 DEF TypeOK, close_fd
  <2>4. posix' \in [Process -> [Byte -> {"F_UNLCK", "F_RDLCK", "F_WRLCK"}]]
    BY <1>1, <1>3 DEF TypeOK, NoLocks
  <2> QED BY <1>1, <1>3, <2>2, <2>3, <2>4 DEF TypeOK
<1>8. KernelInv'
  BY <1>1, <1>3 DEF KernelInv, NoLocks, TypeOK
<1>9. Counted(p)'
  BY <1>5, <1>6, FS_EmptySet DEF Counted
<1>10. Highest(p)'
  BY <1>3, <1>4, <1>5 DEF Highest, FilesOf
<1>11. Backed(p)'
  <2>1. \A b \in Byte : posix'[p][b] = "F_UNLCK" BY <1>1, <1>3 DEF TypeOK, NoLocks
  <2> QED BY <1>5, <2>1 DEF Backed, Byte
<1>12. InCall(p)' /\ Closed(p)'
  BY <1>2, <1>3, <1>6 DEF InCall, Closed
<1>13. Local(p)
  BY <1>1, <1>2, <1>3 DEF Local, FilesOf, TypeOK
<1> QED BY <1>7, <1>8, <1>9, <1>10, <1>11, <1>12, <1>13 DEF ProcInv

LEMMA Step_Crash ==
  ASSUME IInv, NEW p \in Process, Crash(p)
  PROVE  TypeOK' /\ KernelInv' /\ ProcInv(p)' /\ Local(p)
<1> USE DEF NO_LOCK, SHARED_LOCK, RESERVED_LOCK, PENDING_LOCK, EXCLUSIVE_LOCK
<1>1. TypeOK /\ KernelInv BY DEF IInv
<1>2. /\ file' = [f \in File |-> IF ProcessOf[f] = p
                                 THEN [state |-> "closed", eFileLock |-> NO_LOCK]
                                 ELSE file[f]]
      /\ inode' = [inode EXCEPT ![p] = NewInode]
      /\ posix' = [posix EXCEPT ![p] = NoLocks]
      /\ call' = [call EXCEPT ![p] = Idle]
  BY DEF Crash
<1>3. /\ inode'[p] = NewInode /\ call'[p] = Idle
      /\ \A b \in Byte : posix'[p][b] = "F_UNLCK"
      /\ \A f \in FilesOf(p) : file'[f].eFileLock = 0 /\ file'[f].state = "closed"
  BY <1>1, <1>2 DEF TypeOK, NoLocks, FilesOf
<1>4. Readers(p)' = {} BY <1>3 DEF Readers, FilesOf
<1>5. TypeOK'
  <2>1. NewInode \in [eFileLock : 0 .. 4, nShared : Nat, nLock : Nat, pUnused : Nat]
    BY DEF NewInode
  <2>2. inode' \in [Process -> [eFileLock : 0 .. 4, nShared : Nat, nLock : Nat, pUnused : Nat]]
    BY <1>1, <1>2, <2>1 DEF TypeOK
  <2>3. file' \in [File -> [state : {"closed", "open", "closing", "close_fd"}, eFileLock : 0 .. 4]]
    BY <1>1, <1>2 DEF TypeOK
  <2>4. posix' \in [Process -> [Byte -> {"F_UNLCK", "F_RDLCK", "F_WRLCK"}]]
    BY <1>1, <1>2 DEF TypeOK, NoLocks
  <2>5. call' \in [Process -> {Idle} \cup [pc : Pcs, file : File]]
    BY <1>1, <1>2 DEF TypeOK
  <2> QED BY <2>2, <2>3, <2>4, <2>5 DEF TypeOK
<1>6. KernelInv'
  BY <1>1, <1>2 DEF KernelInv, NoLocks, TypeOK
<1>7. Counted(p)' BY <1>3, <1>4, FS_EmptySet DEF Counted, NewInode
<1>8. Highest(p)' BY <1>3 DEF Highest, FilesOf, NewInode
<1>9. Backed(p)' BY <1>3 DEF Backed, Byte, NewInode
<1>10. InCall(p)' /\ Closed(p)' BY <1>3, <1>4 DEF InCall, Closed
<1>11. Local(p) BY <1>1, <1>2 DEF Local, FilesOf, TypeOK
<1> QED BY <1>5, <1>6, <1>7, <1>8, <1>9, <1>10, <1>11 DEF ProcInv

\* A step of a handle.
LEMMA HandleStep ==
  ASSUME IInv, SerialClose, NEW p \in Process, NEW f \in File,
         LockStep(p, f) \/ UnlockStep(p, f)
  PROVE  TypeOK' /\ KernelInv' /\ ProcInv(p)' /\ Local(p)
<1>1. CASE unixOpen(p, f) BY <1>1, Step_unixOpen
<1>2. CASE lock_shared_again(p, f) BY <1>2, Step_lock_shared_again
<1>3. CASE lock_shared(p, f) BY <1>3, Step_lock_shared
<1>4. CASE shared_range(p, f)
  BY <1>4, Step_shared_granted, Step_shared_failed DEF shared_range
<1>5. CASE drop_pending(p, f) BY <1>5, Step_drop_pending
<1>6. CASE shared_refused(p, f) BY <1>6, Step_shared_refused
<1>7. CASE lock_reserved(p, f) BY <1>7, Step_lock_reserved
<1>8. CASE lock_pending(p, f) BY <1>8, Step_lock_pending
<1>9. CASE exclusive_range(p, f)
  BY <1>9, Step_exclusive_granted, Step_exclusive_refused DEF exclusive_range
<1>10. CASE lock_exclusive(p, f) BY <1>10, Step_lock_exclusive
<1>11. CASE downgrade(p, f) BY <1>11, Step_downgrade
<1>12. CASE downgraded(p, f) BY <1>12, Step_downgraded
<1>13. CASE unlock(p, f) BY <1>13, Step_unlock_high, Step_unlock_low
<1>14. CASE unlock_shared(p, f) BY <1>14, Step_unlock_shared
<1>15. CASE unixClose(p, f) BY <1>15, Step_unixClose
<1>16. CASE close_check(p, f) BY <1>16, Step_close_later, Step_close_now
<1>17. CASE close_fd(p, f) BY <1>17, Step_close_fd
<1> QED BY <1>1, <1>2, <1>3, <1>4, <1>5, <1>6, <1>7, <1>8, <1>9, <1>10, <1>11,
           <1>12, <1>13, <1>14, <1>15, <1>16, <1>17 DEF LockStep, UnlockStep

LEMMA IInvInit == Init => IInv
<1> SUFFICES ASSUME Init PROVE IInv OBVIOUS
<1> USE DEF NO_LOCK, SHARED_LOCK, RESERVED_LOCK, PENDING_LOCK, EXCLUSIVE_LOCK
<1>1. TypeOK BY DEF Init, TypeOK, NewInode, NoLocks
<1>2. KernelInv BY DEF Init, KernelInv, NoLocks
<1>3. ASSUME NEW p \in Process PROVE ProcInv(p)
  <2>1. Readers(p) = {} BY DEF Init, Readers, FilesOf
  <2>2. Counted(p) BY <2>1, FS_EmptySet DEF Init, Counted, NewInode
  <2>3. Highest(p) BY DEF Init, Highest, FilesOf, NewInode
  <2>4. Backed(p) BY DEF Init, Backed, NewInode, NoLocks, Byte
  <2>5. InCall(p) /\ Closed(p) BY <2>1 DEF Init, InCall, Closed
  <2> QED BY <2>2, <2>3, <2>4, <2>5 DEF ProcInv
<1> QED BY <1>1, <1>2, <1>3 DEF IInv

LEMMA IInvNext ==
  ASSUME SerialClose, IInv, [Next]_vars
  PROVE  IInv'
<1>1. ASSUME NEW p \in Process, TypeOK', KernelInv', ProcInv(p)', Local(p)
      PROVE  IInv'
  <2>1. ASSUME NEW q \in Process \ {p} PROVE ProcInv(q)'
    BY <1>1, Frame DEF IInv, Local
  <2> QED BY <1>1, <2>1 DEF IInv
<1>2. CASE UNCHANGED vars
  <2>1. TypeOK' BY <1>2 DEF IInv, TypeOK, vars
  <2>2. KernelInv' BY <1>2 DEF IInv, KernelInv, vars
  <2>3. ASSUME NEW q \in Process PROVE ProcInv(q)'
    BY <1>2, Frame DEF IInv, vars
  <2> QED BY <2>1, <2>2, <2>3 DEF IInv
<1>3. ASSUME NEW p \in Process, NEW f \in File, LockStep(p, f) \/ UnlockStep(p, f)
      PROVE  IInv'
  BY <1>1, <1>3, HandleStep
<1>4. ASSUME NEW p \in Process, Crash(p) PROVE IInv'
  BY <1>1, <1>4, Step_Crash
<1> QED BY <1>2, <1>3, <1>4 DEF Next

LEMMA Inductive == ASSUME SerialClose PROVE Spec => []IInv
<1>1. IInv /\ [Next]_vars => IInv' BY IInvNext
<1> QED BY <1>1, IInvInit, PTL DEF Spec
-----------------------------------------------------------------------------
(***************************************************************************)
(* What the invariant says of the levels that the others see.              *)
(***************************************************************************)
LEMMA LevelFacts ==
  ASSUME IInv, NEW f \in File
  PROVE  LET p == ProcessOf[f] IN
         /\ p \in Process /\ f \in FilesOf(p)
         /\ Level(f) \in 0 .. 4 /\ Level(f) <= file[f].eFileLock
         /\ Level(f) = NO_LOCK <=> file[f].eFileLock = NO_LOCK
         /\ Level(f) > SHARED_LOCK =>
              Level(f) = file[f].eFileLock /\ inode[p].eFileLock = Level(f)
              /\ ~At(p, f, "downgraded") /\ ~At(p, f, "unlock_shared")
         /\ Level(f) >= SHARED_LOCK => inode[p].eFileLock >= SHARED_LOCK
<1> DEFINE p == ProcessOf[f]
<1> USE DEF NO_LOCK, SHARED_LOCK, RESERVED_LOCK, PENDING_LOCK, EXCLUSIVE_LOCK
<1>1. p \in Process /\ f \in FilesOf(p) BY ProcessOfAssumption DEF FilesOf
<1>2. /\ TypeOK /\ Counted(p) /\ Highest(p) /\ InCall(p) /\ Typed(p)
  BY <1>1, TypedParts DEF IInv, ProcInv
<1>3. \A pc \in {"downgraded", "unlock_shared"} : At(p, f, pc) => file[f].eFileLock > 1
  BY <1>1, <1>2, WhereAt DEF WhereFacts, Pcs
<1>4. Level(f) = IF At(p, f, "downgraded") \/ At(p, f, "unlock_shared")
                 THEN 1 ELSE file[f].eFileLock
  BY DEF Level, At
<1>5. file[f].eFileLock \in 0 .. 4 /\ inode[p].eFileLock \in 0 .. 4
  BY <1>2 DEF Typed
<1>6. Level(f) > 1 => inode[p].eFileLock = Level(f)
  BY <1>1, <1>2, <1>4, <1>5 DEF Highest
<1>7. Level(f) >= 1 => inode[p].eFileLock >= 1
  BY <1>1, <1>2, <1>3, <1>4, <1>5 DEF Counted, Readers
<1> HIDE DEF p
<1> QED BY <1>1, <1>3, <1>4, <1>5, <1>6, <1>7 DEF p

LEMMA Backing == IInv => LocksBacked
<1> SUFFICES ASSUME IInv, NEW f \in File
             PROVE LET held == posix[ProcessOf[f]] IN
                   /\ Level(f) >= SHARED_LOCK => held["SHARED"] # "F_UNLCK"
                   /\ Level(f) \in {RESERVED_LOCK, PENDING_LOCK} => held["RESERVED"] = "F_WRLCK"
                   /\ Level(f) = PENDING_LOCK => held["PENDING"] = "F_WRLCK"
                   /\ Level(f) = EXCLUSIVE_LOCK => held["SHARED"] = "F_WRLCK"
  BY DEF LocksBacked
<1> USE DEF NO_LOCK, SHARED_LOCK, RESERVED_LOCK, PENDING_LOCK, EXCLUSIVE_LOCK
<1> DEFINE p == ProcessOf[f]
<1>1. p \in Process /\ f \in FilesOf(p) BY LevelFacts
<1>2. TypeOK /\ Highest(p) /\ Backed(p) /\ InCall(p) /\ Typed(p)
  BY <1>1, TypedParts DEF IInv, ProcInv
<1>3. /\ Level(f) \in 0 .. 4
      /\ Level(f) > 1 => Level(f) = file[f].eFileLock /\ inode[p].eFileLock = Level(f)
                         /\ ~At(p, f, "downgraded") /\ ~At(p, f, "unlock_shared")
      /\ Level(f) >= 1 => inode[p].eFileLock >= 1
  BY LevelFacts
<1>4. Level(f) = 4 => call[p].pc # "downgraded"
  <2> SUFFICES ASSUME Level(f) = 4, call[p].pc = "downgraded" PROVE FALSE
    OBVIOUS
  <2>1. PICK g \in FilesOf(p) : At(p, g, "downgraded") /\ file[g].eFileLock > 1
    <3>1. call[p] # Idle BY DEF Idle
    <3>2. \A g, c : At(p, g, c) => c = "downgraded" BY DEF At
    <3> QED BY <1>2, <3>1, <3>2 DEF InCall
  <2>2. g # f BY <1>3, <2>1
  <2>3. file[g].eFileLock = 0 BY <1>1, <1>2, <1>3, <2>2 DEF Highest
  <2> QED BY <2>1, <2>3
<1> HIDE DEF p
<1> QED BY <1>2, <1>3, <1>4 DEF p, Backed

LEMMA Compatibility == IInv => Compatible
<1> USE DEF NO_LOCK, SHARED_LOCK, RESERVED_LOCK, PENDING_LOCK, EXCLUSIVE_LOCK
<1> SUFFICES ASSUME IInv, NEW f \in File, NEW g \in File \ {f}
             PROVE  /\ Level(f) >= 2 => Level(g) < 2
                    /\ Level(f) = 4 => Level(g) = 0
  BY DEF Compatible
<1> DEFINE p == ProcessOf[f]  q == ProcessOf[g]
<1>1. /\ p \in Process /\ f \in FilesOf(p) /\ Level(f) \in 0 .. 4
      /\ Level(f) > 1 => Level(f) = file[f].eFileLock
  BY LevelFacts
<1>2. /\ q \in Process /\ g \in FilesOf(q) /\ Level(g) \in 0 .. 4
      /\ Level(g) <= file[g].eFileLock
      /\ Level(g) = 0 <=> file[g].eFileLock = 0
      /\ file[g].eFileLock \in 0 .. 4
  BY LevelFacts DEF IInv, TypeOK
<1>3. CASE p = q
  <2>1. g \in FilesOf(p) \ {f} BY <1>2, <1>3
  <2>2. Highest(p) BY <1>1 DEF IInv, ProcInv
  <2> QED BY <1>1, <1>2, <2>1, <2>2 DEF Highest
<1>4. CASE p # q
  <2>1. \A b \in Byte : /\ posix[p][b] = "F_WRLCK" => posix[q][b] = "F_UNLCK"
                        /\ posix[q][b] = "F_WRLCK" => posix[p][b] = "F_UNLCK"
    BY <1>1, <1>2, <1>4 DEF IInv, KernelInv
  <2>2. /\ Level(f) >= 1 => posix[p]["SHARED"] # "F_UNLCK"
        /\ Level(f) \in {2, 3} => posix[p]["RESERVED"] = "F_WRLCK"
        /\ Level(f) = 4 => posix[p]["SHARED"] = "F_WRLCK"
    BY Backing DEF LocksBacked
  <2>3. /\ Level(g) >= 1 => posix[q]["SHARED"] # "F_UNLCK"
        /\ Level(g) \in {2, 3} => posix[q]["RESERVED"] = "F_WRLCK"
        /\ Level(g) = 4 => posix[q]["SHARED"] = "F_WRLCK"
    BY Backing DEF LocksBacked
  <2> HIDE DEF p, q
  <2> QED BY <1>1, <1>2, <2>1, <2>2, <2>3 DEF Byte
<1> QED BY <1>3, <1>4

\* In every state of any number of processes and handles, two handles hold
\* compatible levels.
THEOREM LevelsAreCompatible == ASSUME SerialClose PROVE Spec => []Compatible
BY Inductive, Compatibility, PTL

\* A level that a handle holds is backed by a lock of its process in the
\* kernel, provided that no thread locks during the close of another one.
THEOREM LevelsAreBacked == ASSUME SerialClose PROVE Spec => []LocksBacked
BY Inductive, Backing, PTL

\* The counters of the inode are never negative, and every variable has its
\* type.
THEOREM UnixLocksTyped == ASSUME SerialClose PROVE Spec => []TypeOK
<1>1. IInv => TypeOK BY DEF IInv
<1> QED BY <1>1, Inductive, PTL

LEMMA CleanWhenUnlocked == IInv => NothingLeftBehind
<1> SUFFICES ASSUME IInv, NEW p \in Process, call[p] = Idle,
                    \A f \in FilesOf(p) : file[f].eFileLock = NO_LOCK
             PROVE  posix[p] = NoLocks /\ inode[p].pUnused = 0
  BY DEF NothingLeftBehind
<1> USE DEF NO_LOCK, SHARED_LOCK, RESERVED_LOCK, PENDING_LOCK, EXCLUSIVE_LOCK
<1>1. TypeOK /\ Counted(p) /\ Backed(p) BY DEF IInv, ProcInv
<1>2. Readers(p) = {} BY DEF Readers
<1>3. inode[p].eFileLock = 0 /\ inode[p].pUnused = 0
  <2>1. Cardinality(Readers(p)) = 0 BY <1>2, ReadersFinite
  <2> QED BY <1>1, <1>2, <2>1 DEF Counted
<1>4. call[p].pc = "idle" BY DEF Idle
<1>5. \A b \in Byte : posix[p][b] = "F_UNLCK"
  BY <1>1, <1>3, <1>4 DEF Backed, Byte
<1>6. posix[p] \in [Byte -> {"F_UNLCK", "F_RDLCK", "F_WRLCK"}]
  BY <1>1 DEF TypeOK
<1> QED BY <1>3, <1>5, <1>6 DEF NoLocks

\* A process whose handles hold nothing keeps no lock in the kernel and no
\* descriptor that waits to be closed.
THEOREM NothingIsLeftBehind == ASSUME SerialClose PROVE Spec => []NothingLeftBehind
BY Inductive, CleanWhenUnlocked, PTL

LEMMA ReservedExactly == IInv => ReservedIsExact
<1> USE DEF NO_LOCK, SHARED_LOCK, RESERVED_LOCK, PENDING_LOCK, EXCLUSIVE_LOCK
<1> SUFFICES ASSUME IInv, NEW f \in File, Level(f) = 1, call[ProcessOf[f]] = Idle
             PROVE  unixCheckReservedLock(ProcessOf[f]) <=>
                      \E g \in File \ {f} :
                        \/ Level(g) > 1
                        \/ call[ProcessOf[g]] = [pc |-> "downgraded", file |-> g]
                             /\ posix[ProcessOf[g]]["RESERVED"] = "F_WRLCK"
  BY DEF ReservedIsExact
<1> DEFINE p == ProcessOf[f]
           Writes(g) == \/ Level(g) > 1
                        \/ /\ call[ProcessOf[g]] = [pc |-> "downgraded", file |-> g]
                           /\ posix[ProcessOf[g]]["RESERVED"] = "F_WRLCK"
<1>1. /\ p \in Process /\ f \in FilesOf(p) /\ file[f].eFileLock >= 1
      /\ TypeOK /\ KernelInv /\ Typed(p)
  BY LevelFacts, TypedParts DEF IInv
<1>2. \A g, c : c \in Pcs => ~At(p, g, c) BY <1>1, NotAt
<1>3. \A g \in FilesOf(p) : g \in File /\ ProcessOf[g] = p /\ Level(g) = file[g].eFileLock
  BY <1>2 DEF FilesOf, Level, At, Pcs
<1>4. ASSUME unixCheckReservedLock(p) PROVE \E g \in File \ {f} : Writes(g)
  <2>1. CASE inode[p].eFileLock > 1
    <3>1. PICK g \in FilesOf(p) : file[g].eFileLock = inode[p].eFileLock
      BY <1>1, <2>1 DEF IInv, ProcInv, Highest
    <3> QED BY <1>1, <1>3, <2>1, <3>1
  <2>2. CASE ReservedElsewhere(p)
    <3>1. PICK q \in Process \ {p} : posix[q]["RESERVED"] # "F_UNLCK"
      BY <2>2 DEF ReservedElsewhere, Grants
    <3>2. TypeOK /\ Highest(q) /\ Backed(q) /\ InCall(q) /\ Typed(q)
      BY <1>1, <3>1, TypedParts DEF IInv, ProcInv
    <3>3. inode[q].eFileLock > 1 BY <3>1, <3>2 DEF Backed
    <3>4. PICK g \in FilesOf(q) : file[g].eFileLock = inode[q].eFileLock
      BY <3>2, <3>3 DEF Highest
    <3>5. g \in File \ {f} /\ ProcessOf[g] = q BY <3>1, <3>4 DEF FilesOf
    <3>6. CASE At(q, g, "unlock_shared")
      BY <3>2, <3>3, <3>5, <3>6, WhereAt DEF WhereFacts, Pcs
    <3>7. CASE At(q, g, "downgraded")
      <4>1. inode[q].eFileLock \in {2, 3, 4} BY <3>2, <3>3 DEF Typed
      <4>2. posix[q]["RESERVED"] = "F_WRLCK"
        <5>1. CASE inode[q].eFileLock \in {2, 3} BY <3>2, <5>1 DEF Backed
        <5>2. CASE inode[q].eFileLock = 4 /\ posix[q]["RESERVED"] # "F_WRLCK"
          BY <3>1, <3>2, <5>2 DEF Backed, TypeOK, Byte
        <5> QED BY <4>1, <5>1, <5>2
      <4> QED BY <3>5, <3>7, <4>2 DEF At
    <3>8. CASE ~At(q, g, "unlock_shared") /\ ~At(q, g, "downgraded")
      <4>1. Level(g) = file[g].eFileLock BY <3>5, <3>8 DEF Level, At
      <4> QED BY <3>3, <3>4, <3>5, <4>1
    <3> QED BY <3>6, <3>7, <3>8
  <2> QED BY <1>4, <2>1, <2>2 DEF unixCheckReservedLock
<1>5. ASSUME NEW g \in File \ {f}, Writes(g) PROVE unixCheckReservedLock(p)
  <2> DEFINE q == ProcessOf[g]
  <2>1. /\ q \in Process /\ g \in FilesOf(q) /\ Level(g) \in 0 .. 4
        /\ Level(g) > 1 => inode[q].eFileLock = Level(g)
    BY LevelFacts
  <2>2. CASE q = p
    <3>1. Level(g) > 1
      <4>1. ~At(p, g, "downgraded") BY <1>2 DEF Pcs
      <4> QED BY <1>5, <2>2, <4>1 DEF At
    <3> QED BY <2>1, <2>2, <3>1 DEF unixCheckReservedLock
  <2>3. CASE q # p
    <3>1. posix[q]["RESERVED"] = "F_WRLCK"
      <4>1. Level(g) # 4 BY <1>5, <2>1, Compatibility DEF Compatible
      <4>2. Level(g) \in {2, 3} => posix[q]["RESERVED"] = "F_WRLCK"
        BY Backing DEF LocksBacked
      <4> QED BY <1>5, <2>1, <4>1, <4>2
    <3> QED BY <1>1, <2>1, <2>3, <3>1 DEF unixCheckReservedLock, ReservedElsewhere, Grants, Byte
  <2> QED BY <2>2, <2>3
<1> QED BY <1>4, <1>5

\* unixCheckReservedLock() gives the right answer to a reader that asks for
\* the owner of a journal.
THEOREM ReservedLockExact == ASSUME SerialClose PROVE Spec => []ReservedIsExact
BY Inductive, ReservedExactly, PTL
-----------------------------------------------------------------------------
(***************************************************************************)
(* UnixLocks implements FileLock.                                          *)
(***************************************************************************)
Levels == [f \in File |-> Level(f)]

\* Handles that the call is not about keep their level.
LEMMA OtherLevels ==
  ASSUME IInv, NEW p \in Process, NEW f \in FilesOf(p), Local(p),
         \A g \in FilesOf(p) \ {f} : file'[g] = file[g],
         call[p] = Idle \/ \E pc \in Pcs : At(p, f, pc),
         call'[p] = Idle \/ \E pc \in Pcs : At(p, f, pc)'
  PROVE  \A g \in File \ {f} : Level(g)' = Level(g)
<1> SUFFICES ASSUME NEW g \in File \ {f} PROVE Level(g)' = Level(g) OBVIOUS
<1>1. ProcessOf[g] \in Process /\ g \in FilesOf(ProcessOf[g])
  BY ProcessOfAssumption DEF FilesOf
<1>2. CASE ProcessOf[g] # p
  BY <1>1, <1>2 DEF Local, Level
<1>3. CASE ProcessOf[g] = p
  <2>1. \A c \in Pcs : ~At(p, g, c)
    BY NotAt
  <2>2. \A c \in Pcs : ~At(p, g, c)'
    <3>1. CASE call'[p] = Idle
      <4> SUFFICES ASSUME NEW c \in Pcs, At(p, g, c)' PROVE FALSE OBVIOUS
      <4>1. call'[p].pc = c /\ call'[p].pc = "idle" BY <3>1 DEF At, Idle
      <4> QED BY <4>1 DEF Pcs
    <3>2. CASE \E pc \in Pcs : At(p, f, pc)'
      <4> SUFFICES ASSUME NEW c \in Pcs, At(p, g, c)' PROVE FALSE OBVIOUS
      <4>1. call'[p].file = f /\ call'[p].file = g BY <3>2 DEF At
      <4> QED BY <4>1
    <3> QED BY <3>1, <3>2
  <2>3. file'[g] = file[g] BY <1>1, <1>3
  <2> QED BY <1>3, <2>1, <2>2, <2>3 DEF Level, At, Pcs
<1> QED BY <1>2, <1>3

LEMMA LevelIs ==
  ASSUME NEW p \in Process, NEW f \in FilesOf(p)
  PROVE  /\ call[p] = Idle => Level(f) = file[f].eFileLock
         /\ \A c \in Pcs : At(p, f, c) =>
              Level(f) = IF c \in {"downgraded", "unlock_shared"}
                         THEN SHARED_LOCK ELSE file[f].eFileLock
         /\ call'[p] = Idle => Level(f)' = file'[f].eFileLock
         /\ \A c \in Pcs : At(p, f, c)' =>
              Level(f)' = IF c \in {"downgraded", "unlock_shared"}
                          THEN SHARED_LOCK ELSE file'[f].eFileLock
<1>1. ProcessOf[f] = p BY DEF FilesOf
<1>2. \A c, d : [pc |-> c, file |-> f] = [pc |-> d, file |-> f] => c = d
  <2> SUFFICES ASSUME NEW c, NEW d, [pc |-> c, file |-> f] = [pc |-> d, file |-> f]
               PROVE  c = d OBVIOUS
  <2>1. [pc |-> c, file |-> f].pc = [pc |-> d, file |-> f].pc OBVIOUS
  <2> QED BY <2>1
<1>3. \A c \in Pcs : Idle # [pc |-> c, file |-> f]
  <2> SUFFICES ASSUME NEW c \in Pcs, Idle = [pc |-> c, file |-> f] PROVE FALSE OBVIOUS
  <2>1. Idle.pc = c OBVIOUS
  <2> QED BY <2>1 DEF Idle, Pcs
<1> QED BY <1>1, <1>2, <1>3 DEF Level, At, Pcs

\* What a step of a handle does to the levels of the others: nothing.
LEMMA HandleLevels ==
  ASSUME IInv, SerialClose, NEW p \in Process, NEW f \in File,
         LockStep(p, f) \/ UnlockStep(p, f)
  PROVE  /\ f \in FilesOf(p)
         /\ \A g \in File \ {f} : Level(g)' = Level(g)
<1>1. TypeOK /\ InCall(p) /\ Closed(p) /\ Local(p)
  BY HandleStep DEF IInv, ProcInv
<1>2. \/ \E pc \in Pcs : At(p, f, pc)
      \/ p = ProcessOf[f] /\ call[p] = Idle
  BY <1>1 DEF LockStep, UnlockStep, unixOpen, lock_shared_again, lock_shared,
     shared_range, drop_pending, shared_refused, lock_reserved, lock_pending,
     exclusive_range, lock_exclusive, downgrade, downgraded, unlock, unlock_shared,
     unixClose, close_check, close_fd, CanCall, Pcs, Closed, Closing, FilesOf
<1>3. f \in FilesOf(p)
  BY <1>1, <1>2, WhereAt DEF FilesOf
<1>4. call[p] = Idle \/ \E pc \in Pcs : At(p, f, pc)
  BY <1>2
<1>5. call'[p] = Idle \/ \E pc \in Pcs : At(p, f, pc)'
  BY <1>1, <1>4 DEF LockStep, UnlockStep, unixOpen, lock_shared_again, lock_shared,
     shared_range, drop_pending, shared_refused, lock_reserved, lock_pending,
     exclusive_range, lock_exclusive, downgrade, downgraded, unlock, unlock_shared,
     unixClose, close_check, close_fd, At, Goto, Return, TypeOK, Pcs
<1>6. \A g \in FilesOf(p) \ {f} : file'[g] = file[g]
  <2>1. \/ file' = file
        \/ \E v : file' = [file EXCEPT ![f] = v]
        \/ \E v : file' = [file EXCEPT ![f].eFileLock = v]
        \/ \E v : file' = [file EXCEPT ![f].state = v]
    BY DEF LockStep, UnlockStep, unixOpen, lock_shared_again, lock_shared,
     shared_range, drop_pending, shared_refused, lock_reserved, lock_pending,
     exclusive_range, lock_exclusive, downgrade, downgraded, unlock, unlock_shared,
     unixClose, close_check, close_fd, SetFile, GrantExclusive, ReleaseShared
  <2> QED BY <1>1, <2>1 DEF TypeOK, FilesOf
<1> QED BY <1>1, <1>3, <1>4, <1>5, <1>6, OtherLevels

\* The step of FileLock that a change of one level is.
LEMMA OneLevel ==
  ASSUME NEW f \in File, \A g \in File \ {f} : Level(g)' = Level(g)
  PROVE  /\ Levels' = [Levels EXCEPT ![f] = Level(f)']
         /\ Level(f)' = Level(f) => Levels' = Levels
BY DEF Levels

\* No process but p has EXCLUSIVE, or reads while p gets it, ... : what a lock
\* that the kernel granted to p says of the levels of the others.
LEMMA OtherProcesses ==
  ASSUME IInv, NEW p \in Process, NEW g \in File, ProcessOf[g] # p
  PROVE  /\ posix[p]["SHARED"] # "F_UNLCK" => Level(g) # EXCLUSIVE_LOCK
         /\ posix[p]["PENDING"] # "F_UNLCK" => Level(g) # PENDING_LOCK
         /\ posix[p]["RESERVED"] # "F_UNLCK" => Level(g) \notin {RESERVED_LOCK, PENDING_LOCK}
         /\ Grants(p, "RESERVED", "F_WRLCK") => Level(g) \notin {RESERVED_LOCK, PENDING_LOCK}
         /\ Grants(p, "SHARED", "F_WRLCK") => Level(g) = NO_LOCK
<1> DEFINE q == ProcessOf[g]
<1> USE DEF NO_LOCK, SHARED_LOCK, RESERVED_LOCK, PENDING_LOCK, EXCLUSIVE_LOCK
<1>1. q \in Process \ {p} /\ Level(g) \in 0 .. 4 BY LevelFacts
<1>2. \A b \in Byte : posix[q][b] = "F_WRLCK" => posix[p][b] = "F_UNLCK"
  BY <1>1 DEF IInv, KernelInv
<1>3. /\ Level(g) >= 1 => posix[q]["SHARED"] # "F_UNLCK"
      /\ Level(g) \in {2, 3} => posix[q]["RESERVED"] = "F_WRLCK"
      /\ Level(g) = 3 => posix[q]["PENDING"] = "F_WRLCK"
      /\ Level(g) = 4 => posix[q]["SHARED"] = "F_WRLCK"
  BY Backing DEF LocksBacked
<1>4. /\ Grants(p, "RESERVED", "F_WRLCK") => posix[q]["RESERVED"] = "F_UNLCK"
      /\ Grants(p, "SHARED", "F_WRLCK") => posix[q]["SHARED"] = "F_UNLCK"
  BY <1>1 DEF Grants
<1> HIDE DEF q
<1> QED BY <1>1, <1>2, <1>3, <1>4 DEF Byte

LEMMA RefineHandle ==
  ASSUME IInv, SerialClose, NEW p \in Process, NEW f \in File,
         LockStep(p, f) \/ UnlockStep(p, f)
  PROVE  FL!Next \/ Levels' = Levels
<1> USE DEF NO_LOCK, SHARED_LOCK, RESERVED_LOCK, PENDING_LOCK, EXCLUSIVE_LOCK,
            FL!NO_LOCK, FL!SHARED_LOCK, FL!RESERVED_LOCK, FL!PENDING_LOCK,
            FL!EXCLUSIVE_LOCK
<1>1. f \in FilesOf(p) /\ ProcessOf[f] = p /\ \A g \in File \ {f} : Level(g)' = Level(g)
  BY HandleLevels DEF FilesOf
<1>2. /\ TypeOK /\ Typed(p) /\ Counted(p) /\ Highest(p) /\ Backed(p) /\ InCall(p) /\ Closed(p)
      /\ Level(f) \in 0 .. 4
  BY TypedParts, LevelFacts DEF IInv, ProcInv
<1>3. /\ Levels' = [Levels EXCEPT ![f] = Level(f)']
      /\ Level(f)' = Level(f) => Levels' = Levels
      /\ \A g \in File : Levels[g] = Level(g)
  BY <1>1, OneLevel DEF Levels
<1>4. \A g \in FilesOf(p) \ {f} :
        call[p] = Idle \/ (\E c \in Pcs : At(p, f, c)) => Level(g) = file[g].eFileLock
  <2> SUFFICES ASSUME NEW g \in FilesOf(p) \ {f},
                      call[p] = Idle \/ (\E c \in Pcs : At(p, f, c))
               PROVE  Level(g) = file[g].eFileLock
    OBVIOUS
  <2>1. \A c \in Pcs : ~At(p, g, c) BY NotAt
  <2> QED BY <2>1 DEF Level, At, Pcs, FilesOf
<1>5. ASSUME Level(f) = 0, Level(f)' = 1,
             \A g \in File \ {f} :
               \/ Level(g) < 3
               \/ Level(g) = 3 /\ ProcessOf[g] # p
                    /\ \E h \in File \ {f} : ProcessOf[h] = p /\ Level(h) = 1
      PROVE  FL!Next
  <2>1. FL!Shared(f)
    BY <1>1, <1>3, <1>5 DEF FL!Shared, FL!Others, FL!AlreadyReads, Levels
  <2> QED BY <2>1 DEF FL!Next
<1>6. ASSUME Level(f) = 1, Level(f)' = 2, \A g \in File \ {f} : Level(g) < 2
      PROVE  FL!Next
  <2>1. FL!Reserved(f) BY <1>3, <1>6 DEF FL!Reserved, FL!Others, Levels
  <2> QED BY <2>1 DEF FL!Next
<1>7. ASSUME Level(f) = 2, Level(f)' = 3 PROVE FL!Next
  <2>1. FL!Pending(f) BY <1>3, <1>7 DEF FL!Pending, Levels
  <2> QED BY <2>1 DEF FL!Next
<1>8. ASSUME Level(f) \in {1, 3}, Level(f)' = 4, \A g \in File \ {f} : Level(g) = 0
      PROVE  FL!Next
  <2>1. FL!Exclusive(f) BY <1>3, <1>8 DEF FL!Exclusive, FL!Others, Levels
  <2> QED BY <2>1 DEF FL!Next
<1>9. ASSUME Level(f) > 1, Level(f)' = 1 PROVE FL!Next
  <2>1. FL!Downgrade(f) BY <1>3, <1>9 DEF FL!Downgrade, Levels
  <2> QED BY <2>1 DEF FL!Next
<1>10. ASSUME Level(f)' = 0 PROVE FL!Next
  <2>1. Levels' = [g \in File |-> IF g \in {f} THEN 0 ELSE Levels[g]]
    BY <1>3, <1>10 DEF Levels
  <2>2. FL!Release({f}) BY <1>3, <2>1 DEF FL!Release, Levels
  <2> QED BY <2>2 DEF FL!Next
<1>11. \A g \in File \ {f} : ProcessOf[g] = p => g \in FilesOf(p) \ {f}
  BY DEF FilesOf
<1>12. CASE unixOpen(p, f) \/ unixClose(p, f) \/ close_check(p, f) \/ close_fd(p, f)
  <2>1. call' = call /\ file'[f].eFileLock = file[f].eFileLock
    BY <1>2, <1>12 DEF unixOpen, unixClose, close_check, close_fd, TypeOK
  <2>2. call[p] = Idle BY <1>1, <1>2, <1>12 DEF unixOpen, unixClose, close_check, close_fd,
    CanCall, Closed, Closing
  <2> QED BY <1>1, <1>3, <2>1, <2>2, LevelIs
<1>13. CASE lock_shared_again(p, f)
  <2>1. /\ call[p] = Idle /\ call'[p] = Idle /\ file[f].eFileLock = 0
        /\ inode[p].eFileLock \in {1, 2} /\ file'[f].eFileLock = 1
    BY <1>2, <1>13 DEF lock_shared_again, CanCall, SetFile, TypeOK
  <2>2. Level(f) = 0 /\ Level(f)' = 1 BY <1>1, <2>1, LevelIs
  <2>3. \A g \in FilesOf(p) \ {f} : file[g].eFileLock \in 0 .. 2
    <3>1. \A g : ~At(p, g, "unlock_shared") BY <2>1, NotAt DEF Pcs
    <3> QED BY <1>2, <2>1, <3>1 DEF Highest, Typed, FilesOf
  <2>4. ASSUME NEW g \in File \ {f}, Level(g) > 2
        PROVE  /\ Level(g) = 3 /\ ProcessOf[g] # p
               /\ \E h \in File \ {f} : ProcessOf[h] = p /\ Level(h) = 1
    <3>1. ProcessOf[g] # p BY <1>4, <1>11, <2>1, <2>3, <2>4
    <3>2. posix[p]["SHARED"] # "F_UNLCK" BY <1>2, <2>1 DEF Backed, Typed
    <3>3. Level(g) = 3 BY <2>4, <3>1, <3>2, OtherProcesses, LevelFacts
    <3>4. inode[p].eFileLock = 1 BY <1>2, <2>1, <3>1, <3>3, OtherProcesses DEF Backed
    <3>5. PICK h \in FilesOf(p) : file[h].eFileLock >= 1
      BY <1>2, <3>4 DEF Counted, Readers
    <3>6. h # f /\ Level(h) = file[h].eFileLock BY <1>4, <2>1, <3>5
    <3>7. file[h].eFileLock = 1
      <4>1. \A k : ~At(p, k, "unlock_shared") BY <2>1, NotAt DEF Pcs
      <4> QED BY <1>2, <2>3, <3>4, <3>5, <3>6, <4>1 DEF Highest
    <3> QED BY <3>1, <3>3, <3>5, <3>6, <3>7 DEF FilesOf
  <2>5. \A g \in File \ {f} : Level(g) \in 0 .. 4 BY LevelFacts
  <2>6. \A g \in File \ {f} :
          \/ Level(g) < 3
          \/ Level(g) = 3 /\ ProcessOf[g] # p
               /\ \E h \in File \ {f} : ProcessOf[h] = p /\ Level(h) = 1
    BY <2>4, <2>5
  <2> QED BY <1>5, <2>2, <2>6
<1>14. CASE lock_shared(p, f)
  <2>1. call[p] = Idle /\ file' = file /\ At(p, f, "shared_range")'
    BY <1>2, <1>14 DEF lock_shared, CanCall, Goto, At, TypeOK
  <2> QED BY <1>1, <1>3, <2>1, LevelIs DEF Pcs
<1>15. CASE shared_range(p, f)
  <2>1. /\ At(p, f, "shared_range") /\ file' = file
        /\ At(p, f, "drop_pending")' \/ At(p, f, "shared_refused")'
    BY <1>2, <1>15 DEF shared_range, Goto, At, TypeOK
  <2> QED BY <1>1, <1>3, <2>1, LevelIs DEF Pcs
<1>16. CASE drop_pending(p, f)
  <2>1. /\ At(p, f, "drop_pending") /\ call'[p] = Idle /\ file'[f].eFileLock = 1
    BY <1>2, <1>16 DEF drop_pending, Return, SetFile, TypeOK
  <2>2. /\ inode[p].eFileLock = 0 /\ posix[p]["PENDING"] = "F_RDLCK"
        /\ posix[p]["SHARED"] = "F_RDLCK"
    BY <1>2, <2>1, WhereAt DEF WhereFacts, Pcs
  <2>3. \A g \in FilesOf(p) : file[g].eFileLock = 0
    BY <1>2, <2>2 DEF Counted, Readers, Typed, FilesOf
  <2>4. Level(f) = 0 /\ Level(f)' = 1 BY <1>1, <2>1, <2>3, LevelIs DEF Pcs
  <2>5. ASSUME NEW g \in File \ {f} PROVE Level(g) < 3
    <3>1. CASE ProcessOf[g] = p BY <1>4, <1>11, <2>1, <2>3, <3>1 DEF Pcs
    <3>2. CASE ProcessOf[g] # p BY <2>2, <3>2, OtherProcesses, LevelFacts
    <3> QED BY <3>1, <3>2
  <2> QED BY <1>5, <2>4, <2>5
<1>17. CASE shared_refused(p, f)
  <2>1. At(p, f, "shared_refused") /\ file' = file /\ call'[p] = Idle
    BY <1>2, <1>17 DEF shared_refused, Return, TypeOK
  <2> QED BY <1>1, <1>3, <2>1, LevelIs DEF Pcs
<1>18. CASE lock_reserved(p, f)
  <2>1. /\ call[p] = Idle /\ call'[p] = Idle /\ file[f].eFileLock = 1
        /\ file'[f].eFileLock = 2 /\ inode[p].eFileLock = 1
        /\ Grants(p, "RESERVED", "F_WRLCK")
    BY <1>2, <1>18 DEF lock_reserved, CanCall, SetFile, TypeOK, NotPrecluded
  <2>2. Level(f) = 1 /\ Level(f)' = 2 BY <1>1, <2>1, LevelIs
  <2>3. ASSUME NEW g \in File \ {f} PROVE Level(g) < 2
    <3>1. CASE ProcessOf[g] = p
      <4>1. ~At(p, g, "unlock_shared") BY <2>1, NotAt DEF Pcs
      <4> QED BY <1>2, <1>4, <1>11, <2>1, <3>1, <4>1 DEF Highest, Typed
    <3>2. CASE ProcessOf[g] # p
      <4>1. posix[p]["SHARED"] # "F_UNLCK" BY <1>2, <2>1 DEF Backed
      <4> QED BY <2>1, <3>2, <4>1, OtherProcesses, LevelFacts
    <3> QED BY <3>1, <3>2
  <2> QED BY <1>6, <2>2, <2>3
<1>19. CASE lock_pending(p, f)
  <2>1. /\ call[p] = Idle /\ At(p, f, "exclusive_range")' /\ file[f].eFileLock = 2
        /\ file'[f].eFileLock = 3
    BY <1>2, <1>19 DEF lock_pending, CanCall, SetFile, Goto, At, TypeOK
  <2> QED BY <1>1, <1>7, <2>1, LevelIs DEF Pcs
<1>20. ASSUME GrantExclusive(p, f), call[p] = Idle \/ At(p, f, "exclusive_range"),
              call'[p] = Idle, file[f].eFileLock \in {1, 3}
       PROVE  FL!Next
  <2>1. /\ file'[f].eFileLock = 4 /\ Grants(p, "SHARED", "F_WRLCK")
        /\ Cardinality(Readers(p)) = 1
    BY <1>2, <1>20 DEF GrantExclusive, SetFile, TypeOK, Counted
  <2>2. Level(f) \in {1, 3} /\ Level(f)' = 4
    BY <1>1, <1>20, <2>1, LevelIs DEF Pcs
  <2>3. Readers(p) = {f} BY <1>1, <1>20, <2>1, OnlyReader
  <2>4. ASSUME NEW g \in File \ {f} PROVE Level(g) = 0
    <3>1. CASE ProcessOf[g] = p
      BY <1>2, <1>4, <1>11, <1>20, <2>3, <3>1 DEF Readers, Typed, Pcs
    <3>2. CASE ProcessOf[g] # p BY <2>1, <3>2, OtherProcesses
    <3> QED BY <3>1, <3>2
  <2> QED BY <1>8, <2>2, <2>4
<1>21. CASE exclusive_range(p, f)
  <2>1. At(p, f, "exclusive_range") /\ call'[p] = Idle
    BY <1>2, <1>21 DEF exclusive_range, Return, TypeOK
  <2>2. file[f].eFileLock = 3 BY <1>2, <2>1, WhereAt DEF WhereFacts, Pcs
  <2>3. CASE GrantExclusive(p, f) BY <1>20, <2>1, <2>2, <2>3
  <2>4. CASE file' = file BY <1>1, <1>3, <2>1, <2>4, LevelIs DEF Pcs
  <2> QED BY <1>21, <2>3, <2>4 DEF exclusive_range
<1>22. CASE lock_exclusive(p, f)
  BY <1>2, <1>20, <1>22 DEF lock_exclusive, CanCall, TypeOK
<1>23. CASE downgrade(p, f)
  <2>1. call[p] = Idle /\ At(p, f, "downgraded")' /\ file[f].eFileLock > 1
    BY <1>2, <1>23 DEF downgrade, CanCall, Goto, At, TypeOK
  <2> QED BY <1>1, <1>9, <2>1, LevelIs DEF Pcs
<1>24. CASE downgraded(p, f)
  <2>1. At(p, f, "downgraded") /\ call'[p] = Idle /\ file'[f].eFileLock = 1
    BY <1>2, <1>24 DEF downgraded, Return, SetFile, TypeOK
  <2> QED BY <1>1, <1>3, <2>1, LevelIs DEF Pcs
<1>25. CASE unlock(p, f)
  <2>1. call[p] = Idle BY <1>25 DEF unlock, CanCall
  <2>2. CASE file[f].eFileLock > 1
    <3>1. At(p, f, "unlock_shared")' BY <1>2, <1>25, <2>2 DEF unlock, Goto, At, TypeOK
    <3> QED BY <1>1, <1>9, <2>1, <2>2, <3>1, LevelIs DEF Pcs
  <2>3. CASE ~(file[f].eFileLock > 1)
    <3>1. call' = call /\ file'[f].eFileLock = 0
      BY <1>2, <1>25, <2>3 DEF unlock, ReleaseShared, TypeOK
    <3> QED BY <1>1, <1>10, <2>1, <3>1, LevelIs
  <2> QED BY <2>2, <2>3
<1>26. CASE unlock_shared(p, f)
  <2>1. call'[p] = Idle /\ file'[f].eFileLock = 0
    BY <1>2, <1>26 DEF unlock_shared, ReleaseShared, Return, TypeOK
  <2> QED BY <1>1, <1>10, <2>1, LevelIs
<1> QED BY <1>12, <1>13, <1>14, <1>15, <1>16, <1>17, <1>18, <1>19, <1>21, <1>22,
           <1>23, <1>24, <1>25, <1>26 DEF LockStep, UnlockStep

LEMMA RefineCrash ==
  ASSUME IInv, NEW p \in Process, Crash(p)
  PROVE  FL!Next
<1> DEFINE S == FilesOf(p)
<1>1. TypeOK BY DEF IInv
<1>2. S # {} /\ S \in SUBSET File BY DEF Crash, FilesOf
<1>3. ASSUME NEW f \in File PROVE Level(f)' = IF f \in S THEN 0 ELSE Level(f)
  <2>1. CASE f \in S
    <3>1. call'[p] = Idle /\ file'[f].eFileLock = 0
      BY <1>1, <2>1 DEF Crash, TypeOK, FilesOf, NO_LOCK
    <3> QED BY <2>1, <3>1, LevelIs
  <2>2. CASE f \notin S
    <3>1. ProcessOf[f] \in Process \ {p} BY <2>2, ProcessOfAssumption DEF FilesOf
    <3>2. call'[ProcessOf[f]] = call[ProcessOf[f]] /\ file'[f] = file[f]
      BY <1>1, <3>1 DEF Crash, TypeOK
    <3> QED BY <2>2, <3>2 DEF Level
  <2> QED BY <2>1, <2>2
<1>4. Levels' = [f \in File |-> IF f \in S THEN 0 ELSE Levels[f]]
  BY <1>3 DEF Levels
<1>5. FL!Release(S) BY <1>2, <1>4 DEF FL!Release, FL!NO_LOCK, Levels
<1> QED BY <1>2, <1>5 DEF FL!Next

\* Every behaviour of the processes, with their record of the locks and the
\* POSIX locks of the kernel, is one of the lock levels that os.h describes.
THEOREM FileLockImplemented == ASSUME SerialClose PROVE Spec => ImplementsFileLock
<1>1. Init => FL!Init
  <2> SUFFICES ASSUME Init PROVE FL!Init OBVIOUS
  <2>1. \A f \in File : Level(f) = 0
    BY ProcessOfAssumption, LevelIs DEF Init, FilesOf, NO_LOCK
  <2> QED BY <2>1 DEF FL!Init, FL!NO_LOCK
<1>2. ASSUME IInv, [Next]_vars PROVE [FL!Next]_[f \in File |-> Level(f)]
  <2>1. CASE UNCHANGED vars
    <3>1. \A f \in File : Level(f)' = Level(f) BY <2>1 DEF vars, Level
    <3> QED BY <3>1
  <2>2. CASE Next
    <3>1. FL!Next \/ Levels' = Levels BY <1>2, <2>2, RefineHandle, RefineCrash DEF Next
    <3> QED BY <3>1 DEF Levels
  <2> QED BY <1>2, <2>1, <2>2
<1>3. Spec => []IInv BY Inductive
<1>4. IInv /\ [Next]_vars => [FL!Next]_[f \in File |-> Level(f)] BY <1>2
<1> QED BY <1>1, <1>3, <1>4, PTL DEF Spec, ImplementsFileLock, FL!Spec
=============================================================================
