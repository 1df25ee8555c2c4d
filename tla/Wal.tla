-------------------------------- MODULE Wal ---------------------------------
(***************************************************************************)
(* The write-ahead log of SQLite (wal.c): how the connections to one       *)
(* database read from and append to its log, copy the log back into the    *)
(* database, start it anew, and rebuild the shared index after a crash.    *)
(*                                                                         *)
(* The connections meet in three places: the files, the wal-index in       *)
(* shared memory, and its locks.  Between two steps any other connection   *)
(* may run, a process may die, or the power may fail.                      *)
(***************************************************************************)
EXTENDS Integers, Sequences, FiniteSets, FiniteSetsExt

CONSTANTS
  Conn,              \* the connections, each in a process of its own
  Page,              \* the pages of the database, whose size is fixed
  NSlot,             \* the read-mark slots besides slot 0
  MaxTxn,            \* bound: write transactions, and truncations of the log
  MaxFault,          \* bound: ends of processes and power failures
  Modes,             \* the checkpoint modes that are used
  Syncs,             \* the values tried for "synchronous is FULL"
  PowerFailures,     \* the power may fail
  StaleCheckpoints,  \* the log may restart while a checkpointer stands between
                     \* its read of the header and its read of nBackfill
  RestartCrash,      \* a process may die before its restart clears nBackfill
  TruncateCrash,     \* a process may die between the two copies of the header
                     \* of a truncation, when the log had no frame anyway
  None               \* no frame, no header, nothing cached

ASSUME WalAssumption ==
  /\ IsFiniteSet(Page) /\ NSlot \in Nat \ {0} /\ MaxTxn \in Nat
  /\ MaxFault \in Nat
  /\ Modes \subseteq {"PASSIVE", "FULL", "TRUNCATE"}
  /\ Syncs \subseteq BOOLEAN
  /\ {PowerFailures, StaleCheckpoints, RestartCrash, TruncateCrash} \subseteq BOOLEAN

VARIABLES
  \* the files, as the operating system shows them, and what a power failure
  \* may bring back in their place
  db, dbOlder, wal, walOlder, walHdr, walHdrOlder, walTruncated,
  \* the wal-index
  aHdr, nBackfill, aReadMark, aPgno,
  \* the locks on the wal-index
  shared, exclusive,
  pWal,              \* connection -> its Wal object
  nTxn,              \* write transactions and truncations begun so far
  nFault,            \* processes and power failures so far
  fullSync           \* synchronous is FULL and not NORMAL; fixed

files == <<db, dbOlder, wal, walOlder, walHdr, walHdrOlder, walTruncated>>
shm == <<aHdr, nBackfill, aReadMark, aPgno>>
locks == <<shared, exclusive>>
bounds == <<nTxn, nFault, fullSync>>
vars == <<files, shm, locks, pWal, bounds>>

MaxFrame == MaxTxn * Cardinality(Page)
Frames == 1 .. MaxFrame
Slots == 1 .. NSlot
READMARK_NOT_USED == MaxFrame + 1

\* What a page holds is named by the transaction that wrote it.
Txn == 0 .. MaxTxn

\* the index numbers of the locks
WRITE == 0
CKPT == 1
RECOVER == 2
READ_LOCK(i) == 3 + i
ReadLocks == {READ_LOCK(i) : i \in Slots}

\* A frame ends the chain of checksums that begins with the salt of the log's
\* header: after is the transaction of the frame it was computed from.
Frame == [pgno : Page, by : Txn, commit : BOOLEAN, salt : Txn, after : Txn]

\* The header of the file.  seq: the log has been restarted before (nCkpt > 0).
WalHdr == [salt : Txn, seq : BOOLEAN]

\* cksum stands for the checksum of the last frame.
Header == [mxFrame : 0 .. MaxFrame, salt : Txn, iChange : Txn, cksum : Txn]

ASSUME NoneAssumption ==
  None \notin Page /\ None \notin Frame /\ None \notin WalHdr /\ None \notin Header

-----------------------------------------------------------------------------
(* The log file and the images *)

\* The database file, with the frames 1..n of log f on top.
LogImage(file, f, n) ==
  LET Holds(k, p) == f[k] # None /\ f[k].pgno = p
  IN [p \in Page |->
        IF \E k \in 1 .. n : Holds(k, p)
        THEN f[CHOOSE k \in 1 .. n : Holds(k, p) /\ \A j \in k + 1 .. n : ~Holds(j, p)].by
        ELSE file[p]]

\* Frame k of log f passes the tests of walDecodeFrame() under header h.
ValidFrame(f, h, k) ==
  /\ f[k] # None
  /\ f[k].salt = h.salt
  /\ IF k = 1 THEN f[k].after = 0 ELSE f[k - 1] # None /\ f[k].after = f[k - 1].by

\* Those before the first that does not; and up to the last commit among them.
ValidFrames(f, h) ==
  IF h = None THEN 0
  ELSE CHOOSE n \in 0 .. MaxFrame :
         /\ \A k \in 1 .. n : ValidFrame(f, h, k)
         /\ n = MaxFrame \/ ~ValidFrame(f, h, n + 1)

CommittedFrames(f, h) ==
  LET valid == ValidFrames(f, h)
  IN CHOOSE n \in 0 .. valid :
       /\ n = 0 \/ f[n].commit
       /\ \A k \in n + 1 .. valid : ~f[k].commit

RecoveredImage(file, f, h) == LogImage(file, f, CommittedFrames(f, h))

\* What a power failure may bring back in place of a write that is not synced.
Unsynced(older, now) == IF PowerFailures THEN older \cup {now} ELSE {}

\* xWrite() of one frame, and xSync() of the log.
WriteFrame(k, frame) ==
  /\ wal' = [wal EXCEPT ![k] = frame]
  /\ walOlder' = [walOlder EXCEPT ![k] = Unsynced(@, wal[k])]
  /\ UNCHANGED <<db, dbOlder, walHdr, walHdrOlder, walTruncated>>

SyncWal ==
  /\ walOlder' = [k \in Frames |-> {}]
  /\ walHdrOlder' = {} /\ walTruncated' = {}
  /\ UNCHANGED <<db, dbOlder, wal, walHdr>>

-----------------------------------------------------------------------------
(* Connections and locks *)

Closed ==
  [pc |-> "closed", hdr |-> None, readLock |-> -1, minFrame |-> 0,
   changed |-> FALSE,  \* pChanged of the call in progress
   nCkpt |-> FALSE,    \* nCkpt > 0
   cache |-> None,     \* the image of the pages cached by earlier transactions
   txn |-> 0,          \* the open write transaction
   page |-> None, commit |-> FALSE,   \* the arguments of walFrames()
   mode |-> "READ",    \* what the header is read for: READ, or a checkpoint
   slot |-> 0, mark |-> 0,         \* mxI and mxReadMark, or the checkpoint's i
   mxSafe |-> 0, plan |-> {}]      \* mxSafeFrame and the frames of the iterator

Init ==
  /\ db = [p \in Page |-> 0] /\ dbOlder = [p \in Page |-> {}]
  /\ wal = [k \in Frames |-> None] /\ walOlder = [k \in Frames |-> {}]
  /\ walHdr = None /\ walHdrOlder = {} /\ walTruncated = {}
  /\ aHdr = [i \in 0 .. 1 |-> None]
  /\ nBackfill = 0
  /\ aReadMark = [i \in Slots |-> 0]
  /\ aPgno = [k \in Frames |-> None]
  /\ shared = [c \in Conn |-> {}] /\ exclusive = [c \in Conn |-> {}]
  /\ pWal = [c \in Conn |-> Closed]
  /\ nTxn = 0 /\ nFault = 0
  /\ fullSync \in Syncs

At(c, label) == pWal[c].pc = label
Goto(c, label) == pWal' = [pWal EXCEPT ![c].pc = label]

Unlocked(c, ls) == \A d \in Conn \ {c} : (shared[d] \cup exclusive[d]) \cap ls = {}
NotExclusive(c, l) == \A d \in Conn \ {c} : l \notin exclusive[d]

LockExclusive(c, ls) ==
  /\ exclusive' = [exclusive EXCEPT ![c] = @ \cup ls]
  /\ UNCHANGED shared
UnlockExclusive(c, ls) ==
  /\ exclusive' = [exclusive EXCEPT ![c] = @ \ ls]
  /\ UNCHANGED shared
LockShared(c, l) ==
  /\ shared' = [shared EXCEPT ![c] = @ \cup {l}]
  /\ UNCHANGED exclusive
UnlockShared(c, l) ==
  /\ shared' = [shared EXCEPT ![c] = @ \ {l}]
  /\ UNCHANGED exclusive

\* The image a connection reads: walFindFrame(), and the database behind it.
ReadView(c) ==
  IF pWal[c].readLock <= 0 THEN db
  ELSE [p \in Page |->
          LET last == pWal[c].hdr.mxFrame
              first == pWal[c].minFrame
          IN IF \E k \in first .. last : aPgno[k] = p
             THEN wal[CHOOSE k \in first .. last :
                        aPgno[k] = p /\ \A j \in k + 1 .. last : aPgno[j] # p].by
             ELSE db[p]]

\* With the page that is being written, which is still dirty in the cache.
View(c) ==
  IF pWal[c].page = None THEN ReadView(c)
  ELSE [ReadView(c) EXCEPT ![pWal[c].page] = pWal[c].txn]

InTransaction(c) == pWal[c].readLock >= 0 \/ pWal[c].txn # 0

-----------------------------------------------------------------------------
(* Processes *)

\* The first process of a database finds the wal-index of zeros.
sqlite3WalOpen(c) ==
  /\ At(c, "closed")
  /\ Goto(c, "idle")
  /\ IF \A d \in Conn \ {c} : At(d, "closed")
     THEN /\ aHdr' = [i \in 0 .. 1 |-> None]
          /\ nBackfill' = 0
          /\ aReadMark' = [i \in Slots |-> 0]
          /\ aPgno' = [k \in Frames |-> None]
     ELSE UNCHANGED shm
  /\ UNCHANGED <<files, locks, bounds>>

Fault == nFault < MaxFault /\ nFault' = nFault + 1 /\ UNCHANGED <<nTxn, fullSync>>

\* The locks of a process end with it; what it left in the wal-index stays.
Crash(c) ==
  /\ ~At(c, "closed")
  /\ At(c, "restart_reset") => RestartCrash
  /\ At(c, "restart_publish") /\ aHdr[0].mxFrame = 0 => TruncateCrash
  /\ pWal' = [pWal EXCEPT ![c] = Closed]
  /\ shared' = [shared EXCEPT ![c] = {}]
  /\ exclusive' = [exclusive EXCEPT ![c] = {}]
  /\ Fault
  /\ UNCHANGED <<files, shm>>

\* What a power failure may leave: of every write since the last sync of its
\* file, the old content, the new one, or something that fails its checksum;
\* and a file from before it was truncated.
Remains(now, older, torn) == {now} \cup older \cup (IF older = {} THEN {} ELSE {torn})

FileRemains(now, older, torn) ==
  LET unsynced == {i \in DOMAIN now : older[i] # {}}
      left == [i \in unsynced |-> Remains(now[i], older[i], torn)]
      pick == {f \in [unsynced -> UNION {left[i] : i \in unsynced}] :
                 \A i \in unsynced : f[i] \in left[i]}
  IN {[i \in DOMAIN now |-> IF i \in unsynced THEN f[i] ELSE now[i]] : f \in pick}

HalfWritten == MaxTxn + 1
DbRemains == FileRemains(db, dbOlder, HalfWritten)
LogRemains ==
  {[wal |-> f, hdr |-> h] : f \in FileRemains(wal, walOlder, None),
                            h \in Remains(walHdr, walHdrOlder, None)}
    \cup walTruncated

PowerLoss ==
  /\ PowerFailures
  /\ db' \in DbRemains /\ dbOlder' = [p \in Page |-> {}]
  /\ \E log \in LogRemains : wal' = log.wal /\ walHdr' = log.hdr
  /\ walOlder' = [k \in Frames |-> {}] /\ walHdrOlder' = {} /\ walTruncated' = {}
  /\ aHdr' = [i \in 0 .. 1 |-> None]
  /\ nBackfill' = 0
  /\ aReadMark' = [i \in Slots |-> 0]
  /\ aPgno' = [k \in Frames |-> None]
  /\ shared' = [c \in Conn |-> {}] /\ exclusive' = [c \in Conn |-> {}]
  /\ pWal' = [c \in Conn |-> Closed]
  /\ Fault

-----------------------------------------------------------------------------
(* Reading the header: walIndexReadHdr() *)

GoodHdr == aHdr[0] # None /\ aHdr[0] = aHdr[1]

\* walTryBeginRead() or walCheckpoint() goes on.
AfterHdr(c) == IF pWal[c].mode = "READ" THEN "try" ELSE "ck_start"

\* A checkpointer of a mode other than PASSIVE holds the WRITE lock already.
OwnLocks(c) ==
  CASE pWal[c].mode = "READ" -> {}
    [] pWal[c].mode = "PASSIVE" -> {CKPT}
    [] OTHER -> {CKPT, WRITE}

\* What becomes of *pChanged: pagerBeginReadTransaction() throws the cached
\* pages away, a checkpoint forgets the header in the end.
Changed(w) ==
  IF w.mode = "READ" THEN [w EXCEPT !.cache = None] ELSE [w EXCEPT !.changed = TRUE]

WithHdr(w, h) == [(IF w.hdr = h THEN w ELSE Changed(w)) EXCEPT !.hdr = h]

walIndexTryHdr(c) ==
  /\ GoodHdr
  /\ pWal' = [pWal EXCEPT ![c] = [WithHdr(pWal[c], aHdr[0]) EXCEPT !.pc = AfterHdr(c)]]

\* A read transaction begins with it (Closed.mode), and again when it retries.
Reads(c) == At(c, "idle") \/ At(c, "hdr")

read_hdr(c) ==
  /\ Reads(c)
  /\ walIndexTryHdr(c)
  /\ UNCHANGED <<files, shm, locks, bounds>>

\* Nobody is at work on a bad header, as the WRITE lock shows: it is rebuilt.
CanRecover(c) == ~GoodHdr /\ Unlocked(c, {WRITE, CKPT, RECOVER})

\* A reader that finds a lock taken tries again; a checkpoint ends.
hdr_busy(c) ==
  /\ At(c, "hdr") /\ pWal[c].mode # "READ"
  /\ ~GoodHdr /\ ~CanRecover(c)
  /\ Goto(c, "ck_return")
  /\ UNCHANGED <<files, shm, locks, bounds>>

\* What is found of the header: a log without a frame is not even opened.  (What
\* a power failure has left of its frames may fail the checksum.)
FoundHdr ==
  IF \E k \in Frames : wal[k] # None THEN {walHdr}
  ELSE {None} \cup (IF PowerFailures THEN {walHdr} ELSE {})

\* walIndexRecover(): the index is made from the frames that are valid, the
\* header ends at the last commit among them.
walIndexRecover(c) ==
  /\ Reads(c) /\ CanRecover(c)
  /\ LockExclusive(c, {WRITE, CKPT, RECOVER})
  /\ \E found \in FoundHdr :
       LET n == CommittedFrames(wal, found)
           h == [mxFrame |-> n, iChange |-> 0,
                 salt |-> IF found = None THEN 0 ELSE found.salt,
                 cksum |-> IF n = 0 THEN 0 ELSE wal[n].by]
       IN /\ pWal' = [pWal EXCEPT ![c].pc = "recover_publish", ![c].hdr = h,
                        ![c].nCkpt = IF found = None THEN @ ELSE found.seq]
          /\ aHdr' = [aHdr EXCEPT ![1] = h]
          /\ aPgno' = IF found = None THEN aPgno
                      ELSE [k \in Frames |-> IF k <= ValidFrames(wal, found)
                                             THEN wal[k].pgno ELSE None]
  /\ UNCHANGED <<files, nBackfill, aReadMark, bounds>>

recover_publish(c) ==
  /\ At(c, "recover_publish")
  /\ aHdr' = [aHdr EXCEPT ![0] = pWal[c].hdr]
  /\ Goto(c, "recover_reset")
  /\ UNCHANGED <<files, nBackfill, aReadMark, aPgno, locks, bounds>>

recover_reset(c) ==
  /\ At(c, "recover_reset")
  /\ nBackfill' = 0
  /\ Goto(c, "recover_marks")
  /\ UNCHANGED <<files, aHdr, aReadMark, aPgno, locks, bounds>>

recover_marks(c) ==
  /\ At(c, "recover_marks")
  /\ aReadMark' = [i \in Slots |->
       IF ~Unlocked(c, {READ_LOCK(i)}) THEN aReadMark[i]
       ELSE IF i = 1 /\ pWal[c].hdr.mxFrame > 0 THEN pWal[c].hdr.mxFrame
       ELSE READMARK_NOT_USED]
  /\ UnlockExclusive(c, {WRITE, CKPT, RECOVER} \ OwnLocks(c))
  /\ pWal' = [pWal EXCEPT ![c] = [Changed(pWal[c]) EXCEPT !.pc = AfterHdr(c)]]
  /\ UNCHANGED <<files, aHdr, nBackfill, aPgno, bounds>>

-----------------------------------------------------------------------------
(* Read transactions: walTryBeginRead() *)

Begun(w, slot) ==
  [w EXCEPT !.pc = "reading", !.readLock = slot, !.slot = 0, !.mark = 0,
            !.minFrame = IF slot = 0 THEN 0 ELSE @]

Retry(c) ==
  pWal' = [pWal EXCEPT ![c].pc = IF pWal[c].txn # 0 THEN "rebegin" ELSE "hdr",
                       ![c].minFrame = 0, ![c].slot = 0, ![c].mark = 0]

AllBackfilled(c) == nBackfill = pWal[c].hdr.mxFrame

\* The whole log is in the database: it can be ignored, under READ_LOCK(0).
read_without_wal(c) ==
  /\ At(c, "try") /\ AllBackfilled(c)
  /\ NotExclusive(c, READ_LOCK(0))
  /\ IF aHdr[0] = pWal[c].hdr
     THEN /\ LockShared(c, READ_LOCK(0))
          /\ pWal' = [pWal EXCEPT ![c] = Begun(pWal[c], 0)]
     ELSE /\ Retry(c)
          /\ UNCHANGED locks
  /\ UNCHANGED <<files, shm, bounds>>

\* The largest mark that is not beyond the header; a free slot is given the
\* exact one when there is none.
choose_mark(c) ==
  /\ \/ At(c, "try") /\ ~(AllBackfilled(c) /\ NotExclusive(c, READ_LOCK(0)))
     \/ At(c, "rebegin")
  /\ LET mx == pWal[c].hdr.mxFrame
         fit == {i \in Slots : aReadMark[i] <= mx}
         best == Max({0} \cup {aReadMark[i] : i \in fit})
         free == {i \in Slots : Unlocked(c, {READ_LOCK(i)})}
         Take(i, m) == pWal' = [pWal EXCEPT ![c].pc = "slot", ![c].slot = i, ![c].mark = m]
     IN IF free # {} /\ (best < mx \/ fit = {})
        THEN /\ aReadMark' = [aReadMark EXCEPT ![Min(free)] = mx]
             /\ Take(Min(free), mx)
        ELSE /\ fit # {}
             /\ Take(Max({i \in fit : aReadMark[i] = best}), best)
             /\ UNCHANGED aReadMark
  /\ UNCHANGED <<files, aHdr, nBackfill, aPgno, locks, bounds>>

lock_slot(c) ==
  /\ At(c, "slot")
  /\ IF NotExclusive(c, READ_LOCK(pWal[c].slot))
     THEN /\ LockShared(c, READ_LOCK(pWal[c].slot))
          /\ pWal' = [pWal EXCEPT ![c].pc = "verify", ![c].minFrame = nBackfill + 1]
     ELSE /\ Retry(c)
          /\ UNCHANGED locks
  /\ UNCHANGED <<files, shm, bounds>>

\* What walFrames() does next with the page it was called for.
FrameStep(w) ==
  IF w.readLock = 0 THEN "restart" ELSE IF w.hdr.mxFrame = 0 THEN "header" ELSE "frame"

\* faulty variant: without a second look at the header
MarkStands(c) == aReadMark[pWal[c].slot] = pWal[c].mark

SnapshotStands(c) ==
  aReadMark[pWal[c].slot] = pWal[c].mark /\ aHdr[0] = pWal[c].hdr

verify_slot(c) ==
  /\ At(c, "verify")
  /\ IF SnapshotStands(c)
     THEN /\ LET w == [pWal[c] EXCEPT !.readLock = pWal[c].slot]
             IN pWal' = [pWal EXCEPT ![c] =
                  IF w.txn = 0 THEN Begun(w, w.slot)
                  ELSE [w EXCEPT !.pc = FrameStep(w), !.slot = 0, !.mark = 0]]
          /\ UNCHANGED locks
     ELSE /\ UnlockShared(c, READ_LOCK(pWal[c].slot))
          /\ Retry(c)
  /\ UNCHANGED <<files, shm, bounds>>

\* The pages that were read stay in the cache.
sqlite3WalEndReadTransaction(c) ==
  /\ At(c, "reading") /\ pWal[c].txn = 0
  /\ UnlockShared(c, READ_LOCK(pWal[c].readLock))
  /\ pWal' = [pWal EXCEPT ![c].pc = "idle", ![c].readLock = -1, ![c].minFrame = 0,
                          ![c].cache = ReadView(c)]
  /\ UNCHANGED <<files, shm, bounds>>

-----------------------------------------------------------------------------
(* Write transactions *)

sqlite3WalBeginWriteTransaction(c) ==
  /\ At(c, "reading") /\ pWal[c].txn = 0
  /\ nTxn < MaxTxn
  /\ Unlocked(c, {WRITE})
  /\ aHdr[0] = pWal[c].hdr
  /\ LockExclusive(c, {WRITE})
  /\ nTxn' = nTxn + 1
  /\ pWal' = [pWal EXCEPT ![c].txn = nTxn + 1, ![c].cache = None]
  /\ UNCHANGED <<files, shm, nFault, fullSync>>

\* The pages the transaction has spilled into the log.
Spilled(c) == {wal[k].pgno : k \in aHdr[0].mxFrame + 1 .. pWal[c].hdr.mxFrame}

\* The pager hands over one dirty page: to make room in its cache, or as the
\* last one of a commit.
walFrames(c, p, commit) ==
  /\ At(c, "reading") /\ pWal[c].txn # 0
  /\ p \notin Spilled(c)
  /\ pWal' = [pWal EXCEPT ![c].pc = FrameStep(pWal[c]), ![c].page = p,
                          ![c].commit = commit]
  /\ UNCHANGED <<files, shm, locks, bounds>>

\* walRestartHdr(), up to the first copy of the header.
RestartHdr(c, salt) ==
  LET h == [pWal[c].hdr EXCEPT !.mxFrame = 0, !.salt = salt]
  IN /\ pWal' = [pWal EXCEPT ![c].pc = "restart_publish", ![c].hdr = h,
                             ![c].nCkpt = TRUE]
     /\ aHdr' = [aHdr EXCEPT ![1] = h]
     /\ LockExclusive(c, ReadLocks)
     /\ UNCHANGED <<nBackfill, aReadMark, aPgno>>

\* faulty variant: the shared locks of the readers do not count
NoWriterOfMarks(c) == \A l \in ReadLocks : NotExclusive(c, l)

NoReaderOfWal(c) == Unlocked(c, ReadLocks)

\* walRestartLog() of a writer that reads the database alone
walRestartLog(c) ==
  /\ At(c, "restart")
  /\ nBackfill > 0 /\ NoReaderOfWal(c)
  /\ StaleCheckpoints \/ \A d \in Conn : ~At(d, "ck_start")
  /\ RestartHdr(c, pWal[c].txn)
  /\ UNCHANGED <<files, bounds>>

restart_not_possible(c) ==
  /\ At(c, "restart")
  /\ nBackfill = 0 \/ ~NoReaderOfWal(c)
  /\ UnlockShared(c, READ_LOCK(0))
  /\ pWal' = [pWal EXCEPT ![c].pc = "rebegin", ![c].readLock = -1]
  /\ UNCHANGED <<files, shm, bounds>>

restart_publish(c) ==
  /\ At(c, "restart_publish")
  /\ aHdr' = [aHdr EXCEPT ![0] = pWal[c].hdr]
  /\ Goto(c, "restart_reset")
  /\ UNCHANGED <<files, nBackfill, aReadMark, aPgno, locks, bounds>>

\* faulty variant: the number of copied frames is that of the old log
restart_keeps_nBackfill(c) ==
  /\ At(c, "restart_reset")
  /\ Goto(c, "restart_marks")
  /\ UNCHANGED <<files, shm, locks, bounds>>

restart_reset(c) ==
  /\ At(c, "restart_reset")
  /\ nBackfill' = 0
  /\ Goto(c, "restart_marks")
  /\ UNCHANGED <<files, aHdr, aReadMark, aPgno, locks, bounds>>

RestartMarks(c) ==
  /\ At(c, "restart_marks")
  /\ aReadMark' = [i \in Slots |-> IF i = 1 THEN 0 ELSE READMARK_NOT_USED]
  /\ exclusive' = [exclusive EXCEPT ![c] = @ \ ReadLocks]
  /\ UNCHANGED <<aHdr, nBackfill, aPgno, bounds>>

\* The writer begins to read once more, now from the log.
restart_marks(c) ==
  /\ pWal[c].mode = "READ"
  /\ RestartMarks(c)
  /\ shared' = [shared EXCEPT ![c] = @ \ {READ_LOCK(0)}]
  /\ pWal' = [pWal EXCEPT ![c].pc = "rebegin", ![c].readLock = -1]
  /\ UNCHANGED files

\* The first frame of a log is preceded by a header of the file.
write_wal_header(c) ==
  /\ At(c, "header")
  /\ LET salt == IF pWal[c].nCkpt THEN pWal[c].hdr.salt ELSE pWal[c].txn
     IN /\ walHdr' = [salt |-> salt, seq |-> pWal[c].nCkpt]
        /\ pWal' = [pWal EXCEPT ![c].pc = "sync_header", ![c].hdr.salt = salt,
                                ![c].hdr.cksum = 0]
  /\ walHdrOlder' = Unsynced(walHdrOlder, walHdr)
  /\ UNCHANGED <<db, dbOlder, wal, walOlder, walTruncated, shm, locks, bounds>>

sync_wal_header(c) ==
  /\ At(c, "sync_header")
  /\ SyncWal
  /\ Goto(c, "frame")
  /\ UNCHANGED <<shm, locks, bounds>>

\* walIndexAppend(): the first frame clears the index; an entry that is there
\* already is what a writer that died has left, and goes with all behind it.
walIndexAppend(c, k, p) ==
  aPgno' = [j \in Frames |->
    IF j = k THEN p
    ELSE IF k = 1 THEN None
    ELSE IF aPgno[k] # None /\ j > pWal[c].hdr.mxFrame /\ pWal[c].hdr.mxFrame > 0 THEN None
    ELSE aPgno[j]]

NextFrame(c) == pWal[c].hdr.mxFrame + 1

WriteNextFrame(c) ==
  WriteFrame(NextFrame(c),
    [pgno |-> pWal[c].page, by |-> pWal[c].txn, commit |-> pWal[c].commit,
     salt |-> pWal[c].hdr.salt, after |-> pWal[c].hdr.cksum])

\* A spilled page is visible to its writer alone.
spill_frame(c) ==
  /\ At(c, "frame") /\ ~pWal[c].commit
  /\ WriteNextFrame(c)
  /\ walIndexAppend(c, NextFrame(c), pWal[c].page)
  /\ pWal' = [pWal EXCEPT ![c].pc = "reading", ![c].page = None,
                ![c].hdr.mxFrame = NextFrame(c), ![c].hdr.cksum = pWal[c].txn]
  /\ UNCHANGED <<aHdr, nBackfill, aReadMark, locks, bounds>>

commit_frame(c) ==
  /\ At(c, "frame") /\ pWal[c].commit
  /\ WriteNextFrame(c)
  /\ Goto(c, IF fullSync THEN "sync_frame" ELSE "append")
  /\ UNCHANGED <<shm, locks, bounds>>

sync_frame(c) ==
  /\ At(c, "sync_frame")
  /\ SyncWal
  /\ Goto(c, "append")
  /\ UNCHANGED <<shm, locks, bounds>>

append_commit(c) ==
  /\ At(c, "append")
  /\ walIndexAppend(c, NextFrame(c), pWal[c].page)
  /\ LET h == [pWal[c].hdr EXCEPT !.mxFrame = NextFrame(c), !.iChange = @ + 1,
                                  !.cksum = pWal[c].txn]
     IN /\ aHdr' = [aHdr EXCEPT ![1] = h]
        /\ pWal' = [pWal EXCEPT ![c].pc = "publish", ![c].hdr = h]
  /\ UNCHANGED <<files, nBackfill, aReadMark, locks, bounds>>

\* The commit: other connections see it from here on.
publish_commit(c) ==
  /\ At(c, "publish")
  /\ aHdr' = [aHdr EXCEPT ![0] = pWal[c].hdr]
  /\ UnlockExclusive(c, {WRITE})
  /\ pWal' = [pWal EXCEPT ![c].pc = "reading", ![c].txn = 0, ![c].page = None,
                          ![c].commit = FALSE]
  /\ UNCHANGED <<files, nBackfill, aReadMark, aPgno, bounds>>

\* The header goes back to the last commit; walCleanupHash()
sqlite3WalUndo(c) ==
  /\ At(c, "reading") /\ pWal[c].txn # 0
  /\ pWal' = [pWal EXCEPT ![c].hdr = aHdr[0], ![c].txn = 0]
  /\ aPgno' = IF aHdr[0].mxFrame \in {0, pWal[c].hdr.mxFrame} THEN aPgno
              ELSE [k \in Frames |-> IF k > aHdr[0].mxFrame THEN None ELSE aPgno[k]]
  /\ UnlockExclusive(c, {WRITE})
  /\ UNCHANGED <<files, aHdr, nBackfill, aReadMark, bounds>>

-----------------------------------------------------------------------------
(* Checkpoints *)

\* A WRITE lock that is taken makes the checkpoint a passive one.
sqlite3WalCheckpoint(c, mode) ==
  /\ At(c, "idle")
  /\ mode = "TRUNCATE" => nTxn < MaxTxn
  /\ Unlocked(c, {CKPT})
  /\ LET own == mode # "PASSIVE" /\ Unlocked(c, {WRITE})
     IN /\ LockExclusive(c, {CKPT} \cup (IF own THEN {WRITE} ELSE {}))
        /\ pWal' = [pWal EXCEPT ![c].pc = "hdr",
                                ![c].mode = IF own THEN mode ELSE "PASSIVE"]
  /\ UNCHANGED <<files, shm, bounds>>

\* walCheckpoint() begins: is there anything to copy?
ck_start(c) ==
  /\ At(c, "ck_start")
  /\ pWal' = [pWal EXCEPT
       ![c].pc = IF nBackfill < pWal[c].hdr.mxFrame THEN "ck_slots" ELSE "ck_end",
       ![c].slot = 1, ![c].mxSafe = pWal[c].hdr.mxFrame]
  /\ UNCHANGED <<files, shm, locks, bounds>>

\* The frame that holds the newest version of each page, for the frames that
\* are not in the database yet: walIteratorInit(), and the test in the loop.
\* A page whose newest version is not safe is left out.
Plan(c, mxSafe) ==
  LET Newest(p) == Max({0} \cup {k \in nBackfill + 1 .. pWal[c].hdr.mxFrame : aPgno[k] = p})
  IN {k \in {Newest(p) : p \in Page} : k > 0 /\ k <= mxSafe}

\* faulty variant: the shared locks of the readers do not count
InUseExclusively(c, i) == ~NotExclusive(c, READ_LOCK(i))

InUse(c, i) == ~Unlocked(c, {READ_LOCK(i)})

\* One read-mark slot: what a reader still needs bounds the checkpoint.
ck_slot(c) ==
  /\ At(c, "ck_slots")
  /\ LET i == pWal[c].slot
         below == aReadMark[i] < pWal[c].mxSafe
         safe == IF below /\ InUse(c, i) THEN aReadMark[i] ELSE pWal[c].mxSafe
         last == i = NSlot
         copies == last /\ nBackfill < safe
     IN /\ aReadMark' =
             IF below /\ ~InUse(c, i)
             THEN [aReadMark EXCEPT ![i] = IF i = 1 THEN safe ELSE READMARK_NOT_USED]
             ELSE aReadMark
        /\ pWal' = [pWal EXCEPT
             ![c].mxSafe = safe, ![c].slot = IF last THEN 0 ELSE i + 1,
             ![c].pc = IF ~last THEN @ ELSE IF copies THEN "ck_lock" ELSE "ck_end",
             ![c].plan = IF copies THEN Plan(c, safe) ELSE {}]
  /\ UNCHANGED <<files, aHdr, nBackfill, aPgno, locks, bounds>>

\* faulty variant: the log is copied before it is on the disk
SyncNothing == UNCHANGED files

SyncBeforeCopy == SyncWal

\* Readers of the database alone keep it from being written.
ck_lock(c) ==
  /\ At(c, "ck_lock")
  /\ IF Unlocked(c, {READ_LOCK(0)})
     THEN LockExclusive(c, {READ_LOCK(0)}) /\ SyncBeforeCopy /\ Goto(c, "ck_copy")
     ELSE /\ pWal' = [pWal EXCEPT ![c].pc = "ck_end", ![c].mxSafe = 0, ![c].plan = {}]
          /\ UNCHANGED <<files, locks>>
  /\ UNCHANGED <<shm, bounds>>

\* In the order of the page numbers, which are the caller's choice.
ck_copy(c, k) ==
  /\ At(c, "ck_copy") /\ k \in pWal[c].plan
  /\ db' = [db EXCEPT ![aPgno[k]] = wal[k].by]
  /\ dbOlder' = [dbOlder EXCEPT ![aPgno[k]] = Unsynced(@, db[aPgno[k]])]
  /\ pWal' = [pWal EXCEPT ![c].plan = @ \ {k}]
  /\ UNCHANGED <<wal, walOlder, walHdr, walHdrOlder, walTruncated, shm, locks, bounds>>

\* faulty variant: the log may begin anew before the database is on the disk
NotSynced(c) == dbOlder

\* The database is synced when all of the log is in it.
SyncedWhenComplete(c) ==
  IF pWal[c].mxSafe = aHdr[0].mxFrame THEN [p \in Page |-> {}] ELSE dbOlder

ck_done(c) ==
  /\ At(c, "ck_copy") /\ pWal[c].plan = {}
  /\ dbOlder' = SyncedWhenComplete(c)
  /\ nBackfill' = pWal[c].mxSafe
  /\ UnlockExclusive(c, {READ_LOCK(0)})
  /\ pWal' = [pWal EXCEPT ![c].pc = "ck_end", ![c].mxSafe = 0]
  /\ UNCHANGED <<db, wal, walOlder, walHdr, walHdrOlder, walTruncated, aHdr, aReadMark,
                 aPgno, bounds>>

\* faulty variant: a log that could be copied in part only is truncated
CanTruncateCopied(c) == pWal[c].mode = "TRUNCATE" /\ NoReaderOfWal(c)

\* A truncation needs the log copied and nobody reading from it.
CanTruncate(c) ==
  /\ pWal[c].mode = "TRUNCATE"
  /\ nBackfill >= pWal[c].hdr.mxFrame
  /\ NoReaderOfWal(c)

ck_truncate(c) ==
  /\ At(c, "ck_end") /\ CanTruncate(c)
  /\ nTxn' = nTxn + 1
  /\ RestartHdr(c, nTxn + 1)
  /\ UNCHANGED <<files, nFault, fullSync>>

truncate_wal(c) ==
  /\ pWal[c].mode # "READ"
  /\ RestartMarks(c)
  /\ wal' = [k \in Frames |-> None] /\ walOlder' = [k \in Frames |-> {}]
  /\ walHdr' = None /\ walHdrOlder' = {}
  /\ walTruncated' = IF PowerFailures THEN LogRemains ELSE {}
  /\ Goto(c, "ck_return")
  /\ UNCHANGED <<db, dbOlder, shared>>

\* faulty variant: the next reader finds its header unchanged
HdrKept(w) == w.hdr

\* The header is forgotten when it is not the one of the cached pages.
HdrAfterCheckpoint(w) == IF w.changed THEN None ELSE w.hdr

ck_return(c) ==
  /\ At(c, "ck_return") \/ (At(c, "ck_end") /\ ~CanTruncate(c))
  /\ LET h == HdrAfterCheckpoint(pWal[c])
     IN pWal' = [pWal EXCEPT ![c] =
          [Closed EXCEPT !.pc = "idle", !.hdr = h, !.nCkpt = pWal[c].nCkpt,
                         !.cache = IF h = None THEN None ELSE pWal[c].cache]]
  /\ UnlockExclusive(c, {CKPT, WRITE})
  /\ UNCHANGED <<files, shm, bounds>>

-----------------------------------------------------------------------------
(* The system *)

ReadHdr(c) ==
  \/ read_hdr(c) \/ hdr_busy(c) \/ walIndexRecover(c)
  \/ recover_publish(c) \/ recover_reset(c) \/ recover_marks(c)

Read(c) ==
  \/ read_without_wal(c) \/ choose_mark(c)
  \/ lock_slot(c) \/ verify_slot(c) \/ sqlite3WalEndReadTransaction(c)

Restart(c) ==
  \/ walRestartLog(c) \/ restart_not_possible(c) \/ restart_publish(c)
  \/ restart_reset(c) \/ restart_marks(c)

Write(c) ==
  \/ sqlite3WalBeginWriteTransaction(c)
  \/ \E p \in Page, commit \in BOOLEAN : walFrames(c, p, commit)
  \/ write_wal_header(c) \/ sync_wal_header(c) \/ spill_frame(c)
  \/ commit_frame(c) \/ sync_frame(c) \/ append_commit(c) \/ publish_commit(c)
  \/ sqlite3WalUndo(c)

Checkpoint(c) ==
  \/ \E mode \in Modes : sqlite3WalCheckpoint(c, mode)
  \/ ck_start(c) \/ ck_slot(c) \/ ck_lock(c) \/ ck_done(c)
  \/ \E k \in pWal[c].plan : ck_copy(c, k)
  \/ ck_truncate(c) \/ truncate_wal(c) \/ ck_return(c)

Next ==
  \/ PowerLoss
  \/ \E c \in Conn :
       \/ sqlite3WalOpen(c) \/ Crash(c)
       \/ ReadHdr(c) \/ Read(c) \/ Restart(c) \/ Write(c) \/ Checkpoint(c)

Spec == Init /\ [][Next]_vars

-----------------------------------------------------------------------------
(* Properties *)

Restarting == \E c \in Conn : At(c, "restart_reset")

\* The shapes of the files, the wal-index and the Wal objects; and the locks
\* are those that the Wal objects say: the read lock, the WRITE lock of a
\* writer, and no lock held exclusively by one connection and at all by
\* another (walLockShared, walLockExclusive).
TypeOK ==
  /\ db \in [Page -> 0 .. MaxTxn + 1]
  /\ \A k \in Frames : {wal[k]} \cup walOlder[k] \subseteq Frame \cup {None}
  /\ {walHdr} \cup walHdrOlder \subseteq WalHdr \cup {None}
  /\ {aHdr[0], aHdr[1]} \subseteq Header \cup {None}
  /\ nBackfill \in 0 .. MaxFrame
  /\ aReadMark \in [Slots -> 0 .. READMARK_NOT_USED]
  /\ aPgno \in [Frames -> Page \cup {None}]
  /\ nTxn \in Txn /\ nFault \in 0 .. MaxFault
  /\ \A c \in Conn :
       /\ pWal[c].hdr \in Header \cup {None}
       /\ pWal[c].readLock >= 0 => READ_LOCK(pWal[c].readLock) \in shared[c]
       /\ pWal[c].txn # 0 => WRITE \in exclusive[c]
       /\ shared[c] \subseteq {READ_LOCK(i) : i \in 0 .. NSlot}
       /\ \A d \in Conn \ {c} : exclusive[c] \cap (shared[d] \cup exclusive[d]) = {}

\* The number of frames that are in the database is never greater than the
\* number of frames in the log, but for the moment in which a restart has
\* published the empty log and has not cleared the number yet.
NBackfillInLog ==
  aHdr[0] # None /\ ~Restarting => nBackfill <= aHdr[0].mxFrame

\* While a reader holds a read-mark slot, the mark and the reader's first look
\* at nBackfill are within its snapshot, and no checkpoint goes beyond the
\* snapshot: the frames of later commits are not in the database it reads, and
\* are not being copied there.
SnapshotsProtected ==
  \A c \in Conn : pWal[c].readLock > 0 =>
    LET last == pWal[c].hdr.mxFrame IN
    /\ {aReadMark[pWal[c].readLock], pWal[c].minFrame - 1, nBackfill} \subseteq 0 .. last
    /\ \A d \in Conn : At(d, "ck_copy") => pWal[d].mxSafe <= last

\* The log is started anew, or truncated, only when all of it has been copied,
\* the copy is on the disk, and nobody reads from the log: the commits in it are
\* not needed any more.  In every other step the published log grows.
OnlyCopiedLogsRestart ==
  [][aHdr[0] # None /\ aHdr'[0] # None /\ aHdr'[0].mxFrame < aHdr[0].mxFrame
       => /\ nBackfill = aHdr[0].mxFrame /\ \A p \in Page : dbOlder[p] = {}
          /\ \A c \in Conn : pWal[c].readLock <= 0]_vars

\* A page that stays in the cache from one transaction to the next, because
\* the header was found unchanged, is the page of the new snapshot.
CacheIsFresh ==
  \A c \in Conn :
    At(c, "reading") /\ pWal[c].txn = 0 /\ pWal[c].cache # None
      => pWal[c].cache = ReadView(c)

\* What the log and the database hold for whoever reads them next; what else a
\* recovery may make of them; what a power failure may make of them.  As long as
\* the published log is empty, a writer may write the header of the file again
\* over that of another one, and with it bring frames back that were cut short.
CommittedImage ==
  IF aHdr[0] # None THEN LogImage(db, wal, aHdr[0].mxFrame)
  ELSE RecoveredImage(db, wal, walHdr)

WrittenAgain ==
  IF aHdr[0] # None /\ aHdr[0].mxFrame = 0 THEN {[salt |-> aHdr[0].salt, seq |-> TRUE]} ELSE {}

InDoubt ==
  LET found == {CommittedFrames(wal, h) : h \in {walHdr} \cup WrittenAgain}
  IN {LogImage(db, wal, n) : n \in found} \ {CommittedImage}

EverythingSynced ==
  /\ \A p \in Page : dbOlder[p] = {}
  /\ \A k \in Frames : walOlder[k] = {}
  /\ walHdrOlder = {} /\ walTruncated = {}

Survivors ==
  IF EverythingSynced THEN {}
  ELSE {RecoveredImage(file, log.wal, log.hdr) : file \in DbRemains, log \in LogRemains}
         \ ({CommittedImage} \cup InDoubt)

SDB == INSTANCE SnapshotDb WITH
  Content <- 0 .. MaxTxn + 1,
  NoImage <- None,
  data <- CommittedImage,
  pending <- InDoubt,
  older <- Survivors,
  view <- [c \in Conn |-> IF InTransaction(c) THEN View(c) ELSE None],
  writing <- {c \in Conn : pWal[c].txn # 0},
  durable <- fullSync

\* The part of the state that these are made of.
Session(w) ==
  IF w.readLock = -1 /\ w.txn = 0 THEN None
  ELSE [w EXCEPT !.pc = 0, !.cache = None, !.slot = 0, !.mark = 0, !.changed = FALSE]

Mapped ==
  <<files, aHdr[0], aPgno,
    [c \in Conn |-> Session(pWal[c])]>>

\* The log implements snapshots with atomic commits.  This is SDB!Spec: a step
\* that leaves Mapped alone is one of its stuttering steps.
ImplementsSnapshotDb == SDB!Init /\ [][UNCHANGED Mapped \/ SDB!Next]_vars
=============================================================================
