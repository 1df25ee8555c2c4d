---------------------------- MODULE WalSnapshots ----------------------------
(***************************************************************************)
(* The log implements snapshots with atomic commits, as long as the power  *)
(* does not fail.                                                          *)
(***************************************************************************)
EXTENDS WalImages

-----------------------------------------------------------------------------
(* The parts of the invariant *)

\* Without power failures, what is written counts as being on the disk.
NothingOlder ==
  /\ dbOlder = [p \in Page |-> {}] /\ walOlder = [k \in Frames |-> {}]
  /\ walHdrOlder = {} /\ walTruncated = {}

\* A frame is not older than the log it is in, and than the frame before it, and
\* there is a header of the file; no content is of a transaction to come.
LogOrdered ==
  \A k \in Frames :
    wal[k] # None => walHdr # None /\ wal[k].salt <= wal[k].by /\ wal[k].after <= wal[k].by

PagesOld == \A p \in Page : db[p] <= nTxn

\* The frames of an open transaction lie behind those that are published.
LastWritten(c) ==
  IF pWal[c].pc \in {"sync_frame", "append"} THEN NextFrame(c) ELSE pWal[c].hdr.mxFrame

OwnFrames(c) ==
  LET w == pWal[c] IN
  w.txn # 0 =>
    /\ \A p \in Page : db[p] # w.txn
    /\ \A k \in Frames :
         wal[k] # None /\ wal[k].by = w.txn =>
           w.readLock > 0 /\ aHdr[0].mxFrame < k /\ k <= LastWritten(c)
    /\ w.readLock > 0 =>
         \A k \in aHdr[0].mxFrame + 1 .. w.hdr.mxFrame :
           wal[k].by = w.txn /\ (w.pc # "publish" => ~wal[k].commit)
    /\ w.pc = "publish" => aHdr[0].mxFrame < w.hdr.mxFrame /\ wal[w.hdr.mxFrame].pgno = w.page

\* A connection that reads the database without the log, and will write or may
\* begin to: no checkpointer has a header in mind that is older than the
\* published one, and still something to copy.
WithoutLog(c) ==
  LET w == pWal[c] IN
  \/ w.txn # 0 /\ w.readLock <= 0
  \/ w.readLock = 0 /\ w.hdr.salt = aHdr[0].salt /\ w.hdr.mxFrame = aHdr[0].mxFrame

NoOldCopy(c) ==
  WithoutLog(c) =>
    \A d \in Conn :
      /\ At(d, "ck_start") =>
           pWal[d].hdr.mxFrame <= nBackfill \/ pWal[d].hdr.mxFrame = aHdr[0].mxFrame
      /\ Copies(d) => pWal[d].hdr.mxFrame = aHdr[0].mxFrame

\* What a writer reads that reads the database alone.
AllCopied(c) == pWal[c].txn # 0 /\ pWal[c].readLock <= 0 => HeadImage = db

\* The salt of a new log is that of no frame.
NewSalt(c) ==
  At(c, "restart_publish") =>
    \A k \in Frames : wal[k] # None => wal[k].salt # pWal[c].hdr.salt

\* What a recovery has found.
FoundOK(c) ==
  At(c, "recover_publish") =>
    /\ pWal[c].hdr.mxFrame = FoundEnd
    /\ walHdr # None /\ (\E k \in Frames : wal[k] # None) => pWal[c].hdr.salt = walHdr.salt

SnapOK(c) == OwnFrames(c) /\ NoOldCopy(c) /\ AllCopied(c) /\ NewSalt(c) /\ FoundOK(c)

SnapInv == NothingOlder /\ LogOrdered /\ PagesOld /\ \A c \in Conn : SnapOK(c)

-----------------------------------------------------------------------------
(* What connections see *)

\* Whoever reads from the log sees the image that its header stands for.
LEMMA LogView ==
  ASSUME NEW c \in Conn
  PROVE  Known /\ pWal[c].readLock > 0 =>
           /\ ReadView(c) = LogImage(db, wal, pWal[c].hdr.mxFrame)
           /\ Written(wal, pWal[c].hdr.mxFrame) /\ pWal[c].hdr.mxFrame \in Nat
           /\ pWal[c].txn = 0 => pWal[c].hdr.mxFrame <= aHdr[0].mxFrame
<1> SUFFICES ASSUME Known, pWal[c].readLock > 0
             PROVE  /\ ReadView(c) = LogImage(db, wal, pWal[c].hdr.mxFrame)
                    /\ Written(wal, pWal[c].hdr.mxFrame) /\ pWal[c].hdr.mxFrame \in Nat
                    /\ pWal[c].txn = 0 => pWal[c].hdr.mxFrame <= aHdr[0].mxFrame
  OBVIOUS
<1> DEFINE n == pWal[c].hdr.mxFrame
<1>1. WInv /\ HeadOK /\ ImageOK(c) /\ ConnOK(c)
  BY DEF Known, ImageInv, WInv
<1>2. CASE pWal[c].txn = 0
  BY <1>1, <1>2, ReaderImage DEF ImageOK
<1>3. CASE pWal[c].txn # 0
  <2>1. pWal[c].pc \notin RestartSteps
    <3>1. pWal[c].readLock \in Int
      BY <1>1, ObjectTypes DEF WInv
    <3> QED
      BY <1>1, <3>1 DEF ConnOK, Control
  <2>2. /\ n \in 0 .. MaxFrame /\ n \in Nat /\ aHdr[0].mxFrame \in Nat /\ aHdr[0].mxFrame <= n
        /\ pWal[c].minFrame \in Nat \ {0} /\ Chain(pWal[c].hdr)
    BY <1>1, <1>3, <2>1, ReaderFacts, LogWritten, Numbers DEF ConnOK, WriterOK
  <2>3. Written(wal, n)
    <3>1. ASSUME NEW k \in 1 .. n PROVE wal[k] # None /\ wal[k] \in Frame \cup {None}
      <4>1. wal[k] # None
        BY <2>2 DEF Chain, ValidFrame
      <4>2. k \in Frames /\ wal \in [Frames -> Frame \cup {None}]
        BY <1>1, <2>2, Numbers DEF Frames, WInv, FilesTyped, LogTyped
      <4> QED
        BY <4>1, <4>2
    <3> QED
      BY <3>1 DEF Written, Frame
  <2>4. Indexed(aPgno, wal, n) /\ db \in Image
    BY <1>1, <1>3, <2>1 DEF ImageOK, IndexOK, WInv, FilesTyped
  <2>5. Backfilled(db, wal, pWal[c].minFrame - 1, n)
    <3>1. Backfilled(db, wal, pWal[c].minFrame - 1, aHdr[0].mxFrame)
      BY <1>1, <1>3 DEF ImageOK, MarkOK, Last
    <3> QED
      BY <2>2, <3>1, BackfilledGrows
  <2>6. ReadImage(db, wal, aPgno, pWal[c].minFrame, n) = LogImage(db, wal, n)
    BY <2>2, <2>3, <2>4, <2>5, ReadImageIs DEF Image
  <2> QED
    BY <1>1, <1>3, <2>2, <2>3, <2>6, ReaderFacts, ViewIs
<1> QED
  BY <1>2, <1>3

LEMMA NextLogView ==
  ASSUME NEW c \in Conn, Known', pWal'[c].readLock > 0
  PROVE  /\ ReadView(c)' = LogImage(db', wal', pWal'[c].hdr.mxFrame)
         /\ Written(wal', pWal'[c].hdr.mxFrame) /\ pWal'[c].hdr.mxFrame \in Nat
         /\ pWal'[c].txn = 0 => pWal'[c].hdr.mxFrame <= aHdr'[0].mxFrame
<1>1. (Known /\ pWal[c].readLock > 0)' =>
        (/\ ReadView(c) = LogImage(db, wal, pWal[c].hdr.mxFrame)
         /\ Written(wal, pWal[c].hdr.mxFrame) /\ pWal[c].hdr.mxFrame \in Nat
         /\ pWal[c].txn = 0 => pWal[c].hdr.mxFrame <= aHdr[0].mxFrame)'
  BY LogView, PTL
<1> QED
  BY <1>1

-----------------------------------------------------------------------------
(* Logs and images *)

\* What a recovery finds in a log: where the chain breaks, and its last commit.
LEMMA FoundAt ==
  ASSUME NEW f, NEW h, h # None, NEW n \in 0 .. MaxFrame, NEW m \in 0 .. n,
         \A k \in 1 .. n : ValidFrame(f, h, k), n = MaxFrame \/ ~ValidFrame(f, h, n + 1),
         m = 0 \/ f[m].commit, \A k \in m + 1 .. n : ~f[k].commit
  PROVE  CommittedFrames(f, h) = m
<1> DEFINE v == ValidFrames(f, h)
           u == CommittedFrames(f, h)
<1>1. MaxFrame \in Nat
  BY Numbers
<1>2. /\ v \in 0 .. MaxFrame /\ \A k \in 1 .. v : ValidFrame(f, h, k)
      /\ v = MaxFrame \/ ~ValidFrame(f, h, v + 1)
  BY ValidFramesFacts
<1> HIDE DEF v
<1>3. v = n
  <2>1. CASE v < n
    <3>1. v + 1 \in 1 .. n /\ v # MaxFrame
      BY <1>1, <1>2, <2>1
    <3> QED
      BY <1>2, <3>1
  <2>2. CASE n < v
    <3>1. n + 1 \in 1 .. v /\ n # MaxFrame
      BY <1>1, <1>2, <2>2
    <3> QED
      BY <1>2, <3>1
  <2> QED
    BY <1>1, <1>2, <2>1, <2>2
<1>4. u \in 0 .. n /\ (u = 0 \/ f[u].commit) /\ \A k \in u + 1 .. n : ~f[k].commit
  BY <1>1, <1>3, CommittedFramesFacts DEF v
<1> HIDE DEF u
<1>5. u = m
  <2>1. CASE u < m
    <3>1. m \in u + 1 .. n /\ m # 0
      BY <1>1, <1>4, <2>1
    <3> QED
      BY <1>4, <3>1
  <2>2. CASE m < u
    <3>1. u \in m + 1 .. n /\ u # 0
      BY <1>1, <1>4, <2>2
    <3> QED
      BY <1>4, <3>1
  <2> QED
    BY <1>1, <1>4, <2>1, <2>2
<1> QED
  BY <1>5 DEF u

\* A recovery looks at nothing of a header but its salt.
LEMMA FoundBySalt ==
  ASSUME NEW f, NEW g, NEW h, g # None, h # None, g.salt = h.salt
  PROVE  CommittedFrames(f, g) = CommittedFrames(f, h)
<1>1. \A k : ValidFrame(f, g, k) <=> ValidFrame(f, h, k)
  BY DEF ValidFrame
<1>2. ValidFrames(f, g) = ValidFrames(f, h)
  BY <1>1 DEF ValidFrames
<1> QED
  BY <1>2 DEF CommittedFrames

\* A log is not found when its first frame has another salt.
LEMMA NothingFound ==
  ASSUME NEW T, NEW file \in [Page -> T], NEW f, NEW h,
         1 \in Frames /\ f[1] # None /\ h # None => f[1].salt # h.salt
  PROVE  CommittedFrames(f, h) = 0 /\ RecoveredImage(file, f, h) = file
<1>1. MaxFrame \in Nat
  BY Numbers
<1>2. CommittedFrames(f, h) = 0
  <2>1. CASE h = None
    <3>1. ValidFrames(f, h) = 0
      BY <2>1 DEF ValidFrames
    <3> QED
      BY <3>1, CommittedFramesFacts
  <2>2. CASE h # None
    <3>1. 0 = MaxFrame \/ ~ValidFrame(f, h, 0 + 1)
      BY <1>1, <2>2 DEF ValidFrame, Frames
    <3>2. 0 \in 0 .. MaxFrame /\ 0 \in 0 .. 0 /\ 1 .. 0 = {} /\ 0 + 1 .. 0 = {}
      BY <1>1
    <3> QED
      BY <2>2, <3>1, <3>2, FoundAt
  <2> QED
    BY <2>1, <2>2
<1> QED
  BY <1>2, EmptyLog DEF RecoveredImage

\* One more frame.
LEMMA LogAppend ==
  ASSUME NEW file, NEW f, NEW n \in Nat, Written(f, n + 1)
  PROVE  LogImage(file, f, n + 1) =
           [LogImage(file, f, n) EXCEPT ![f[n + 1].pgno] = f[n + 1].by]
<1> DEFINE old == LogImage(file, f, n)
           image == [old EXCEPT ![f[n + 1].pgno] = f[n + 1].by]
<1>1. PICK S : old \in [Page -> S]
  BY ImageOnPages
<1>2. Written(f, n) /\ f[n + 1].pgno \in Page
  BY DEF Written
<1>3. ASSUME NEW k \in 1 .. n, NewestIn(f, k, n) PROVE old[f[k].pgno] = f[k].by
  BY <1>2, <1>3, ImageAt
<1>4. ASSUME NEW p \in Page, \A k \in 1 .. n : f[k].pgno # p PROVE old[p] = file[p]
  BY <1>4, ImageBelow
<1> HIDE DEF old
<1>5. image \in [Page -> S \cup {f[n + 1].by}]
  BY <1>1, <1>2
<1>6. ASSUME NEW k \in 1 .. n + 1, NewestIn(f, k, n + 1) PROVE image[f[k].pgno] = f[k].by
  <2>1. CASE k = n + 1
    BY <1>1, <1>2, <2>1
  <2>2. CASE k # n + 1
    <3>1. k \in 1 .. n /\ n + 1 \in k + 1 .. n + 1 /\ \A j \in k + 1 .. n : j \in k + 1 .. n + 1
      BY <2>2
    <3>2. NewestIn(f, k, n) /\ f[n + 1].pgno # f[k].pgno
      BY <1>6, <3>1 DEF NewestIn
    <3>3. f[k].pgno \in Page
      BY <1>2, <3>1 DEF Written
    <3> QED
      BY <1>1, <1>3, <3>1, <3>2, <3>3
  <2> QED
    BY <2>1, <2>2
<1>7. ASSUME NEW p \in Page, \A k \in 1 .. n + 1 : f[k].pgno # p PROVE image[p] = file[p]
  <2>1. f[n + 1].pgno # p /\ \A k \in 1 .. n : k \in 1 .. n + 1
    BY <1>7
  <2> QED
    BY <1>1, <1>4, <1>7, <2>1
<1> HIDE DEF image
<1> DEFINE r == n + 1
           T == S \cup {f[n + 1].by}
<1>8. /\ r \in Nat /\ Written(f, r) /\ image \in [Page -> T]
      /\ \A k \in 1 .. r : NewestIn(f, k, r) => image[f[k].pgno] = f[k].by
      /\ \A p \in Page : (\A k \in 1 .. r : f[k].pgno # p) => image[p] = file[p]
  BY <1>5, <1>6, <1>7
<1> HIDE DEF r, T
<1>9. LogImage(file, f, r) = image
  BY <1>8, ImageIs
<1> QED
  BY <1>9 DEF image, old, r

-----------------------------------------------------------------------------
(* What the steps of the abstract specification ask *)

Sees(c) == IF InTransaction(c) THEN View(c) ELSE None

LEMMA NoSurvivors ==
  NothingOlder => Survivors = {}
BY DEF NothingOlder, Survivors, EverythingSynced

LEMMA NextNoSurvivors ==
  NothingOlder' => Survivors' = {}
BY DEF NothingOlder, Survivors, EverythingSynced

\* The views and the writers, when one connection changes them.
Moves(c, image, writes) ==
  /\ \A d \in Conn \ {c} : Sees(d)' = Sees(d) /\ (pWal'[d].txn # 0 <=> pWal[d].txn # 0)
  /\ Sees(c)' = image /\ (pWal'[c].txn # 0 <=> writes)

Unmoved == \A d \in Conn : Sees(d)' = Sees(d) /\ (pWal'[d].txn # 0 <=> pWal[d].txn # 0)

Synced == NothingOlder /\ NothingOlder' /\ fullSync' = fullSync

LEMMA Silent ==
  ASSUME Synced, Unmoved, CommittedImage' = CommittedImage, InDoubt' \subseteq InDoubt
  PROVE  SDB!Next
<1>1. Survivors = {} /\ Survivors' = {}
  BY NoSurvivors, NextNoSurvivors DEF Synced
<1>2. SDB!Drop
  BY <1>1 DEF SDB!Drop, Synced, Unmoved, Sees
<1> QED
  BY <1>2 DEF SDB!Next

LEMMA Recovered ==
  ASSUME Synced, Unmoved, CommittedImage' \in InDoubt, InDoubt' \subseteq InDoubt,
         \A c \in Conn : pWal[c].txn = 0
  PROVE  SDB!Next
<1>1. Survivors = {} /\ Survivors' = {}
  BY NoSurvivors, NextNoSurvivors DEF Synced
<1>2. SDB!Recover
  BY <1>1 DEF SDB!Recover, Synced, Unmoved, Sees
<1> QED
  BY <1>2 DEF SDB!Next

\* The committed image and the commits that are undecided stay.
SameCommits == CommittedImage' = CommittedImage /\ InDoubt' = InDoubt

LEMMA BeginsToRead ==
  ASSUME Synced, NEW c \in Conn, SameCommits, Sees(c) = None, Moves(c, CommittedImage, pWal[c].txn # 0)
  PROVE  SDB!Next
<1>1. Survivors = {} /\ Survivors' = {}
  BY NoSurvivors, NextNoSurvivors DEF Synced
<1>2. SDB!BeginRead(c)
  BY <1>1 DEF SDB!BeginRead, Synced, Moves, Sees, SameCommits
<1> QED
  BY <1>2 DEF SDB!Next

LEMMA BeginsToWrite ==
  ASSUME Synced, NEW c \in Conn, SameCommits, \A d \in Conn : pWal[d].txn = 0,
         Sees(c) = CommittedImage, Moves(c, CommittedImage, TRUE)
  PROVE  SDB!Next
<1>1. Survivors = {} /\ Survivors' = {}
  BY NoSurvivors, NextNoSurvivors DEF Synced
<1>2. SDB!BeginWrite(c)
  BY <1>1 DEF SDB!BeginWrite, Synced, Moves, Sees, SameCommits
<1> QED
  BY <1>2 DEF SDB!Next

LEMMA Writes ==
  ASSUME Synced, NEW c \in Conn, SameCommits, pWal[c].txn # 0, NEW p \in Page,
         NEW v \in 0 .. MaxTxn + 1, Moves(c, [Sees(c) EXCEPT ![p] = v], TRUE)
  PROVE  SDB!Next
<1>1. Survivors = {} /\ Survivors' = {}
  BY NoSurvivors, NextNoSurvivors DEF Synced
<1>2. SDB!Write(c, p, v)
  BY <1>1 DEF SDB!Write, Synced, Moves, Sees, SameCommits
<1> QED
  BY <1>2 DEF SDB!Next

LEMMA Prepares ==
  ASSUME Synced, NEW c \in Conn, CommittedImage' = CommittedImage, pWal[c].txn # 0, Unmoved,
         InDoubt' = {Sees(c)}
  PROVE  SDB!Next
<1>1. Survivors = {} /\ Survivors' = {}
  BY NoSurvivors, NextNoSurvivors DEF Synced
<1>2. SDB!Prepare(c)
  BY <1>1 DEF SDB!Prepare, Synced, Unmoved, Sees
<1> QED
  BY <1>2 DEF SDB!Next

LEMMA Commits ==
  ASSUME Synced, NEW c \in Conn, pWal[c].txn # 0, \A d \in Conn \ {c} : pWal[d].txn = 0,
         Sees(c) \in InDoubt, CommittedImage' = Sees(c), InDoubt' = {}, Moves(c, Sees(c), FALSE)
  PROVE  SDB!Next
<1>1. Survivors = {} /\ Survivors' = {}
  BY NoSurvivors, NextNoSurvivors DEF Synced
<1>2. SDB!Commit(c)
  BY <1>1 DEF SDB!Commit, Synced, Moves, Sees
<1> QED
  BY <1>2 DEF SDB!Next

LEMMA RollsBack ==
  ASSUME Synced, NEW c \in Conn, SameCommits, pWal[c].txn # 0,
         \A d \in Conn \ {c} : pWal[d].txn = 0, Moves(c, CommittedImage, FALSE)
  PROVE  SDB!Next
<1>1. Survivors = {} /\ Survivors' = {}
  BY NoSurvivors, NextNoSurvivors DEF Synced
<1>2. SDB!Rollback(c)
  BY <1>1 DEF SDB!Rollback, Synced, Moves, Sees, SameCommits
<1> QED
  BY <1>2 DEF SDB!Next

LEMMA Leaves ==
  ASSUME Synced, NEW c \in Conn, SameCommits, Moves(c, None, FALSE)
  PROVE  SDB!Next
<1>1. Survivors = {} /\ Survivors' = {}
  BY NoSurvivors, NextNoSurvivors DEF Synced
<1>2. SDB!Leave(c)
  BY <1>1 DEF SDB!Leave, Synced, Moves, Sees, SameCommits
<1> QED
  BY <1>2 DEF SDB!Next

-----------------------------------------------------------------------------
(* Steps that leave the log and the published header alone *)

LEMMA SeesStays ==
  ASSUME Known, Known', NEW d \in Conn, pWal'[d] = pWal[d],
         pWal[d].readLock > 0 =>
           /\ \A k \in 1 .. pWal[d].hdr.mxFrame : wal'[k] = wal[k]
           /\ \A p \in Page :
                db'[p] = db[p] \/ \E k \in 1 .. pWal[d].hdr.mxFrame : wal[k].pgno = p,
         pWal[d].readLock <= 0 /\ InTransaction(d) => db' = db
  PROVE  Sees(d)' = Sees(d) /\ (pWal'[d].txn # 0 <=> pWal[d].txn # 0)
<1>1. InTransaction(d)' <=> InTransaction(d)
  BY DEF InTransaction
<1>2. pWal[d].readLock \in Int
  BY ObjectTypes DEF Known, WInv
<1>3. ASSUME InTransaction(d) PROVE ReadView(d)' = ReadView(d)
  <2>1. CASE pWal[d].readLock <= 0
    BY <1>3, <2>1 DEF ReadView
  <2>2. CASE pWal[d].readLock > 0
    <3> DEFINE n == pWal[d].hdr.mxFrame
    <3>1. ReadView(d) = LogImage(db, wal, n) /\ Written(wal, n) /\ n \in Nat
      BY <2>2, LogView
    <3>2. ReadView(d)' = LogImage(db', wal', n)
      BY <2>2, NextLogView
    <3>3. LogImage(db', wal', n) = LogImage(db, wal, n)
      BY <2>2, <3>1, SameImage
    <3> QED
      BY <3>1, <3>2, <3>3
  <2> QED
    BY <1>2, <2>1, <2>2
<1>4. InTransaction(d) => View(d)' = View(d)
  BY <1>3 DEF View
<1> QED
  BY <1>1, <1>4 DEF Sees

\* The commits in doubt are the images that a recovery would find (InDoubt).
LEMMA InDoubtImages ==
  LET images == {RecoveredImage(db, wal, h) : h \in {walHdr} \cup WrittenAgain} \ {CommittedImage}
  IN InDoubt = images /\ InDoubt' = images'
<1>1. InDoubt = {RecoveredImage(db, wal, h) : h \in {walHdr} \cup WrittenAgain} \ {CommittedImage}
  BY DEF InDoubt, RecoveredImage
<1>2. InDoubt' = ({RecoveredImage(db, wal, h) : h \in {walHdr} \cup WrittenAgain} \ {CommittedImage})'
  BY DEF InDoubt, RecoveredImage
<1> QED
  BY <1>1, <1>2

Apart(c) ==
  /\ UNCHANGED <<db, wal, walHdr>> /\ aHdr'[0] = aHdr[0]
  /\ \A d \in Conn \ {c} : pWal'[d] = pWal[d]

LEMMA ApartImages ==
  ASSUME Known, Known', NEW c \in Conn, Apart(c)
  PROVE  /\ SameCommits /\ HeadImage' = HeadImage /\ FoundEnd' = FoundEnd
         /\ \A d \in Conn \ {c} : Sees(d)' = Sees(d) /\ (pWal'[d].txn # 0 <=> pWal[d].txn # 0)
<1>1. UNCHANGED <<db, wal, walHdr>> /\ aHdr'[0] = aHdr[0]
  BY DEF Apart
<1>2. CommittedImage' = CommittedImage /\ WrittenAgain' = WrittenAgain
  BY <1>1 DEF CommittedImage, WrittenAgain
<1>3. InDoubt' = InDoubt
  BY <1>1, <1>2, InDoubtImages
<1>4. \A d \in Conn \ {c} : Sees(d)' = Sees(d) /\ (pWal'[d].txn # 0 <=> pWal[d].txn # 0)
  BY <1>1, SeesStays DEF Apart
<1> QED
  BY <1>1, <1>2, <1>3, <1>4 DEF SameCommits, HeadImage, FoundEnd

LEMMA ApartKeeps ==
  ASSUME Known, Known', SnapInv, NEW c \in Conn, Apart(c), NothingOlder', nTxn' \in {nTxn, nTxn + 1},
         OwnFrames(c)', AllCopied(c)', NewSalt(c)', FoundOK(c)', \A d \in Conn : NoOldCopy(d)'
  PROVE  SnapInv'
<1>1. UNCHANGED <<db, wal, walHdr>> /\ aHdr'[0] = aHdr[0]
  BY DEF Apart
<1>2. HeadImage' = HeadImage /\ FoundEnd' = FoundEnd
  BY ApartImages
<1>3. LogOrdered'
  BY <1>1 DEF SnapInv, LogOrdered
<1>4. PagesOld'
  <2>1. db \in Image /\ nTxn \in Nat /\ db' = db
    BY <1>1 DEF Known, WInv, FilesTyped, SharedTyped, Txn
  <2>2. \A p \in Page : db[p] \in Int /\ db[p] <= nTxn
    BY <2>1 DEF SnapInv, PagesOld, Image
  <2> QED
    BY <2>1, <2>2 DEF PagesOld
<1>5. ASSUME NEW d \in Conn PROVE SnapOK(d)'
  <2>1. CASE d = c
    BY <2>1 DEF SnapOK
  <2>2. CASE d # c
    <3>1. pWal'[d] = pWal[d] /\ SnapOK(d)
      BY <2>2 DEF Apart, SnapInv
    <3>2. OwnFrames(d)'
      BY <1>1, <3>1 DEF SnapOK, OwnFrames, LastWritten, NextFrame
    <3>3. AllCopied(d)' /\ NewSalt(d)' /\ FoundOK(d)'
      BY <1>1, <1>2, <3>1 DEF SnapOK, AllCopied, NewSalt, FoundOK, At
    <3> QED
      BY <3>2, <3>3 DEF SnapOK
  <2> QED
    BY <2>1, <2>2
<1> QED
  BY <1>3, <1>4, <1>5 DEF SnapInv

\* No checkpointer is left behind by a header that is the same.
LEMMA OldCopies ==
  ASSUME Known, Known', SnapInv, NEW c \in Conn, aHdr'[0] = aHdr[0], nBackfill' = nBackfill,
         \A d \in Conn \ {c} : pWal'[d] = pWal[d],
         WithoutLog(c)' => WithoutLog(c) \/ nBackfill = aHdr[0].mxFrame,
         At(c, "ck_start")' => pWal'[c].hdr = aHdr[0],
         Copies(c)' => /\ pWal'[c].hdr = pWal[c].hdr
                       /\ Copies(c) \/ (At(c, "ck_start") /\ nBackfill < pWal[c].hdr.mxFrame)
  PROVE  \A a \in Conn : NoOldCopy(a)'
<1> SUFFICES ASSUME NEW a \in Conn, NEW d \in Conn, WithoutLog(a)', At(d, "ck_start")' \/ Copies(d)'
             PROVE  /\ At(d, "ck_start")' => \/ pWal'[d].hdr.mxFrame <= nBackfill'
                                             \/ pWal'[d].hdr.mxFrame = aHdr'[0].mxFrame
                    /\ Copies(d)' => pWal'[d].hdr.mxFrame = aHdr'[0].mxFrame
  BY DEF NoOldCopy
<1>1. /\ pWal'[d].hdr # None /\ pWal'[d].hdr.mxFrame \in Nat /\ nBackfill \in Nat
      /\ aHdr[0] # None /\ aHdr[0].mxFrame \in Nat /\ pWal'[d].hdr.mxFrame <= aHdr[0].mxFrame
      /\ Copies(d)' => nBackfill < pWal'[d].hdr.mxFrame
  <2>1. /\ Control(d)' /\ CheckpointOK(d)' /\ pWal'[d] \in WalObject /\ nBackfill' \in 0 .. MaxFrame
        /\ aHdr'[0] \in Header \cup {None}
    BY DEF Known, WInv, ConnOK, SharedTyped
  <2>2. pWal'[d].pc \in {"ck_start", "ck_slots", "ck_lock", "ck_copy"}
    BY DEF At, Copies
  <2>3. pWal'[d].hdr # None /\ aHdr'[0] # None
    BY <2>1, <2>2 DEF Control, WithoutHdr
  <2>4. pWal'[d].hdr \in Header /\ aHdr'[0] \in Header
    BY <2>1, <2>3 DEF WalObject
  <2>5. pWal'[d].hdr.mxFrame \in Nat /\ aHdr'[0].mxFrame \in Nat /\ nBackfill' \in Nat
    BY <2>1, <2>4, Numbers DEF Header
  <2> QED
    BY <2>1, <2>2, <2>3, <2>5 DEF CheckpointOK, At
<1>2. CASE WithoutLog(a) /\ ~(d = c /\ At(d, "ck_start")')
  <2>1. /\ At(d, "ck_start")' => At(d, "ck_start")
        /\ pWal'[d].hdr = pWal[d].hdr
        /\ Copies(d)' => Copies(d) \/ (At(d, "ck_start") /\ nBackfill < pWal[d].hdr.mxFrame)
    BY <1>2 DEF At, Copies
  <2>2. NoOldCopy(a)
    BY DEF SnapInv, SnapOK
  <2> QED
    BY <1>1, <1>2, <2>1, <2>2 DEF NoOldCopy
<1>3. CASE d = c /\ At(d, "ck_start")'
  BY <1>3 DEF At, Copies
<1>4. CASE ~WithoutLog(a)
  <2>1. nBackfill = aHdr[0].mxFrame
    <3>1. CASE a = c
      BY <1>4, <3>1
    <3>2. CASE a # c
      BY <1>4, <3>2 DEF WithoutLog
    <3> QED
      BY <3>1, <3>2
  <2> QED
    BY <1>1, <2>1
<1> QED
  BY <1>2, <1>3, <1>4

\* Nor where no other checkpointer can be, or where there is nothing to copy.
LEMMA AloneNoOldCopy ==
  ASSUME Known', NEW c \in Conn, CKPT \in exclusive'[c], ~At(c, "ck_start")', ~Copies(c)'
  PROVE  \A a \in Conn : NoOldCopy(a)'
<1>1. ASSUME NEW d \in Conn, At(d, "ck_start")' \/ Copies(d)' PROVE FALSE
  <2>1. d # c
    BY <1>1
  <2>2. pWal'[d].pc \in CheckpointSteps /\ Control(d)' /\ Holds(d)'
    BY <1>1 DEF At, Copies, CheckpointSteps, Known, WInv, ConnOK
  <2>3. CKPT \in exclusive'[d]
    BY <2>2 DEF Control, Holds
  <2> QED
    BY <2>1, <2>3 DEF Known, WInv, Exclusion
<1> QED
  BY <1>1 DEF NoOldCopy

LEMMA EmptyNoOldCopy ==
  ASSUME Known', aHdr'[0].mxFrame = 0
  PROVE  \A a \in Conn : NoOldCopy(a)'
<1>1. ASSUME NEW d \in Conn, At(d, "ck_start")' \/ Copies(d)' PROVE pWal'[d].hdr.mxFrame = 0
  <2>1. /\ Control(d)' /\ CheckpointOK(d)' /\ pWal'[d] \in WalObject
        /\ pWal'[d].pc \in {"ck_start", "ck_slots", "ck_lock", "ck_copy"}
    BY <1>1 DEF At, Copies, Known, WInv, ConnOK, SharedTyped
  <2>2. pWal'[d].hdr # None
    BY <2>1 DEF Control, WithoutHdr
  <2>3. pWal'[d].hdr.mxFrame \in Nat
    BY <2>1, <2>2, Numbers DEF WalObject, Header
  <2>4. pWal'[d].hdr.mxFrame <= 0
    BY <1>1, <2>1 DEF CheckpointOK, At
  <2> QED
    BY <2>3, <2>4
<1> QED
  BY <1>1 DEF NoOldCopy

-----------------------------------------------------------------------------
(* Steps of connections that are in no transaction *)

LEMMA IdleStep ==
  ASSUME Known, Known', SnapInv, NEW c \in Conn, NEW v, pWal' = [pWal EXCEPT ![c] = v],
         UNCHANGED <<db, wal, walHdr, fullSync>>, aHdr'[0] = aHdr[0], NothingOlder',
         nTxn' \in {nTxn, nTxn + 1}, pWal[c].txn = 0, pWal[c].readLock = -1,
         v.txn = 0, v.readLock = -1, NewSalt(c)', FoundOK(c)', \A a \in Conn : NoOldCopy(a)'
  PROVE  SnapInv' /\ SDB!Next
<1>1. pWal'[c] = v /\ \A d \in Conn \ {c} : pWal'[d] = pWal[d]
  BY ObjectTypes DEF Known, WInv
<1>2. Apart(c)
  BY <1>1 DEF Apart
<1>3. OwnFrames(c)' /\ AllCopied(c)'
  BY <1>1 DEF OwnFrames, AllCopied
<1>4. SnapInv'
  BY <1>2, <1>3, ApartKeeps
<1>5. Sees(c) = None /\ Sees(c)' = None
  BY <1>1 DEF Sees, InTransaction
<1>6. SameCommits /\ Unmoved
  BY <1>1, <1>2, <1>5, ApartImages DEF Unmoved
<1>7. Synced
  BY DEF Synced, SnapInv
<1> QED
  BY <1>4, <1>6, <1>7, Silent DEF SameCommits

\* One that has nothing to do with headers.
LEMMA IdleSame ==
  ASSUME Known, Known', SnapInv, NEW c \in Conn, NEW v, pWal' = [pWal EXCEPT ![c] = v],
         UNCHANGED <<db, wal, walHdr, fullSync, nBackfill>>, aHdr'[0] = aHdr[0], NothingOlder',
         nTxn' \in {nTxn, nTxn + 1}, pWal[c].txn = 0, pWal[c].readLock = -1,
         v.txn = 0, v.readLock = -1, v.pc \notin {"restart_publish", "recover_publish"},
         v.pc = "ck_start" => v.hdr = aHdr[0],
         v.pc \in {"ck_slots", "ck_lock", "ck_copy"} =>
           /\ v.hdr = pWal[c].hdr
           /\ Copies(c) \/ (At(c, "ck_start") /\ nBackfill < pWal[c].hdr.mxFrame)
  PROVE  SnapInv' /\ SDB!Next
<1>1. pWal'[c] = v /\ \A d \in Conn \ {c} : pWal'[d] = pWal[d]
  BY ObjectTypes DEF Known, WInv
<1>2. NewSalt(c)' /\ FoundOK(c)'
  BY <1>1 DEF NewSalt, FoundOK, At
<1>3. ~WithoutLog(c)'
  BY <1>1 DEF WithoutLog
<1>4. \A a \in Conn : NoOldCopy(a)'
  BY <1>1, <1>3, OldCopies DEF At, Copies
<1> QED
  BY <1>2, <1>4, IdleStep

LEMMA OlderSame ==
  ASSUME NothingOlder, UNCHANGED files
  PROVE  NothingOlder' /\ UNCHANGED <<db, wal, walHdr>>
BY DEF NothingOlder, files

LEMMA ReadHdrImplements ==
  ASSUME Known, Known', SnapInv, NEW c \in Conn, read_hdr(c)
  PROVE  SnapInv' /\ SDB!Next
<1> DEFINE w == pWal[c]
           v == [WithHdr(w, aHdr[0]) EXCEPT !.pc = AfterHdr(c)]
<1>1. /\ w.pc \in {"idle", "hdr"} /\ pWal' = [pWal EXCEPT ![c] = v]
      /\ UNCHANGED <<files, aHdr, nBackfill, nTxn, fullSync>>
  BY DEF read_hdr, Reads, At, walIndexTryHdr, shm, bounds
<1>2. w \in WalObject /\ w.txn = 0 /\ w.readLock = -1
  BY <1>1, AtHdr, ObjectTypes DEF Known, WInv
<1>3. v.pc \in {"try", "ck_start"} /\ v.hdr = aHdr[0] /\ v.readLock = -1 /\ v.txn = 0
  BY <1>2 DEF AfterHdr, WithHdr, Changed, WalObject
<1> HIDE DEF v
<1>4. NothingOlder' /\ UNCHANGED <<db, wal, walHdr>>
  BY <1>1, OlderSame DEF SnapInv
<1> QED
  BY <1>1, <1>2, <1>3, <1>4, IdleSame

LEMMA HdrBusyImplements ==
  ASSUME Known, Known', SnapInv, NEW c \in Conn, hdr_busy(c)
  PROVE  SnapInv' /\ SDB!Next
<1> DEFINE w == pWal[c]
           v == [w EXCEPT !.pc = "ck_return"]
<1>1. /\ w.pc = "hdr" /\ pWal' = [pWal EXCEPT ![c] = v]
      /\ UNCHANGED <<files, aHdr, nBackfill, nTxn, fullSync>>
  BY DEF hdr_busy, Goto, At, shm, bounds
<1>2. w \in WalObject /\ w.txn = 0 /\ w.readLock = -1
  BY <1>1, AtHdr, ObjectTypes DEF Known, WInv
<1>3. v.pc = "ck_return" /\ v.readLock = -1 /\ v.txn = 0
  BY <1>2 DEF WalObject
<1> HIDE DEF v
<1>4. NothingOlder' /\ UNCHANGED <<db, wal, walHdr>>
  BY <1>1, OlderSame DEF SnapInv
<1> QED
  BY <1>1, <1>2, <1>3, <1>4, IdleSame

LEMMA BeginCheckpointImplements ==
  ASSUME Known, Known', SnapInv, NEW c \in Conn, NEW mode \in Modes, sqlite3WalCheckpoint(c, mode)
  PROVE  SnapInv' /\ SDB!Next
<1> DEFINE w == pWal[c]
<1>1. PICK m : /\ w.pc = "idle" /\ pWal' = [pWal EXCEPT ![c].pc = "hdr", ![c].mode = m]
               /\ UNCHANGED <<files, aHdr, nBackfill, nTxn, fullSync>>
  BY DEF sqlite3WalCheckpoint, At, shm, bounds
<1> DEFINE v == [w EXCEPT !.pc = "hdr", !.mode = m]
<1>2. w \in WalObject /\ w.txn = 0 /\ w.readLock = -1
  BY <1>1, AtHdr, ObjectTypes DEF Known, WInv
<1>3. v.pc = "hdr" /\ v.readLock = -1 /\ v.txn = 0 /\ pWal' = [pWal EXCEPT ![c] = v]
  BY <1>1, <1>2 DEF WalObject
<1> HIDE DEF v
<1>4. NothingOlder' /\ UNCHANGED <<db, wal, walHdr>>
  BY <1>1, OlderSame DEF SnapInv
<1> QED
  BY <1>1, <1>2, <1>3, <1>4, IdleSame

LEMMA CheckpointStartImplements ==
  ASSUME Known, Known', SnapInv, NEW c \in Conn, ck_start(c)
  PROVE  SnapInv' /\ SDB!Next
<1> DEFINE w == pWal[c]
           label == IF nBackfill < w.hdr.mxFrame THEN "ck_slots" ELSE "ck_end"
           v == [w EXCEPT !.pc = label, !.slot = 1, !.mxSafe = w.hdr.mxFrame]
<1>1. /\ w.pc = "ck_start" /\ UNCHANGED <<files, aHdr, nBackfill, nTxn, fullSync>>
      /\ pWal' = [pWal EXCEPT ![c] = v]
  BY DEF ck_start, At, shm, bounds
<1>2. w \in WalObject /\ w.txn = 0 /\ w.readLock = -1
  BY <1>1, AtCheckpoint DEF Known, CheckpointSteps
<1>3. /\ v.hdr = w.hdr /\ v.txn = 0 /\ v.readLock = -1 /\ v.pc \in {"ck_slots", "ck_end"}
      /\ v.pc = "ck_slots" => nBackfill < w.hdr.mxFrame
  BY <1>2 DEF WalObject
<1> HIDE DEF v
<1>4. NothingOlder' /\ UNCHANGED <<db, wal, walHdr>>
  BY <1>1, OlderSame DEF SnapInv
<1> QED
  BY <1>1, <1>2, <1>3, <1>4, IdleSame DEF At

LEMMA CheckpointSlotImplements ==
  ASSUME Known, Known', SnapInv, NEW c \in Conn, ck_slot(c)
  PROVE  SnapInv' /\ SDB!Next
<1> DEFINE w == pWal[c]
<1>1. w.pc = "ck_slots" /\ UNCHANGED <<files, aHdr, nBackfill, nTxn, fullSync>>
  BY DEF ck_slot, At, bounds
<1>2. w \in WalObject /\ w.txn = 0 /\ w.readLock = -1
  BY <1>1, AtCheckpoint DEF Known, CheckpointSteps
<1>3. PICK safe, slot, label, plan :
        /\ pWal' = [pWal EXCEPT ![c].mxSafe = safe, ![c].slot = slot, ![c].pc = label,
                                ![c].plan = plan]
        /\ label \in {"ck_slots", "ck_lock", "ck_end"}
  <2> DEFINE below == aReadMark[w.slot] < w.mxSafe
             safe == IF below /\ InUse(c, w.slot) THEN aReadMark[w.slot] ELSE w.mxSafe
             last == w.slot = NSlot
             copies == last /\ nBackfill < safe
             slot == IF last THEN 0 ELSE w.slot + 1
             label == IF ~last THEN w.pc ELSE IF copies THEN "ck_lock" ELSE "ck_end"
             plan == IF copies THEN Plan(c, safe) ELSE {}
  <2>1. pWal' = [pWal EXCEPT ![c].mxSafe = safe, ![c].slot = slot, ![c].pc = label,
                             ![c].plan = plan]
    BY DEF ck_slot
  <2>2. label \in {"ck_slots", "ck_lock", "ck_end"}
    BY <1>1
  <2> HIDE DEF safe, slot, label, plan
  <2> QED
    BY <2>1, <2>2
<1> DEFINE v == [w EXCEPT !.mxSafe = safe, !.slot = slot, !.pc = label, !.plan = plan]
<1>4. /\ v.hdr = w.hdr /\ v.txn = 0 /\ v.readLock = -1 /\ v.pc = label
      /\ pWal' = [pWal EXCEPT ![c] = v]
  BY <1>2, <1>3 DEF WalObject
<1> HIDE DEF v
<1>5. NothingOlder' /\ UNCHANGED <<db, wal, walHdr>>
  BY <1>1, OlderSame DEF SnapInv
<1> QED
  BY <1>1, <1>2, <1>3, <1>4, <1>5, IdleSame DEF Copies

LEMMA SyncedSame ==
  ASSUME NothingOlder, SyncWal
  PROVE  NothingOlder' /\ UNCHANGED <<db, wal, walHdr>>
BY DEF NothingOlder, SyncWal

LEMMA CheckpointLockImplements ==
  ASSUME Known, Known', SnapInv, NEW c \in Conn, ck_lock(c)
  PROVE  SnapInv' /\ SDB!Next
<1> DEFINE w == pWal[c]
<1>1. w.pc = "ck_lock" /\ UNCHANGED <<aHdr, nBackfill, nTxn, fullSync>>
  BY DEF ck_lock, At, shm, bounds
<1>2. w \in WalObject /\ w.txn = 0 /\ w.readLock = -1
  BY <1>1, AtCheckpoint DEF Known, CheckpointSteps
<1>3. NothingOlder' /\ UNCHANGED <<db, wal, walHdr>>
  BY OlderSame, SyncedSame DEF ck_lock, SyncBeforeCopy, SnapInv
<1>4. CASE pWal' = [pWal EXCEPT ![c].pc = "ck_copy"]
  <2> DEFINE v == [w EXCEPT !.pc = "ck_copy"]
  <2>1. /\ v.hdr = w.hdr /\ v.txn = 0 /\ v.readLock = -1 /\ v.pc = "ck_copy"
        /\ pWal' = [pWal EXCEPT ![c] = v]
    BY <1>2, <1>4 DEF WalObject
  <2> HIDE DEF v
  <2> QED
    BY <1>1, <1>2, <1>3, <2>1, IdleSame DEF Copies
<1>5. CASE pWal' = [pWal EXCEPT ![c].pc = "ck_end", ![c].mxSafe = 0, ![c].plan = {}]
  <2> DEFINE v == [w EXCEPT !.pc = "ck_end", !.mxSafe = 0, !.plan = {}]
  <2>1. /\ v.txn = 0 /\ v.readLock = -1 /\ v.pc = "ck_end" /\ pWal' = [pWal EXCEPT ![c] = v]
    BY <1>2, <1>5 DEF WalObject
  <2> HIDE DEF v
  <2> QED
    BY <1>1, <1>2, <1>3, <2>1, IdleSame
<1> QED
  BY <1>4, <1>5 DEF ck_lock, Goto

LEMMA CheckpointDoneImplements ==
  ASSUME Known, Known', SnapInv, NEW c \in Conn, ck_done(c)
  PROVE  SnapInv' /\ SDB!Next
<1> DEFINE w == pWal[c]
           v == [w EXCEPT !.pc = "ck_end", !.mxSafe = 0]
<1>1. /\ w.pc = "ck_copy" /\ UNCHANGED <<db, wal, walHdr, aHdr, nTxn, fullSync>>
      /\ pWal' = [pWal EXCEPT ![c] = v]
  BY DEF ck_done, At, bounds
<1>2. w \in WalObject /\ w.txn = 0 /\ w.readLock = -1 /\ w.mode # "READ" /\ Holds(c)
  BY <1>1, AtCheckpoint DEF Known, CheckpointSteps
<1>3. /\ v.txn = 0 /\ v.readLock = -1 /\ v.pc = "ck_end" /\ v.mode # "READ"
      /\ pWal'[c] = v
  <2>1. v.txn = 0 /\ v.readLock = -1 /\ v.pc = "ck_end" /\ v.mode # "READ"
    BY <1>2 DEF WalObject
  <2> HIDE DEF v
  <2> QED
    BY <1>1, <2>1, ObjectTypes DEF Known, WInv
<1> HIDE DEF v
<1>4. NothingOlder'
  BY DEF ck_done, SyncedWhenComplete, SnapInv, NothingOlder
<1>5. CKPT \in exclusive'[c]
  BY <1>3 DEF Known, WInv, ConnOK, Holds
<1>6. \A a \in Conn : NoOldCopy(a)'
  BY <1>3, <1>5, AloneNoOldCopy DEF At, Copies
<1>7. NewSalt(c)' /\ FoundOK(c)'
  BY <1>3 DEF NewSalt, FoundOK, At
<1> QED
  BY <1>1, <1>2, <1>3, <1>4, <1>6, <1>7, IdleStep

LEMMA CheckpointReturnImplements ==
  ASSUME Known, Known', SnapInv, NEW c \in Conn, ck_return(c)
  PROVE  SnapInv' /\ SDB!Next
<1> DEFINE w == pWal[c]
           h == HdrAfterCheckpoint(w)
           v == [Closed EXCEPT !.pc = "idle", !.hdr = h, !.nCkpt = w.nCkpt,
                               !.cache = IF h = None THEN None ELSE w.cache]
<1>1. /\ w.pc \in {"ck_return", "ck_end"} /\ UNCHANGED <<files, aHdr, nBackfill, nTxn, fullSync>>
      /\ pWal' = [pWal EXCEPT ![c] = v]
  BY DEF ck_return, At, shm, bounds
<1>2. w.txn = 0 /\ w.readLock = -1
  <2>1. /\ Control(c) /\ w.readLock \in -1 .. NSlot
    BY ObjectTypes DEF Known, WInv, ConnOK
  <2> QED
    BY <1>1, <2>1 DEF Control, RestartSteps, FrameSteps
<1>3. v.txn = 0 /\ v.readLock = -1 /\ v.pc = "idle"
  BY DEF Closed
<1> HIDE DEF v
<1>4. NothingOlder' /\ UNCHANGED <<db, wal, walHdr>>
  BY <1>1, OlderSame DEF SnapInv
<1> QED
  BY <1>1, <1>2, <1>3, <1>4, IdleSame

\* A truncation begins a log with a salt of its own.
LEMMA CheckpointTruncateImplements ==
  ASSUME Known, Known', SnapInv, NEW c \in Conn, ck_truncate(c)
  PROVE  SnapInv' /\ SDB!Next
<1> DEFINE w == pWal[c]
           h == [w.hdr EXCEPT !.mxFrame = 0, !.salt = nTxn + 1]
           v == [w EXCEPT !.pc = "restart_publish", !.hdr = h, !.nCkpt = TRUE]
<1>1. /\ w.pc = "ck_end" /\ UNCHANGED <<files, nBackfill, fullSync>> /\ nTxn' = nTxn + 1
      /\ pWal' = [pWal EXCEPT ![c] = v] /\ aHdr' = [aHdr EXCEPT ![1] = h]
  BY DEF ck_truncate, At, RestartHdr
<1>2. /\ w \in WalObject /\ w.txn = 0 /\ w.readLock = -1 /\ w.mode # "READ" /\ w.hdr \in Header
      /\ SharedTyped
  BY <1>1, AtCheckpoint DEF Known, CheckpointSteps
<1>3. h.salt = nTxn + 1
  BY <1>2 DEF Header
<1>4. /\ v.txn = 0 /\ v.readLock = -1 /\ v.pc = "restart_publish" /\ v.hdr = h
      /\ v.mode # "READ"
  BY <1>2 DEF WalObject
<1> HIDE DEF v, h
<1>5. pWal'[c] = v /\ aHdr'[0] = aHdr[0]
  BY <1>1, <1>2 DEF SharedTyped
<1>6. NothingOlder' /\ UNCHANGED <<db, wal, walHdr>>
  BY <1>1, OlderSame DEF SnapInv
<1>7. CKPT \in exclusive'[c]
  BY <1>4, <1>5 DEF Known, WInv, ConnOK, Holds
<1>8. \A a \in Conn : NoOldCopy(a)'
  BY <1>4, <1>5, <1>7, AloneNoOldCopy DEF At, Copies
<1>9. FoundOK(c)'
  BY <1>4, <1>5 DEF FoundOK, At
<1>10. NewSalt(c)'
  <2>1. ASSUME NEW k \in Frames, wal[k] # None PROVE wal[k].salt # nTxn + 1
    <3>1. wal[k] \in MayHold(k) /\ wal[k] \in Frame /\ nTxn \in Nat
      BY <2>1 DEF Known, WInv, FilesTyped, LogTyped, SharedTyped, Txn
    <3>2. wal[k].by <= nTxn /\ wal[k].by \in Nat /\ wal[k].salt \in Nat
      BY <2>1, <3>1 DEF MayHold, Frame, Txn
    <3>3. wal[k].salt <= wal[k].by
      BY <2>1 DEF SnapInv, LogOrdered
    <3> QED
      BY <3>1, <3>2, <3>3
  <2> QED
    BY <1>3, <1>4, <1>5, <1>6, <2>1 DEF NewSalt
<1> QED
  BY <1>1, <1>2, <1>4, <1>5, <1>6, <1>8, <1>9, <1>10, IdleStep

-----------------------------------------------------------------------------
(* Recoveries *)

LEMMA RecoverResetImplements ==
  ASSUME Known, Known', SnapInv, NEW c \in Conn, recover_reset(c)
  PROVE  SnapInv' /\ SDB!Next
<1> DEFINE w == pWal[c]
           v == [w EXCEPT !.pc = "recover_marks"]
<1>1. /\ w.pc = "recover_reset" /\ UNCHANGED <<files, aHdr, nTxn, fullSync>>
      /\ pWal' = [pWal EXCEPT ![c] = v]
  BY DEF recover_reset, At, Goto, bounds
<1>2. w \in WalObject /\ w.txn = 0 /\ w.readLock = -1
  BY <1>1, AtRecovery DEF Known, Recovering
<1>3. v.txn = 0 /\ v.readLock = -1 /\ v.pc = "recover_marks"
  BY <1>2 DEF WalObject
<1> HIDE DEF v
<1>4. pWal'[c] = v
  BY <1>1, ObjectTypes DEF Known, WInv
<1>5. CKPT \in exclusive'[c]
  BY <1>3, <1>4 DEF Known, WInv, ConnOK, Holds, Recovering
<1>6. \A a \in Conn : NoOldCopy(a)'
  BY <1>3, <1>4, <1>5, AloneNoOldCopy DEF At, Copies
<1>7. NewSalt(c)' /\ FoundOK(c)'
  BY <1>3, <1>4 DEF NewSalt, FoundOK, At
<1>8. NothingOlder' /\ UNCHANGED <<db, wal, walHdr>>
  BY <1>1, OlderSame DEF SnapInv
<1> QED
  BY <1>1, <1>2, <1>3, <1>4, <1>6, <1>7, <1>8, IdleStep

LEMMA RecoverMarksImplements ==
  ASSUME Known, Known', SnapInv, NEW c \in Conn, recover_marks(c)
  PROVE  SnapInv' /\ SDB!Next
<1> DEFINE w == pWal[c]
           v == [Changed(w) EXCEPT !.pc = AfterHdr(c)]
<1>1. /\ w.pc = "recover_marks" /\ pWal' = [pWal EXCEPT ![c] = v]
      /\ UNCHANGED <<files, aHdr, nBackfill, nTxn, fullSync>>
  BY DEF recover_marks, At, bounds
<1>2. w \in WalObject /\ w.txn = 0 /\ w.readLock = -1 /\ w.hdr = aHdr[0]
  <2>1. w.pc \in Recovering
    BY <1>1 DEF Recovering
  <2> QED
    BY <1>1, <2>1, AtRecovery DEF Known, RecoveryOK
<1>3. v.pc \in {"try", "ck_start"} /\ v.hdr = aHdr[0] /\ v.readLock = -1 /\ v.txn = 0
  BY <1>2 DEF AfterHdr, Changed, WalObject
<1> HIDE DEF v
<1>4. NothingOlder' /\ UNCHANGED <<db, wal, walHdr>>
  BY <1>1, OlderSame DEF SnapInv
<1> QED
  BY <1>1, <1>2, <1>3, <1>4, IdleSame

\* What is found has the salt of the file, if there is anything to find.
LEMMA RecoverImplements ==
  ASSUME Known, Known', SnapInv, ~PowerFailures, NEW c \in Conn, walIndexRecover(c)
  PROVE  SnapInv' /\ SDB!Next
<1> DEFINE w == pWal[c]
<1>1. PICK found \in FoundHdr :
        LET n == CommittedFrames(wal, found)
            h == [mxFrame |-> n, iChange |-> 0,
                  salt |-> IF found = None THEN 0 ELSE found.salt,
                  cksum |-> IF n = 0 THEN 0 ELSE wal[n].by]
        IN /\ pWal' = [pWal EXCEPT ![c].pc = "recover_publish", ![c].hdr = h,
                         ![c].nCkpt = IF found = None THEN @ ELSE found.seq]
           /\ aHdr' = [aHdr EXCEPT ![1] = h]
  BY DEF walIndexRecover
<1> DEFINE n == CommittedFrames(wal, found)
           h == [mxFrame |-> n, iChange |-> 0,
                 salt |-> IF found = None THEN 0 ELSE found.salt,
                 cksum |-> IF n = 0 THEN 0 ELSE wal[n].by]
           v == [w EXCEPT !.pc = "recover_publish", !.hdr = h,
                          !.nCkpt = IF found = None THEN @ ELSE found.seq]
<1>2. /\ w.pc \in {"idle", "hdr"} /\ UNCHANGED <<files, nBackfill, nTxn, fullSync>>
      /\ pWal' = [pWal EXCEPT ![c] = v] /\ aHdr' = [aHdr EXCEPT ![1] = h]
  <2>1. w.pc \in {"idle", "hdr"} /\ UNCHANGED <<files, nBackfill, nTxn, fullSync>>
    BY DEF walIndexRecover, Reads, At, bounds
  <2>2. /\ pWal' = [pWal EXCEPT ![c].pc = "recover_publish", ![c].hdr = h,
                                ![c].nCkpt = IF found = None THEN @ ELSE found.seq]
        /\ aHdr' = [aHdr EXCEPT ![1] = h]
    BY <1>1
  <2> HIDE DEF h
  <2>3. pWal' = [pWal EXCEPT ![c] = v]
    BY <2>2
  <2> QED
    BY <2>1, <2>2, <2>3
<1>3. w \in WalObject /\ w.txn = 0 /\ w.readLock = -1 /\ SharedTyped /\ WInv /\ db \in Image
  BY <1>2, AtHdr, ObjectTypes DEF Known, WInv, FilesTyped
<1>4. h.mxFrame = n /\ (found # None => h.salt = found.salt)
  OBVIOUS
<1> HIDE DEF h
<1>5. v.txn = 0 /\ v.readLock = -1 /\ v.pc = "recover_publish" /\ v.hdr = h
  BY <1>3 DEF WalObject
<1> HIDE DEF v
<1>6. pWal'[c] = v /\ aHdr'[0] = aHdr[0]
  BY <1>2, <1>3 DEF SharedTyped
<1>7. NothingOlder' /\ UNCHANGED <<db, wal, walHdr>>
  BY <1>2, OlderSame DEF SnapInv
<1>8. CKPT \in exclusive'[c]
  BY <1>5, <1>6 DEF Known, WInv, ConnOK, Holds, Recovering
<1>9. \A a \in Conn : NoOldCopy(a)'
  BY <1>5, <1>6, <1>8, AloneNoOldCopy DEF At, Copies
<1>10. NewSalt(c)'
  BY <1>5, <1>6 DEF NewSalt, At
<1>11. IF \E k \in Frames : wal[k] # None THEN found = walHdr ELSE found = None
  BY DEF FoundHdr
<1>12. n = FoundEnd
  <2>1. CASE \E k \in Frames : wal[k] # None
    BY <1>11, <2>1 DEF FoundEnd
  <2>2. CASE \A k \in Frames : wal[k] = None
    <3>1. \A hd : CommittedFrames(wal, hd) = 0
      BY <1>3, <2>2, NothingFound DEF Image
    <3> QED
      BY <3>1 DEF FoundEnd
  <2> QED
    BY <2>1, <2>2
<1> HIDE DEF n
<1>13. FoundOK(c)'
  <2>1. FoundEnd' = FoundEnd
    BY <1>7 DEF FoundEnd
  <2>2. walHdr # None /\ (\E k \in Frames : wal[k] # None) => h.salt = walHdr.salt
    BY <1>4, <1>11
  <2> QED
    BY <1>4, <1>5, <1>6, <1>7, <1>12, <2>1, <2>2 DEF FoundOK
<1> QED
  BY <1>2, <1>3, <1>5, <1>6, <1>7, <1>9, <1>10, <1>13, IdleStep

LEMMA OthersSee ==
  ASSUME Known, Known', NEW c \in Conn, UNCHANGED <<db, wal>>,
         \A d \in Conn \ {c} : pWal'[d] = pWal[d]
  PROVE  \A d \in Conn \ {c} : Sees(d)' = Sees(d) /\ (pWal'[d].txn # 0 <=> pWal[d].txn # 0)
BY SeesStays

\* Whoever holds the WRITE lock is alone with the frames and the headers.
LEMMA WriterKeeps ==
  ASSUME Known, SnapInv, NEW c \in Conn, WRITE \in exclusive[c],
         \A d \in Conn \ {c} : pWal'[d] = pWal[d], NothingOlder', LogOrdered', PagesOld',
         OwnFrames(c)', AllCopied(c)', NewSalt(c)', FoundOK(c)', \A a \in Conn : NoOldCopy(a)'
  PROVE  SnapInv'
<1>1. ASSUME NEW d \in Conn PROVE SnapOK(d)'
  <2>1. CASE d = c
    BY <2>1 DEF SnapOK
  <2>2. CASE d # c
    <3>1. pWal'[d] = pWal[d] /\ pWal[d].txn = 0 /\ pWal[d].pc \notin Recovering \cup RestartSteps
      BY <2>2, OneWriter DEF Known
    <3>2. OwnFrames(d)' /\ AllCopied(d)'
      BY <3>1 DEF OwnFrames, AllCopied
    <3>3. NewSalt(d)' /\ FoundOK(d)'
      BY <3>1 DEF NewSalt, FoundOK, At, Recovering, RestartSteps
    <3> QED
      BY <3>2, <3>3 DEF SnapOK
  <2> QED
    BY <2>1, <2>2
<1> QED
  BY <1>1 DEF SnapInv

LEMMA SameFiles ==
  ASSUME SnapInv, UNCHANGED <<db, wal, walHdr, nTxn>>
  PROVE  LogOrdered' /\ PagesOld'
BY DEF SnapInv, LogOrdered, PagesOld

\* The image that is found becomes the committed one.
LEMMA RecoverPublishImplements ==
  ASSUME Known, Known', SnapInv, NEW c \in Conn, recover_publish(c)
  PROVE  SnapInv' /\ SDB!Next
<1> DEFINE w == pWal[c]
           h == w.hdr
           v == [w EXCEPT !.pc = "recover_reset"]
<1>1. /\ w.pc = "recover_publish" /\ UNCHANGED <<files, nTxn, fullSync>>
      /\ pWal' = [pWal EXCEPT ![c] = v] /\ aHdr' = [aHdr EXCEPT ![0] = h]
  BY DEF recover_publish, At, Goto, bounds
<1>2. /\ w \in WalObject /\ w.txn = 0 /\ w.readLock = -1 /\ h # None /\ h \in Header
      /\ WRITE \in exclusive[c] /\ SharedTyped /\ db \in Image
  BY <1>1, AtRecovery DEF Known, Recovering, WInv, FilesTyped
<1>3. v.txn = 0 /\ v.readLock = -1 /\ v.pc = "recover_reset"
  BY <1>2 DEF WalObject
<1> HIDE DEF v
<1>4. pWal'[c] = v /\ aHdr'[0] = h /\ \A d \in Conn \ {c} : pWal'[d] = pWal[d]
  BY <1>1, <1>2, ObjectTypes DEF SharedTyped
<1>5. CKPT \in exclusive'[c]
  BY <1>3, <1>4 DEF Known, WInv, ConnOK, Holds, Recovering
<1>6. \A a \in Conn : NoOldCopy(a)'
  BY <1>3, <1>4, <1>5, AloneNoOldCopy DEF At, Copies
<1>7. NothingOlder' /\ UNCHANGED <<db, wal, walHdr>>
  BY <1>1, OlderSame DEF SnapInv
<1>8. NewSalt(c)' /\ FoundOK(c)' /\ OwnFrames(c)' /\ AllCopied(c)'
  BY <1>3, <1>4 DEF NewSalt, FoundOK, At, OwnFrames, AllCopied
<1>9. SnapInv'
  BY <1>1, <1>2, <1>4, <1>6, <1>7, <1>8, SameFiles, WriterKeeps
<1>10. Unmoved
  <2>1. Sees(c) = None /\ Sees(c)' = None
    BY <1>2, <1>3, <1>4 DEF Sees, InTransaction
  <2> QED
    BY <1>2, <1>3, <1>4, <1>7, <2>1, OthersSee DEF Unmoved
<1>11. h.mxFrame = FoundEnd
  BY <1>1 DEF SnapInv, SnapOK, FoundOK, At
<1>12. CommittedImage' = FoundImage
  BY <1>2, <1>4, <1>7, <1>11 DEF CommittedImage, FoundImage
<1>13. RecoveredImage(db, wal, walHdr) = FoundImage
  BY DEF RecoveredImage, FoundImage, FoundEnd
<1>14. \A g \in WrittenAgain' : RecoveredImage(db, wal, g) = FoundImage
  <2> SUFFICES ASSUME h.mxFrame = 0, NEW g, g.salt = h.salt, g # None
               PROVE  RecoveredImage(db, wal, g) = FoundImage
    <3> DEFINE g == [salt |-> h.salt, seq |-> TRUE]
    <3>1. g # None
      <4>1. h.salt \in Txn
        BY <1>2 DEF Header
      <4>2. g \in WalHdr
        BY <4>1 DEF WalHdr
      <4> QED
        BY <4>2, NoneAssumption
    <3> QED
      BY <1>2, <1>4, <3>1 DEF WrittenAgain
  <2>1. CASE \E k \in Frames : wal[k] # None
    <3>1. walHdr # None
      BY <2>1 DEF SnapInv, LogOrdered
    <3>2. walHdr.salt = g.salt
      BY <1>1, <2>1, <3>1 DEF SnapInv, SnapOK, FoundOK, At
    <3>3. CommittedFrames(wal, walHdr) = CommittedFrames(wal, g)
      BY <3>1, <3>2, FoundBySalt
    <3> QED
      BY <3>3 DEF RecoveredImage, FoundImage, FoundEnd
  <2>2. CASE \A k \in Frames : wal[k] = None
    BY <1>2, <1>13, <2>2, NothingFound DEF Image
  <2> QED
    BY <2>1, <2>2
<1>15. InDoubt' = {}
  BY <1>7, <1>12, <1>13, <1>14, InDoubtImages
<1>16. Synced
  BY <1>1, <1>9 DEF Synced, SnapInv
<1>17. CASE FoundImage = CommittedImage
  BY <1>9, <1>10, <1>12, <1>15, <1>16, <1>17, Silent
<1>18. CASE FoundImage # CommittedImage
  <2>1. FoundImage \in InDoubt
    BY <1>13, <1>18, InDoubtImages
  <2>2. \A d \in Conn : pWal[d].txn = 0
    BY <1>2, OneWriter DEF Known
  <2> QED
    BY <1>9, <1>10, <1>12, <1>15, <1>16, <2>1, <2>2, Recovered
<1> QED
  BY <1>17, <1>18

-----------------------------------------------------------------------------
(* Processes, and readers *)

\* The first process finds no header: the committed image is what is found.
LEMMA OpenImplements ==
  ASSUME Known, Known', SnapInv, NEW c \in Conn, sqlite3WalOpen(c)
  PROVE  SnapInv' /\ SDB!Next
<1> DEFINE w == pWal[c]
           v == [w EXCEPT !.pc = "idle"]
<1>1. /\ w.pc = "closed" /\ UNCHANGED <<files, nTxn, fullSync>> /\ pWal' = [pWal EXCEPT ![c] = v]
  BY DEF sqlite3WalOpen, At, Goto, bounds
<1>2. w \in WalObject /\ w.txn = 0 /\ w.readLock = -1 /\ SharedTyped
  BY <1>1, AtHdr, ObjectTypes DEF Known, WInv
<1>3. v.txn = 0 /\ v.readLock = -1 /\ v.pc = "idle"
  BY <1>2 DEF WalObject
<1> HIDE DEF v
<1>4. NothingOlder' /\ UNCHANGED <<db, wal, walHdr>>
  BY <1>1, OlderSame DEF SnapInv
<1>5. CASE UNCHANGED shm
  <2>1. UNCHANGED <<aHdr, nBackfill>>
    BY <1>5 DEF shm
  <2> QED
    BY <1>1, <1>2, <1>3, <1>4, <2>1, IdleSame
<1>6. CASE (\A d \in Conn \ {c} : At(d, "closed")) /\ aHdr'[0] = None
  <2>1. pWal'[c] = v /\ \A d \in Conn \ {c} : pWal'[d] = pWal[d] /\ pWal[d].pc = "closed"
    BY <1>1, <1>2, <1>6, ObjectTypes DEF At
  <2>2. ASSUME NEW d \in Conn
        PROVE  /\ pWal[d].txn = 0 /\ pWal[d].readLock = -1
               /\ pWal'[d].txn = 0 /\ pWal'[d].readLock = -1 /\ pWal'[d].pc \in {"closed", "idle"}
    BY <1>2, <1>3, <2>1, AtHdr DEF Known
  <2>3. ASSUME NEW d \in Conn PROVE SnapOK(d)'
    <3>1. OwnFrames(d)' /\ AllCopied(d)' /\ NewSalt(d)' /\ FoundOK(d)'
      BY <2>2 DEF OwnFrames, AllCopied, NewSalt, FoundOK, At
    <3>2. NoOldCopy(d)'
      BY <2>2 DEF NoOldCopy, At, Copies
    <3> QED
      BY <3>1, <3>2 DEF SnapOK
  <2>4. SnapInv'
    BY <1>1, <1>4, <2>3, SameFiles DEF SnapInv
  <2>5. \A d \in Conn : Sees(d) = None /\ Sees(d)' = None
    BY <2>2 DEF Sees, InTransaction
  <2>6. Unmoved /\ Synced
    BY <1>1, <2>2, <2>4, <2>5 DEF Unmoved, Synced, SnapInv
  <2> DEFINE image == RecoveredImage(db, wal, walHdr)
  <2>7. CommittedImage' = image /\ WrittenAgain' = {} /\ RecoveredImage(db', wal', walHdr') = image
    BY <1>4, <1>6 DEF CommittedImage, WrittenAgain
  <2>8. image = CommittedImage \/ image \in InDoubt
    BY InDoubtImages
  <2> HIDE DEF image
  <2>9. InDoubt' = {}
    BY <1>4, <2>7, InDoubtImages
  <2> QED
    BY <2>2, <2>4, <2>6, <2>7, <2>8, <2>9, Silent, Recovered
<1> QED
  BY <1>5, <1>6 DEF sqlite3WalOpen

\* The end of a read transaction, or of a process.
LEMMA LeaveStep ==
  ASSUME Known, Known', SnapInv, NEW c \in Conn, NEW v, pWal' = [pWal EXCEPT ![c] = v],
         UNCHANGED <<files, shm, nTxn, fullSync>>, v.txn = 0, v.readLock = -1,
         v.pc \in {"closed", "idle"}
  PROVE  SnapInv' /\ SDB!Next
<1>1. pWal'[c] = v /\ \A d \in Conn \ {c} : pWal'[d] = pWal[d]
  BY ObjectTypes DEF Known, WInv
<1>2. NothingOlder' /\ UNCHANGED <<db, wal, walHdr>>
  BY OlderSame DEF SnapInv
<1>3. UNCHANGED <<aHdr, nBackfill>>
  BY DEF shm
<1>4. Apart(c)
  BY <1>1, <1>2, <1>3 DEF Apart
<1>5. OwnFrames(c)' /\ AllCopied(c)' /\ NewSalt(c)' /\ FoundOK(c)'
  BY <1>1 DEF OwnFrames, AllCopied, NewSalt, FoundOK, At
<1>6. ~WithoutLog(c)'
  BY <1>1 DEF WithoutLog
<1>7. \A a \in Conn : NoOldCopy(a)'
  BY <1>1, <1>3, <1>6, OldCopies DEF At, Copies
<1>8. SnapInv'
  BY <1>2, <1>4, <1>5, <1>7, ApartKeeps
<1>9. Sees(c)' = None
  BY <1>1 DEF Sees, InTransaction
<1>10. SameCommits /\ Moves(c, None, FALSE)
  BY <1>1, <1>4, <1>9, ApartImages DEF Moves
<1>11. Synced
  BY <1>8 DEF Synced, SnapInv
<1> QED
  BY <1>8, <1>10, <1>11, Leaves

LEMMA CrashImplements ==
  ASSUME Known, Known', SnapInv, NEW c \in Conn, Crash(c)
  PROVE  SnapInv' /\ SDB!Next
<1>1. /\ pWal' = [pWal EXCEPT ![c] = Closed] /\ UNCHANGED <<files, shm, nTxn, fullSync>>
  BY DEF Crash, Fault
<1> QED
  BY <1>1, LeaveStep, ClosedType

LEMMA EndReadImplements ==
  ASSUME Known, Known', SnapInv, NEW c \in Conn, sqlite3WalEndReadTransaction(c)
  PROVE  SnapInv' /\ SDB!Next
<1> DEFINE w == pWal[c]
           image == ReadView(c)
           v == [w EXCEPT !.pc = "idle", !.readLock = -1, !.minFrame = 0, !.cache = image]
<1>1. /\ w.txn = 0 /\ UNCHANGED <<files, shm, nTxn, fullSync>>
  BY DEF sqlite3WalEndReadTransaction, bounds
<1>2. pWal' = [pWal EXCEPT ![c].pc = "idle", ![c].readLock = -1, ![c].minFrame = 0,
                           ![c].cache = image]
  BY DEF sqlite3WalEndReadTransaction
<1> HIDE DEF image
<1>3. w \in WalObject
  BY ObjectTypes DEF Known, WInv
<1>4. v.txn = 0 /\ v.readLock = -1 /\ v.pc = "idle" /\ pWal' = [pWal EXCEPT ![c] = v]
  BY <1>1, <1>2, <1>3 DEF WalObject
<1> HIDE DEF v
<1> QED
  BY <1>1, <1>4, LeaveStep

-----------------------------------------------------------------------------
(* Writers that read the database alone, or nothing at all *)

LEMMA WaitingWriter ==
  ASSUME Known, Known', SnapInv, NEW c \in Conn, NEW v, pWal' = [pWal EXCEPT ![c] = v],
         UNCHANGED <<db, wal, walHdr, nTxn, fullSync>>, aHdr'[0] = aHdr[0], NothingOlder',
         pWal[c].txn # 0, v.txn = pWal[c].txn, v.page = pWal[c].page,
         pWal[c].readLock <= 0, v.readLock <= 0,
         v.readLock \in Int, v.pc \notin {"publish", "recover_publish"},
         NewSalt(c)', \A a \in Conn : NoOldCopy(a)'
  PROVE  SnapInv' /\ SDB!Next
<1>1. pWal'[c] = v /\ \A d \in Conn \ {c} : pWal'[d] = pWal[d]
  BY ObjectTypes DEF Known, WInv
<1>2. Apart(c)
  BY <1>1 DEF Apart
<1>3. OwnFrames(c) /\ AllCopied(c) /\ pWal[c].readLock \in Int
  BY ObjectTypes DEF SnapInv, SnapOK, Known, WInv
<1>4. OwnFrames(c)'
  BY <1>1, <1>3 DEF OwnFrames
<1>5. HeadImage' = HeadImage /\ SameCommits
        /\ \A d \in Conn \ {c} : Sees(d)' = Sees(d) /\ (pWal'[d].txn # 0 <=> pWal[d].txn # 0)
  BY <1>2, ApartImages
<1>6. AllCopied(c)' /\ FoundOK(c)'
  BY <1>1, <1>3, <1>5 DEF AllCopied, FoundOK, At
<1>7. SnapInv'
  BY <1>2, <1>4, <1>6, ApartKeeps
<1>8. Sees(c)' = Sees(c)
  BY <1>1 DEF Sees, InTransaction, View, ReadView
<1>9. Unmoved /\ Synced
  BY <1>1, <1>5, <1>7, <1>8 DEF Unmoved, Synced, SnapInv
<1> QED
  BY <1>5, <1>7, <1>9, Silent DEF SameCommits

LEMMA WaitingSame ==
  ASSUME Known, Known', SnapInv, NEW c \in Conn, NEW v, pWal' = [pWal EXCEPT ![c] = v],
         UNCHANGED <<files, nTxn, fullSync, nBackfill>>, aHdr'[0] = aHdr[0],
         pWal[c].txn # 0, v.txn = pWal[c].txn, v.page = pWal[c].page,
         pWal[c].readLock \in {-1, 0}, v.readLock \in {-1, 0},
         v.pc \notin {"publish", "recover_publish", "ck_start", "ck_slots", "ck_lock", "ck_copy"},
         NewSalt(c)'
  PROVE  SnapInv' /\ SDB!Next
<1>1. pWal'[c] = v /\ \A d \in Conn \ {c} : pWal'[d] = pWal[d]
  BY ObjectTypes DEF Known, WInv
<1>2. NothingOlder' /\ UNCHANGED <<db, wal, walHdr>>
  BY OlderSame DEF SnapInv
<1>3. WithoutLog(c)
  BY DEF WithoutLog
<1>4. \A a \in Conn : NoOldCopy(a)'
  BY <1>1, <1>3, OldCopies DEF At, Copies
<1>5. pWal[c].readLock <= 0 /\ v.readLock <= 0 /\ v.readLock \in Int
  OBVIOUS
<1> QED
  BY <1>2, <1>4, <1>5, WaitingWriter

LEMMA RetryImplements ==
  ASSUME Known, Known', SnapInv, NEW c \in Conn, pWal[c].pc \in {"try", "slot", "verify"}, Retry(c),
         UNCHANGED <<files, shm, nTxn, fullSync>>
  PROVE  SnapInv' /\ SDB!Next
<1> DEFINE w == pWal[c]
           label == IF w.txn # 0 THEN "rebegin" ELSE "hdr"
           v == [w EXCEPT !.pc = label, !.minFrame = 0, !.slot = 0, !.mark = 0]
<1>1. pWal' = [pWal EXCEPT ![c] = v]
  BY DEF Retry
<1>2. w \in WalObject /\ w.readLock = -1
  BY AtSlot, ObjectTypes DEF Known, WInv
<1>3. v.txn = w.txn /\ v.page = w.page /\ v.readLock = -1 /\ v.pc = label
  BY <1>2 DEF WalObject
<1> HIDE DEF v
<1>4. UNCHANGED <<aHdr, nBackfill>>
  BY DEF shm
<1>5. CASE w.txn = 0
  <2>1. NothingOlder' /\ UNCHANGED <<db, wal, walHdr>>
    BY OlderSame DEF SnapInv
  <2> QED
    BY <1>1, <1>2, <1>3, <1>4, <1>5, <2>1, IdleSame
<1>6. CASE w.txn # 0
  <2>1. NewSalt(c)'
    BY <1>1, <1>2, <1>3, <1>6, ObjectTypes DEF NewSalt, At, Known, WInv
  <2> QED
    BY <1>1, <1>2, <1>3, <1>4, <1>6, <2>1, WaitingSame
<1> QED
  BY <1>5, <1>6

LEMMA ReadWithoutWalImplements ==
  ASSUME Known, Known', SnapInv, NEW c \in Conn, read_without_wal(c)
  PROVE  SnapInv' /\ SDB!Next
<1> DEFINE w == pWal[c]
           v == Begun(w, 0)
<1>1. w.pc = "try" /\ nBackfill = w.hdr.mxFrame /\ UNCHANGED <<files, shm, nTxn, fullSync>>
  BY DEF read_without_wal, At, AllBackfilled, bounds
<1>2. CASE aHdr[0] # w.hdr
  <2>1. Retry(c)
    BY <1>2 DEF read_without_wal
  <2> QED
    BY <1>1, <2>1, RetryImplements
<1>3. CASE aHdr[0] = w.hdr
  <2>1. pWal' = [pWal EXCEPT ![c] = v]
    BY <1>3 DEF read_without_wal
  <2>2. /\ w \in WalObject /\ w.txn = 0 /\ w.readLock = -1 /\ w.page = None /\ aHdr[0] # None
        /\ db \in Image
    BY <1>1, AtHdr, AtSlot, ObjectTypes DEF Known, WInv, FilesTyped
  <2>3. v.txn = 0 /\ v.readLock = 0 /\ v.pc = "reading" /\ v.page = None
    BY <2>2 DEF WalObject, Begun
  <2> HIDE DEF v
  <2>4. pWal'[c] = v /\ \A d \in Conn \ {c} : pWal'[d] = pWal[d]
    BY <2>1, ObjectTypes DEF Known, WInv
  <2>5. NothingOlder' /\ UNCHANGED <<db, wal, walHdr>>
    BY <1>1, OlderSame DEF SnapInv
  <2>6. UNCHANGED <<aHdr, nBackfill>>
    BY <1>1 DEF shm
  <2>7. Apart(c)
    BY <2>4, <2>5, <2>6 DEF Apart
  <2>8. OwnFrames(c)' /\ AllCopied(c)' /\ NewSalt(c)' /\ FoundOK(c)'
    BY <2>3, <2>4 DEF OwnFrames, AllCopied, NewSalt, FoundOK, At
  <2>9. \A a \in Conn : NoOldCopy(a)'
    BY <1>1, <1>3, <2>3, <2>4, <2>6, OldCopies DEF At, Copies
  <2>10. SnapInv'
    BY <1>1, <2>5, <2>7, <2>8, <2>9, ApartKeeps
  <2>11. Sees(c)' = CommittedImage /\ Sees(c) = None
    <3>1. Sees(c)' = db /\ Sees(c) = None
      BY <2>2, <2>3, <2>4, <2>5 DEF Sees, InTransaction, View, ReadView
    <3>2. HeadImage = db
      BY <1>1, <1>3, <2>2, HeadIsDb
    <3> QED
      BY <2>2, <3>1, <3>2 DEF CommittedImage, HeadImage
  <2>12. SameCommits /\ Moves(c, CommittedImage, w.txn # 0)
    BY <2>2, <2>3, <2>4, <2>7, <2>11, ApartImages DEF Moves
  <2>13. Synced
    BY <1>1, <2>10 DEF Synced, SnapInv
  <2> QED
    BY <2>10, <2>11, <2>12, <2>13, BeginsToRead
<1> QED
  BY <1>2, <1>3

LEMMA ChooseMarkImplements ==
  ASSUME Known, Known', SnapInv, NEW c \in Conn, choose_mark(c)
  PROVE  SnapInv' /\ SDB!Next
<1> DEFINE w == pWal[c]
<1>1. /\ w.pc \in {"try", "rebegin"} /\ UNCHANGED <<files, aHdr, nBackfill, nTxn, fullSync>>
  BY DEF choose_mark, At, bounds
<1>2. PICK i, m : pWal' = [pWal EXCEPT ![c].pc = "slot", ![c].slot = i, ![c].mark = m]
  BY DEF choose_mark
<1> DEFINE v == [w EXCEPT !.pc = "slot", !.slot = i, !.mark = m]
<1>3. w \in WalObject /\ w.readLock = -1
  BY <1>1, AtSlot, ObjectTypes DEF Known, WInv
<1>4. /\ v.txn = w.txn /\ v.page = w.page /\ v.readLock = -1 /\ v.pc = "slot"
      /\ pWal' = [pWal EXCEPT ![c] = v]
  BY <1>2, <1>3 DEF WalObject
<1> HIDE DEF v
<1>5. NewSalt(c)'
  BY <1>4, ObjectTypes DEF NewSalt, At, Known, WInv
<1>6. NothingOlder' /\ UNCHANGED <<db, wal, walHdr>>
  BY <1>1, OlderSame DEF SnapInv
<1>7. CASE w.txn = 0
  BY <1>1, <1>3, <1>4, <1>6, <1>7, IdleSame
<1>8. CASE w.txn # 0
  BY <1>1, <1>3, <1>4, <1>5, <1>8, WaitingSame
<1> QED
  BY <1>7, <1>8

LEMMA LockSlotImplements ==
  ASSUME Known, Known', SnapInv, NEW c \in Conn, lock_slot(c)
  PROVE  SnapInv' /\ SDB!Next
<1> DEFINE w == pWal[c]
           v == [w EXCEPT !.pc = "verify", !.minFrame = nBackfill + 1]
<1>1. w.pc = "slot" /\ UNCHANGED <<files, shm, nTxn, fullSync>>
  BY DEF lock_slot, At, bounds
<1>2. CASE Retry(c)
  BY <1>1, <1>2, RetryImplements
<1>3. CASE pWal' = [pWal EXCEPT ![c].pc = "verify", ![c].minFrame = nBackfill + 1]
  <2>1. w \in WalObject /\ w.readLock = -1
    BY <1>1, AtSlot, ObjectTypes DEF Known, WInv
  <2>2. /\ v.txn = w.txn /\ v.page = w.page /\ v.readLock = -1 /\ v.pc = "verify"
        /\ pWal' = [pWal EXCEPT ![c] = v]
    BY <1>3, <2>1 DEF WalObject
  <2> HIDE DEF v
  <2>3. NewSalt(c)'
    BY <2>2, ObjectTypes DEF NewSalt, At, Known, WInv
  <2>4. NothingOlder' /\ UNCHANGED <<db, wal, walHdr>>
    BY <1>1, OlderSame DEF SnapInv
  <2>5. UNCHANGED <<aHdr, nBackfill>>
    BY <1>1 DEF shm
  <2>6. CASE w.txn = 0
    BY <1>1, <2>1, <2>2, <2>4, <2>5, <2>6, IdleSame
  <2>7. CASE w.txn # 0
    BY <1>1, <2>1, <2>2, <2>3, <2>5, <2>7, WaitingSame
  <2> QED
    BY <2>6, <2>7
<1> QED
  BY <1>2, <1>3 DEF lock_slot

\* A snapshot that stands is the committed image; a writer has seen it before.
LEMMA VerifySlotImplements ==
  ASSUME Known, Known', SnapInv, NEW c \in Conn, verify_slot(c)
  PROVE  SnapInv' /\ SDB!Next
<1> DEFINE w == pWal[c]
           i == w.slot
           taken == [w EXCEPT !.readLock = i]
           v == IF w.txn = 0 THEN Begun(taken, taken.slot)
                ELSE [taken EXCEPT !.pc = FrameStep(taken), !.slot = 0, !.mark = 0]
<1>1. w.pc = "verify" /\ UNCHANGED <<files, shm, nTxn, fullSync>>
  BY DEF verify_slot, At, bounds
<1>2. CASE Retry(c)
  BY <1>1, <1>2, RetryImplements
<1>3. CASE pWal' = [pWal EXCEPT ![c] = v] /\ SnapshotStands(c)
  <2>1. /\ w \in WalObject /\ w.readLock = -1 /\ aHdr[0] = w.hdr /\ aHdr[0] # None /\ i \in Slots
        /\ aHdr[0].mxFrame \in Nat /\ NSlot \in Nat
        /\ (w.txn = 0 <=> w.page = None)
    BY <1>1, <1>3, AtSlot, ObjectTypes, Numbers DEF Known, WInv, SnapshotStands
  <2>2. i \in Int /\ i > 0
    BY <2>1 DEF Slots
  <2>3. /\ v.txn = w.txn /\ v.hdr = w.hdr /\ v.page = w.page /\ v.readLock = i
        /\ v.pc \in {"reading", "header", "frame"}
    BY <2>1, <2>2 DEF WalObject, Begun, FrameStep
  <2>4. pWal'[c] = v /\ \A d \in Conn \ {c} : pWal'[d] = pWal[d]
    BY <1>3, ObjectTypes DEF Known, WInv
  <2> HIDE DEF v
  <2>5. NothingOlder' /\ UNCHANGED <<db, wal, walHdr>>
    BY <1>1, OlderSame DEF SnapInv
  <2>6. UNCHANGED <<aHdr, nBackfill>>
    BY <1>1 DEF shm
  <2>7. Apart(c)
    BY <2>4, <2>5, <2>6 DEF Apart
  <2>8. OwnFrames(c)'
    <3>1. OwnFrames(c)
      BY DEF SnapInv, SnapOK
    <3>2. aHdr[0].mxFrame + 1 .. w.hdr.mxFrame = {}
      BY <2>1
    <3> QED
      BY <2>1, <2>2, <2>3, <2>4, <2>5, <2>6, <3>1, <3>2 DEF OwnFrames
  <2>9. AllCopied(c)' /\ NewSalt(c)' /\ FoundOK(c)'
    BY <2>2, <2>3, <2>4 DEF AllCopied, NewSalt, FoundOK, At
  <2>10. ~WithoutLog(c)'
    BY <2>2, <2>3, <2>4 DEF WithoutLog
  <2>11. \A a \in Conn : NoOldCopy(a)'
    BY <2>3, <2>4, <2>6, <2>10, OldCopies DEF At, Copies
  <2>12. SnapInv'
    BY <1>1, <2>5, <2>7, <2>8, <2>9, <2>11, ApartKeeps
  <2>13. ReadView(c)' = HeadImage
    BY <2>1, <2>2, <2>3, <2>4, <2>5, NextLogView DEF HeadImage
  <2>14. Synced
    BY <1>1, <2>12 DEF Synced, SnapInv
  <2>15. CommittedImage = HeadImage
    BY <2>1 DEF CommittedImage, HeadImage
  <2>16. InTransaction(c)' /\ (w.page = None => View(c)' = HeadImage)
    BY <2>2, <2>3, <2>4, <2>13 DEF InTransaction, View
  <2>17. CASE w.txn = 0
    <3>1. Sees(c)' = CommittedImage /\ Sees(c) = None
      BY <2>1, <2>15, <2>16, <2>17 DEF Sees, InTransaction
    <3>2. SameCommits /\ Moves(c, CommittedImage, w.txn # 0)
      BY <2>3, <2>4, <2>7, <3>1, ApartImages DEF Moves
    <3> QED
      BY <2>12, <2>14, <3>1, <3>2, BeginsToRead
  <2>18. CASE w.txn # 0
    <3>1. HeadImage = db
      BY <2>1, <2>18 DEF SnapInv, SnapOK, AllCopied
    <3>2. ReadView(c) = db
      BY <2>1 DEF ReadView
    <3>3. View(c)' = View(c)
      BY <2>3, <2>4, <2>13, <3>1, <3>2 DEF View
    <3>4. Sees(c)' = Sees(c)
      BY <2>16, <2>18, <3>3 DEF Sees, InTransaction
    <3>5. SameCommits /\ Unmoved
      BY <2>3, <2>4, <2>7, <3>4, ApartImages DEF Unmoved
    <3> QED
      BY <2>12, <2>14, <3>5, Silent DEF SameCommits
  <2> QED
    BY <2>17, <2>18
<1> QED
  BY <1>2, <1>3 DEF verify_slot

-----------------------------------------------------------------------------
(* Restarts *)

\* A writer that has written no frame has a salt of its own.
LEMMA NewTxnSalt ==
  ASSUME Known, SnapInv, NEW c \in Conn, pWal[c].txn # 0,
         pWal[c].readLock <= 0 \/ LastWritten(c) = 0
  PROVE  \A k \in Frames : wal[k] # None => wal[k].salt # pWal[c].txn
<1> SUFFICES ASSUME NEW k \in Frames, wal[k] # None PROVE wal[k].salt # pWal[c].txn
  OBVIOUS
<1>1. wal[k] \in MayHold(k) /\ wal[k] \in Frame /\ nTxn \in Nat /\ pWal[c].txn = nTxn
      /\ pWal[c].readLock \in Int
  BY ObjectTypes DEF Known, WInv, FilesTyped, LogTyped, SharedTyped, Txn, ConnOK, Control
<1>2. wal[k].by <= nTxn /\ wal[k].by \in Nat /\ wal[k].salt \in Nat
  BY <1>1 DEF MayHold, Frame, Txn
<1>3. wal[k].salt <= wal[k].by
  BY DEF SnapInv, LogOrdered
<1>4. wal[k].by # pWal[c].txn
  <2>1. OwnFrames(c) /\ k \in Nat /\ k > 0
    BY DEF SnapInv, SnapOK, Frames
  <2> QED
    BY <1>1, <2>1 DEF OwnFrames
<1> QED
  BY <1>1, <1>2, <1>3, <1>4

LEMMA RestartLogImplements ==
  ASSUME Known, Known', SnapInv, NEW c \in Conn, walRestartLog(c)
  PROVE  SnapInv' /\ SDB!Next
<1> DEFINE w == pWal[c]
           h == [w.hdr EXCEPT !.mxFrame = 0, !.salt = w.txn]
           v == [w EXCEPT !.pc = "restart_publish", !.hdr = h, !.nCkpt = TRUE]
<1>1. /\ w.pc = "restart" /\ UNCHANGED <<files, nBackfill, nTxn, fullSync>>
      /\ aHdr' = [aHdr EXCEPT ![1] = h]
  BY DEF walRestartLog, RestartHdr, At, bounds
<1>2. /\ w \in WalObject /\ w.readLock = 0 /\ w.txn # 0 /\ w.hdr \in Header /\ SharedTyped
  <2>1. Control(c)
    BY DEF Known, WInv, ConnOK
  <2>2. w.readLock \in Int /\ w.readLock >= 0 /\ w.readLock <= 0
    BY <1>1, <2>1, ObjectTypes DEF Known, WInv, Control
  <2> QED
    BY <1>1, <2>2, AtReading DEF Known
<1>3. h.salt = w.txn
  BY <1>2 DEF Header
<1>4. /\ v.txn = w.txn /\ v.page = w.page /\ v.readLock = 0 /\ v.pc = "restart_publish"
      /\ v.hdr = h /\ pWal' = [pWal EXCEPT ![c] = v]
  <2>1. pWal' = [pWal EXCEPT ![c].pc = "restart_publish", ![c].hdr = h, ![c].nCkpt = TRUE]
    BY DEF walRestartLog, RestartHdr
  <2> HIDE DEF h
  <2> QED
    BY <1>2, <2>1 DEF WalObject
<1> HIDE DEF v, h
<1>5. NewSalt(c)'
  <2>1. \A k \in Frames : wal[k] # None => wal[k].salt # w.txn
    BY <1>2, NewTxnSalt
  <2>2. pWal'[c] = v /\ wal' = wal
    BY <1>1, <1>2, <1>4 DEF files, SharedTyped
  <2> QED
    BY <1>3, <1>4, <2>1, <2>2 DEF NewSalt
<1>6. aHdr'[0] = aHdr[0]
  BY <1>1, <1>2 DEF SharedTyped
<1> QED
  BY <1>1, <1>2, <1>4, <1>5, <1>6, WaitingSame

LEMMA RestartNotPossibleImplements ==
  ASSUME Known, Known', SnapInv, NEW c \in Conn, restart_not_possible(c)
  PROVE  SnapInv' /\ SDB!Next
<1> DEFINE w == pWal[c]
           v == [w EXCEPT !.pc = "rebegin", !.readLock = -1]
<1>1. /\ w.pc = "restart" /\ UNCHANGED <<files, shm, nTxn, fullSync>>
      /\ pWal' = [pWal EXCEPT ![c].pc = "rebegin", ![c].readLock = -1]
  BY DEF restart_not_possible, At, bounds
<1>2. w \in WalObject /\ w.readLock = 0 /\ w.txn # 0
  BY <1>1, AtReading DEF Known
<1>3. /\ v.txn = w.txn /\ v.page = w.page /\ v.readLock = -1 /\ v.pc = "rebegin"
      /\ pWal' = [pWal EXCEPT ![c] = v]
  BY <1>1, <1>2 DEF WalObject
<1> HIDE DEF v
<1>4. NewSalt(c)'
  BY <1>3, ObjectTypes DEF NewSalt, At, Known, WInv
<1>5. UNCHANGED <<aHdr, nBackfill>>
  BY <1>1 DEF shm
<1> QED
  BY <1>1, <1>2, <1>3, <1>4, <1>5, WaitingSame

LEMMA RestartMarksImplements ==
  ASSUME Known, Known', SnapInv, NEW c \in Conn, restart_marks(c)
  PROVE  SnapInv' /\ SDB!Next
<1> DEFINE w == pWal[c]
           v == [w EXCEPT !.pc = "rebegin", !.readLock = -1]
<1>1. /\ w.pc = "restart_marks" /\ w.mode = "READ"
      /\ UNCHANGED <<files, aHdr, nBackfill, nTxn, fullSync>>
      /\ pWal' = [pWal EXCEPT ![c].pc = "rebegin", ![c].readLock = -1]
  BY DEF restart_marks, RestartMarks, At, bounds
<1>2. w \in WalObject /\ w.readLock = 0 /\ w.txn # 0
  BY <1>1, AtRestart DEF Known, RestartSteps
<1>3. /\ v.txn = w.txn /\ v.page = w.page /\ v.readLock = -1 /\ v.pc = "rebegin"
      /\ pWal' = [pWal EXCEPT ![c] = v]
  BY <1>1, <1>2 DEF WalObject
<1> HIDE DEF v
<1>4. NewSalt(c)'
  BY <1>3, ObjectTypes DEF NewSalt, At, Known, WInv
<1> QED
  BY <1>1, <1>2, <1>3, <1>4, WaitingSame

LEMMA RestartResetImplements ==
  ASSUME Known, Known', SnapInv, NEW c \in Conn, restart_reset(c)
  PROVE  SnapInv' /\ SDB!Next
<1> DEFINE w == pWal[c]
           v == [w EXCEPT !.pc = "restart_marks"]
<1>1. /\ w.pc = "restart_reset" /\ UNCHANGED <<files, aHdr, nTxn, fullSync>>
      /\ pWal' = [pWal EXCEPT ![c] = v]
  BY DEF restart_reset, At, Goto, bounds
<1>2. /\ w \in WalObject /\ w.hdr.mxFrame = 0 /\ w.hdr = aHdr[0]
      /\ (w.txn # 0 /\ w.readLock = 0) \/ (w.txn = 0 /\ w.readLock = -1)
  BY <1>1, AtRestart DEF Known, RestartSteps, RestartOK
<1>3. v.txn = w.txn /\ v.page = w.page /\ v.readLock = w.readLock /\ v.pc = "restart_marks"
  BY <1>2 DEF WalObject
<1> HIDE DEF v
<1>4. pWal'[c] = v
  BY <1>1, ObjectTypes DEF Known, WInv
<1>5. NewSalt(c)' /\ FoundOK(c)'
  BY <1>3, <1>4 DEF NewSalt, FoundOK, At
<1>6. \A a \in Conn : NoOldCopy(a)'
  BY <1>1, <1>2, EmptyNoOldCopy
<1>7. NothingOlder' /\ UNCHANGED <<db, wal, walHdr>>
  BY <1>1, OlderSame DEF SnapInv
<1>8. CASE w.txn = 0
  BY <1>1, <1>2, <1>3, <1>5, <1>6, <1>7, <1>8, IdleStep
<1>9. CASE w.txn # 0
  <2>1. w.readLock <= 0 /\ v.readLock <= 0 /\ v.readLock \in Int
    BY <1>2, <1>3, <1>9
  <2> QED
    BY <1>1, <1>2, <1>3, <1>5, <1>6, <1>7, <1>9, <2>1, WaitingWriter
<1> QED
  BY <1>8, <1>9

-----------------------------------------------------------------------------
(* Write transactions *)

\* One begins on the committed image.
LEMMA BeginWriteImplements ==
  ASSUME Known, Known', SnapInv, NEW c \in Conn, sqlite3WalBeginWriteTransaction(c)
  PROVE  SnapInv' /\ SDB!Next
<1> DEFINE w == pWal[c]
           n == nTxn + 1
           v == [w EXCEPT !.txn = n, !.cache = None]
<1>1. /\ w.pc = "reading" /\ w.txn = 0 /\ aHdr[0] = w.hdr /\ UNCHANGED <<files, shm, fullSync>>
      /\ nTxn' = n /\ pWal' = [pWal EXCEPT ![c].txn = n, ![c].cache = None]
  BY DEF sqlite3WalBeginWriteTransaction, At
<1>2. /\ w \in WalObject /\ w.readLock \in Int /\ w.readLock >= 0 /\ w.page = None
      /\ aHdr[0] # None /\ aHdr[0].mxFrame \in Nat /\ nTxn \in Nat /\ db \in Image
  BY <1>1, AtReading, LogWritten DEF Known, WInv, SharedTyped, Txn
<1>3. n # 0 /\ n = nTxn + 1
  BY <1>2
<1> HIDE DEF n
<1>4. /\ v.txn = n /\ v.hdr = w.hdr /\ v.readLock = w.readLock /\ v.page = None /\ v.pc = "reading"
      /\ v.minFrame = w.minFrame /\ pWal' = [pWal EXCEPT ![c] = v]
  BY <1>1, <1>2 DEF WalObject
<1> HIDE DEF v
<1>5. pWal'[c] = v /\ \A d \in Conn \ {c} : pWal'[d] = pWal[d]
  BY <1>4, ObjectTypes DEF Known, WInv
<1>6. NothingOlder' /\ UNCHANGED <<db, wal, walHdr>>
  BY <1>1, OlderSame DEF SnapInv
<1>7. UNCHANGED <<aHdr, nBackfill>>
  BY <1>1 DEF shm
<1>8. Apart(c)
  BY <1>5, <1>6, <1>7 DEF Apart
<1>9. w.readLock <= 0 => HeadImage = db
  <2>1. ASSUME w.readLock <= 0 PROVE Stands(w.hdr, db)
    BY <1>1, <1>2, <2>1 DEF Known, ImageInv, ImageOK, CacheOK
  <2> QED
    BY <1>1, <2>1 DEF Stands, FitsHead
<1>10. OwnFrames(c)'
  <2>1. ASSUME NEW p \in Page PROVE db[p] # n
    <3>1. db[p] \in Int /\ db[p] <= nTxn
      BY <1>2 DEF SnapInv, PagesOld, Image
    <3> QED
      BY <1>2, <1>3, <3>1
  <2>2. ASSUME NEW k \in Frames, wal[k] # None PROVE wal[k].by # n
    <3>1. wal[k] \in MayHold(k)
      BY DEF Known, WInv, FilesTyped, LogTyped
    <3>2. wal[k].by <= nTxn /\ wal[k].by \in Nat
      BY <2>2, <3>1 DEF MayHold, Frame, Txn
    <3> QED
      BY <1>2, <1>3, <3>2
  <2>3. aHdr[0].mxFrame + 1 .. w.hdr.mxFrame = {}
    BY <1>1, <1>2
  <2> QED
    BY <1>4, <1>5, <1>6, <1>7, <2>1, <2>2, <2>3 DEF OwnFrames
<1>11. AllCopied(c)' /\ NewSalt(c)' /\ FoundOK(c)'
  <2>1. HeadImage' = HeadImage
    BY <1>8, ApartImages
  <2> QED
    BY <1>4, <1>5, <1>6, <1>9, <2>1 DEF AllCopied, NewSalt, FoundOK, At
<1>12. WithoutLog(c)' => WithoutLog(c)
  BY <1>1, <1>2, <1>4, <1>5 DEF WithoutLog
<1>13. \A a \in Conn : NoOldCopy(a)'
  BY <1>4, <1>5, <1>7, <1>12, OldCopies DEF At, Copies
<1>14. SnapInv'
  BY <1>1, <1>3, <1>6, <1>8, <1>10, <1>11, <1>13, ApartKeeps
<1>15. Sees(c) = CommittedImage /\ Sees(c)' = CommittedImage
  <2>1. CommittedImage = HeadImage
    BY <1>2 DEF CommittedImage, HeadImage
  <2>2. ReadView(c) = HeadImage
    <3>1. CASE w.readLock > 0
      BY <1>1, <3>1, LogView DEF HeadImage
    <3>2. CASE w.readLock <= 0
      BY <1>9, <3>2 DEF ReadView
    <3> QED
      BY <1>2, <3>1, <3>2
  <2>3. ReadView(c)' = ReadView(c)
    <3>1. aPgno' = aPgno
      BY <1>1 DEF shm
    <3> QED
      BY <1>4, <1>5, <1>6, <3>1 DEF ReadView
  <2> QED
    BY <1>2, <1>4, <1>5, <2>1, <2>2, <2>3 DEF Sees, InTransaction, View
<1>16. ASSUME NEW d \in Conn PROVE pWal[d].txn = 0
  <2>1. WRITE \in exclusive'[c]
    BY <1>3, <1>4, <1>5 DEF Known, WInv, ConnOK, Holds
  <2> QED
    BY <1>1, <1>5, <2>1, NextOneWriter DEF Known
<1>17. SameCommits /\ Moves(c, CommittedImage, TRUE)
  BY <1>3, <1>4, <1>5, <1>8, <1>15, ApartImages DEF Moves
<1>18. Synced
  BY <1>1, <1>14 DEF Synced, SnapInv
<1> QED
  BY <1>14, <1>15, <1>16, <1>17, <1>18, BeginsToWrite

\* A page that is written is seen by its writer alone.
LEMMA WalFramesImplements ==
  ASSUME Known, Known', SnapInv, NEW c \in Conn, NEW p \in Page, NEW commit \in BOOLEAN,
         walFrames(c, p, commit)
  PROVE  SnapInv' /\ SDB!Next
<1> DEFINE w == pWal[c]
           label == FrameStep(w)
           v == [w EXCEPT !.pc = label, !.page = p, !.commit = commit]
<1>1. /\ w.pc = "reading" /\ w.txn # 0 /\ UNCHANGED <<files, shm, nTxn, fullSync>>
      /\ pWal' = [pWal EXCEPT ![c].pc = label, ![c].page = p, ![c].commit = commit]
  BY DEF walFrames, At, bounds
<1>2. /\ w \in WalObject /\ w.page = None /\ w.txn \in 0 .. MaxTxn + 1
      /\ label \in {"restart", "header", "frame"} /\ p # None
  <2>1. w \in WalObject /\ w.page = None /\ w.txn \in 0 .. MaxTxn
    BY <1>1, AtReading, ObjectTypes DEF Known, WInv, Txn
  <2> QED
    BY <2>1, Numbers, NoneAssumption DEF FrameStep
<1> HIDE DEF label
<1>3. /\ v.txn = w.txn /\ v.hdr = w.hdr /\ v.readLock = w.readLock /\ v.page = p /\ v.pc = label
      /\ v.minFrame = w.minFrame /\ pWal' = [pWal EXCEPT ![c] = v]
  BY <1>1, <1>2 DEF WalObject
<1> HIDE DEF v
<1>4. pWal'[c] = v /\ \A d \in Conn \ {c} : pWal'[d] = pWal[d]
  BY <1>3, ObjectTypes DEF Known, WInv
<1>5. NothingOlder' /\ UNCHANGED <<db, wal, walHdr>>
  BY <1>1, OlderSame DEF SnapInv
<1>6. UNCHANGED <<aHdr, nBackfill, aPgno>>
  BY <1>1 DEF shm
<1>7. Apart(c)
  BY <1>4, <1>5, <1>6 DEF Apart
<1>8. OwnFrames(c)' /\ AllCopied(c)' /\ NewSalt(c)' /\ FoundOK(c)'
  <2>1. OwnFrames(c) /\ AllCopied(c)
    BY DEF SnapInv, SnapOK
  <2>2. HeadImage' = HeadImage
    BY <1>7, ApartImages
  <2>3. LastWritten(c) = w.hdr.mxFrame /\ LastWritten(c)' = w.hdr.mxFrame
    BY <1>1, <1>2, <1>3, <1>4 DEF LastWritten
  <2>4. OwnFrames(c)'
    <3>1. w.pc # "publish" /\ label # "publish"
      BY <1>1, <1>2
    <3>2. /\ pWal'[c].txn = w.txn /\ pWal'[c].hdr = w.hdr /\ pWal'[c].readLock = w.readLock
          /\ pWal'[c].pc # "publish"
      BY <1>3, <1>4, <3>1
    <3> QED
      BY <1>1, <1>5, <1>6, <2>1, <2>3, <3>1, <3>2 DEF OwnFrames
  <2> QED
    BY <1>2, <1>3, <1>4, <1>5, <2>1, <2>2, <2>4 DEF AllCopied, NewSalt, FoundOK, At
<1>9. WithoutLog(c)' => WithoutLog(c)
  BY <1>3, <1>4, <1>6 DEF WithoutLog
<1>10. \A a \in Conn : NoOldCopy(a)'
  BY <1>2, <1>3, <1>4, <1>6, <1>9, OldCopies DEF At, Copies
<1>11. SnapInv'
  BY <1>1, <1>5, <1>7, <1>8, <1>10, ApartKeeps
<1>12. Sees(c)' = [Sees(c) EXCEPT ![p] = w.txn]
  <2>1. ReadView(c)' = ReadView(c)
    BY <1>3, <1>4, <1>5, <1>6 DEF ReadView
  <2> QED
    BY <1>1, <1>2, <1>3, <1>4, <2>1 DEF Sees, InTransaction, View
<1>13. SameCommits /\ Moves(c, [Sees(c) EXCEPT ![p] = w.txn], TRUE)
  BY <1>1, <1>3, <1>4, <1>7, <1>12, ApartImages DEF Moves
<1>14. Synced
  BY <1>1, <1>11 DEF Synced, SnapInv
<1> QED
  BY <1>1, <1>2, <1>11, <1>13, <1>14, Writes

LEMMA UndoImplements ==
  ASSUME Known, Known', SnapInv, NEW c \in Conn, sqlite3WalUndo(c)
  PROVE  SnapInv' /\ SDB!Next
<1> DEFINE w == pWal[c]
           h == aHdr[0]
           v == [w EXCEPT !.hdr = h, !.txn = 0]
<1>1. /\ w.pc = "reading" /\ w.txn # 0 /\ UNCHANGED <<files, aHdr, nBackfill, nTxn, fullSync>>
      /\ pWal' = [pWal EXCEPT ![c].hdr = h, ![c].txn = 0]
  BY DEF sqlite3WalUndo, At, bounds
<1>2. w \in WalObject /\ w.page = None /\ w.readLock \in Int /\ w.readLock >= 0 /\ h # None
  BY <1>1, AtReading DEF Known
<1>3. /\ v.txn = 0 /\ v.hdr = h /\ v.readLock = w.readLock /\ v.page = None /\ v.pc = "reading"
      /\ pWal' = [pWal EXCEPT ![c] = v]
  BY <1>1, <1>2 DEF WalObject
<1> HIDE DEF v
<1>4. pWal'[c] = v /\ \A d \in Conn \ {c} : pWal'[d] = pWal[d]
  BY <1>3, ObjectTypes DEF Known, WInv
<1>5. NothingOlder' /\ UNCHANGED <<db, wal, walHdr>>
  BY <1>1, OlderSame DEF SnapInv
<1>6. Apart(c)
  BY <1>1, <1>4, <1>5 DEF Apart
<1>7. OwnFrames(c)' /\ AllCopied(c)' /\ NewSalt(c)' /\ FoundOK(c)'
  BY <1>3, <1>4 DEF OwnFrames, AllCopied, NewSalt, FoundOK, At
<1>8. WithoutLog(c)' => WithoutLog(c)
  BY <1>1, <1>2, <1>3, <1>4 DEF WithoutLog
<1>9. \A a \in Conn : NoOldCopy(a)'
  BY <1>1, <1>3, <1>4, <1>8, OldCopies DEF At, Copies
<1>10. SnapInv'
  BY <1>1, <1>5, <1>6, <1>7, <1>9, ApartKeeps
<1>11. Sees(c)' = CommittedImage
  <2>1. CommittedImage = HeadImage
    BY <1>2 DEF CommittedImage, HeadImage
  <2>2. CASE w.readLock > 0
    <3>1. ReadView(c)' = HeadImage
      BY <1>3, <1>4, <1>5, <2>2, NextLogView DEF HeadImage
    <3> QED
      BY <1>2, <1>3, <1>4, <2>1, <3>1 DEF Sees, InTransaction, View
  <2>3. CASE w.readLock <= 0
    <3>1. HeadImage = db
      BY <1>1, <2>3 DEF SnapInv, SnapOK, AllCopied
    <3>2. ReadView(c)' = db
      BY <1>3, <1>4, <1>5, <2>3 DEF ReadView
    <3> QED
      BY <1>2, <1>3, <1>4, <2>1, <3>1, <3>2 DEF Sees, InTransaction, View
  <2> QED
    BY <1>2, <2>2, <2>3
<1>12. \A d \in Conn \ {c} : pWal[d].txn = 0
  BY <1>1, Writing, OneWriter DEF Known
<1>13. SameCommits /\ Moves(c, CommittedImage, FALSE)
  BY <1>3, <1>4, <1>6, <1>11, ApartImages DEF Moves
<1>14. Synced
  BY <1>1, <1>10 DEF Synced, SnapInv
<1> QED
  BY <1>1, <1>10, <1>12, <1>13, <1>14, RollsBack

-----------------------------------------------------------------------------
(* Writing to the log *)

\* A step of a writer that reads from the log, and changes nothing that is seen.
LEMMA LogWriter ==
  ASSUME Known, Known', SnapInv, NEW c \in Conn, NEW v, pWal' = [pWal EXCEPT ![c] = v],
         UNCHANGED <<db, wal, walHdr, nTxn, fullSync, nBackfill>>, aHdr'[0] = aHdr[0],
         NothingOlder', pWal[c].pc \in FrameSteps,
         v.txn = pWal[c].txn, v.readLock = pWal[c].readLock,
         v.pc \in FrameSteps, OwnFrames(c)', View(c)' = View(c)
  PROVE  SnapInv' /\ SDB!Next
<1>1. pWal'[c] = v /\ \A d \in Conn \ {c} : pWal'[d] = pWal[d]
  BY ObjectTypes DEF Known, WInv
<1>2. pWal[c].txn # 0 /\ pWal[c].readLock \in Int /\ pWal[c].readLock > 0
  BY AtFrame, ObjectTypes DEF Known, WInv
<1>3. Apart(c)
  BY <1>1 DEF Apart
<1>4. AllCopied(c)' /\ NewSalt(c)' /\ FoundOK(c)'
  BY <1>1, <1>2 DEF AllCopied, NewSalt, FoundOK, At, FrameSteps
<1>5. ~WithoutLog(c)'
  BY <1>1, <1>2 DEF WithoutLog
<1>6. \A a \in Conn : NoOldCopy(a)'
  BY <1>1, <1>5, OldCopies DEF At, Copies, FrameSteps
<1>7. SnapInv'
  BY <1>3, <1>4, <1>6, ApartKeeps
<1>8. Sees(c)' = Sees(c)
  BY <1>1, <1>2 DEF Sees, InTransaction
<1>9. SameCommits /\ Unmoved
  BY <1>1, <1>2, <1>3, <1>8, ApartImages DEF Unmoved
<1>10. Synced
  BY <1>7 DEF Synced, SnapInv
<1> QED
  BY <1>7, <1>9, <1>10, Silent DEF SameCommits

LEMMA SyncImplements ==
  ASSUME Known, Known', SnapInv, NEW c \in Conn, sync_wal_header(c) \/ sync_frame(c)
  PROVE  SnapInv' /\ SDB!Next
<1> DEFINE w == pWal[c]
           label == IF sync_frame(c) THEN "append" ELSE "frame"
           v == [w EXCEPT !.pc = label]
<1>1. /\ SyncWal /\ UNCHANGED <<shm, nTxn, fullSync>> /\ pWal' = [pWal EXCEPT ![c] = v]
      /\ w.pc \in FrameSteps /\ label \in {"frame", "append"}
      /\ label = "append" <=> w.pc = "sync_frame"
      /\ w.pc \in {"sync_frame", "sync_header"}
  BY DEF sync_wal_header, sync_frame, At, Goto, bounds, FrameSteps
<1> HIDE DEF label
<1>2. w \in WalObject
  BY ObjectTypes DEF Known, WInv
<1>3. /\ v.txn = w.txn /\ v.readLock = w.readLock /\ v.pc = label /\ v.hdr = w.hdr
      /\ v.page = w.page /\ v.minFrame = w.minFrame
  BY <1>2 DEF WalObject
<1> HIDE DEF v
<1>4. pWal'[c] = v /\ UNCHANGED <<aHdr, nBackfill, aPgno>>
  BY <1>1, ObjectTypes DEF Known, WInv, shm
<1>5. NothingOlder' /\ UNCHANGED <<db, wal, walHdr>>
  BY <1>1, SyncedSame DEF SnapInv
<1>6. OwnFrames(c)'
  <2>1. OwnFrames(c)
    BY DEF SnapInv, SnapOK
  <2>2. LastWritten(c)' = LastWritten(c)
    BY <1>1, <1>3, <1>4 DEF LastWritten, NextFrame
  <2>3. v.pc # "publish" /\ w.pc # "publish"
    BY <1>1, <1>3
  <2> QED
    BY <1>3, <1>4, <1>5, <2>1, <2>2, <2>3 DEF OwnFrames
<1>7. View(c)' = View(c)
  <2>1. ReadView(c)' = ReadView(c)
    BY <1>3, <1>4, <1>5 DEF ReadView
  <2> QED
    BY <1>3, <1>4, <2>1 DEF View
<1>8. v.pc \in FrameSteps
  BY <1>1, <1>3 DEF FrameSteps
<1> QED
  BY <1>1, <1>3, <1>4, <1>5, <1>6, <1>7, <1>8, LogWriter

\* What was dirty in the cache is in the index now.
LEMMA AppendCommitImplements ==
  ASSUME Known, Known', SnapInv, NEW c \in Conn, append_commit(c)
  PROVE  SnapInv' /\ SDB!Next
<1> DEFINE w == pWal[c]
           n == w.hdr.mxFrame
           h == [w.hdr EXCEPT !.mxFrame = NextFrame(c), !.iChange = @ + 1, !.cksum = w.txn]
           v == [w EXCEPT !.pc = "publish", !.hdr = h]
<1>1. /\ w.pc = "append" /\ UNCHANGED <<files, nBackfill, nTxn, fullSync>>
      /\ pWal' = [pWal EXCEPT ![c].pc = "publish", ![c].hdr = h]
      /\ aHdr' = [aHdr EXCEPT ![1] = h]
  BY DEF append_commit, At, bounds
<1>2. /\ w \in WalObject /\ w.txn # 0 /\ w.readLock > 0 /\ w.hdr \in Header /\ n \in Nat
      /\ w.page # None /\ w.page \in Page /\ aHdr[0].mxFrame \in Nat /\ SharedTyped
      /\ aHdr[0].mxFrame <= n /\ NextFrame(c) \in Frames /\ NextFrame(c) = n + 1
      /\ NextWritten(c)
  <2>1. WInv /\ w.pc \in FrameSteps \ {"publish"}
    BY <1>1 DEF Known, FrameSteps
  <2>2. /\ w \in WalObject /\ w.txn # 0 /\ w.readLock > 0 /\ w.hdr \in Header /\ n \in Nat
        /\ w.page # None /\ w.page \in Page /\ aHdr[0].mxFrame \in Nat /\ SharedTyped
        /\ WriterOK(c)
    BY <2>1, AtFrame, Numbers
  <2>3. aHdr[0].mxFrame <= n /\ NextFrame(c) \in Frames /\ NextFrame(c) = n + 1
    BY <2>1, RoomForFrame DEF NextFrame
  <2>4. NextWritten(c)
    BY <1>1, <2>2 DEF WriterOK
  <2> QED
    BY <2>2, <2>3, <2>4
<1>3. h.mxFrame = n + 1
  BY <1>2 DEF Header
<1> HIDE DEF h
<1>4. /\ v.txn = w.txn /\ v.readLock = w.readLock /\ v.pc = "publish" /\ v.hdr = h
      /\ v.page = w.page /\ pWal' = [pWal EXCEPT ![c] = v]
  BY <1>1, <1>2 DEF WalObject
<1> HIDE DEF v
<1>5. pWal'[c] = v /\ aHdr'[0] = aHdr[0]
  <2>1. pWal'[c] = v
    BY <1>2, <1>4, ObjectTypes
  <2>2. aHdr'[0] = aHdr[0]
    BY <1>1, <1>2 DEF SharedTyped
  <2> QED
    BY <2>1, <2>2
<1>6. NothingOlder' /\ UNCHANGED <<db, wal, walHdr>>
  BY <1>1, OlderSame DEF SnapInv
<1>7. wal[n + 1].pgno = w.page /\ wal[n + 1].by = w.txn
  BY <1>2 DEF NextWritten
<1>8. OwnFrames(c)'
  <2>1. OwnFrames(c)
    BY DEF SnapInv, SnapOK
  <2>2. LastWritten(c) = n + 1 /\ LastWritten(c)' = n + 1
    BY <1>1, <1>2, <1>3, <1>4, <1>5 DEF LastWritten
  <2>3. ASSUME NEW k \in aHdr[0].mxFrame + 1 .. n + 1 PROVE wal[k].by = w.txn
    <3>1. k = n + 1 \/ k \in aHdr[0].mxFrame + 1 .. n
      BY <1>2
    <3> QED
      BY <1>2, <1>7, <2>1, <3>1 DEF OwnFrames
  <2>4. aHdr[0].mxFrame < n + 1
    BY <1>2
  <2> QED
    BY <1>2, <1>3, <1>4, <1>5, <1>6, <1>7, <2>1, <2>2, <2>3, <2>4 DEF OwnFrames
<1>9. View(c)' = View(c)
  <2>1. ReadView(c) = LogImage(db, wal, n)
    BY <1>2, LogView
  <2>2. ReadView(c)' = LogImage(db, wal, n + 1) /\ Written(wal, n + 1)
    BY <1>2, <1>3, <1>4, <1>5, <1>6, NextLogView
  <2>3. ReadView(c)' = [ReadView(c) EXCEPT ![w.page] = w.txn]
    BY <1>2, <1>7, <2>1, <2>2, LogAppend
  <2>4. View(c)' = [ReadView(c)' EXCEPT ![w.page] = w.txn]
    BY <1>2, <1>4, <1>5 DEF View
  <2>5. View(c) = [ReadView(c) EXCEPT ![w.page] = w.txn]
    BY <1>2 DEF View
  <2>6. PICK T : ReadView(c) \in [Page -> T]
    BY <2>1, ImageOnPages
  <2> QED
    BY <1>2, <2>3, <2>4, <2>5, <2>6
<1>10. w.pc \in FrameSteps /\ v.pc \in FrameSteps
  BY <1>1, <1>4 DEF FrameSteps
<1> QED
  BY <1>1, <1>4, <1>5, <1>6, <1>8, <1>9, <1>10, LogWriter

-----------------------------------------------------------------------------
(* Steps that publish a header, or change that of the file *)

\* The empty log is published: all of the old one is in the database.
LEMMA RestartPublishImplements ==
  ASSUME Known, Known', SnapInv, NEW c \in Conn, restart_publish(c)
  PROVE  SnapInv' /\ SDB!Next
<1> DEFINE w == pWal[c]
           h == w.hdr
           v == [w EXCEPT !.pc = "restart_reset"]
<1>1. /\ w.pc = "restart_publish" /\ UNCHANGED <<files, nTxn, fullSync>>
      /\ pWal' = [pWal EXCEPT ![c] = v] /\ aHdr' = [aHdr EXCEPT ![0] = h]
  BY DEF restart_publish, At, Goto, bounds
<1>2. /\ w \in WalObject /\ h # None /\ h.mxFrame = 0 /\ aHdr[0] # None /\ SharedTyped
      /\ WRITE \in exclusive[c] /\ db \in Image
      /\ w.readLock \in {-1, 0} /\ (w.txn # 0 <=> w.readLock = 0)
  BY <1>1, AtRestart DEF Known, RestartSteps, WInv, FilesTyped
<1>3. v.txn = w.txn /\ v.readLock = w.readLock /\ v.page = w.page /\ v.pc = "restart_reset"
  BY <1>2 DEF WalObject
<1> HIDE DEF v
<1>4. pWal'[c] = v /\ \A d \in Conn \ {c} : pWal'[d] = pWal[d]
  BY <1>1, <1>2, ObjectTypes
<1>5. aHdr'[0] = h
  BY <1>1, <1>2 DEF SharedTyped
<1>6. NothingOlder' /\ UNCHANGED <<db, wal, walHdr>>
  BY <1>1, OlderSame DEF SnapInv
<1>7. HeadImage = db /\ CommittedImage = db
  <2>1. HeadImage = db
    BY <1>1 DEF Known, ImageInv, ImageOK, CacheOK
  <2> QED
    BY <1>2, <2>1 DEF CommittedImage, HeadImage
<1>8. HeadImage' = db /\ CommittedImage' = db
  <2>1. LogImage(db, wal, 0) = db
    BY <1>2, EmptyLog DEF Image
  <2> QED
    BY <1>2, <1>5, <1>6, <2>1 DEF CommittedImage, HeadImage
<1>9. \A a \in Conn : NoOldCopy(a)'
  BY <1>2, <1>5, EmptyNoOldCopy
<1>10. OwnFrames(c)'
  <2>1. OwnFrames(c) /\ ~(w.readLock > 0)
    BY <1>2 DEF SnapInv, SnapOK
  <2> QED
    BY <1>3, <1>4, <1>6, <2>1 DEF OwnFrames
<1>11. AllCopied(c)' /\ NewSalt(c)' /\ FoundOK(c)'
  BY <1>3, <1>4, <1>6, <1>8 DEF AllCopied, NewSalt, FoundOK, At
<1>12. SnapInv'
  BY <1>1, <1>2, <1>4, <1>6, <1>9, <1>10, <1>11, SameFiles, WriterKeeps
<1>13. \A g \in WrittenAgain' : RecoveredImage(db, wal, g) = db
  <2>1. 1 \in Frames /\ wal[1] # None => wal[1].salt # h.salt
    BY <1>1 DEF SnapInv, SnapOK, NewSalt, At
  <2>2. \A g : g.salt = h.salt => RecoveredImage(db, wal, g) = db
    BY <1>2, <2>1, NothingFound DEF Image
  <2> QED
    BY <1>5, <2>2 DEF WrittenAgain
<1>14. InDoubt' \subseteq InDoubt
  BY <1>6, <1>7, <1>8, <1>13, InDoubtImages
<1>15. Sees(c)' = Sees(c)
  <2>1. ReadView(c) = db /\ ReadView(c)' = db
    BY <1>2, <1>3, <1>4, <1>6 DEF ReadView
  <2>2. View(c)' = View(c)
    BY <1>3, <1>4, <2>1 DEF View
  <2> QED
    BY <1>3, <1>4, <2>2 DEF Sees, InTransaction
<1>16. Unmoved /\ Synced
  BY <1>1, <1>3, <1>4, <1>6, <1>12, <1>15, OthersSee DEF Unmoved, Synced, SnapInv
<1> QED
  BY <1>7, <1>8, <1>12, <1>14, <1>16, Silent

LEMMA NoOtherReader ==
  ASSUME WInv, NEW c \in Conn, ReadLocks \subseteq exclusive[c], NEW d \in Conn \ {c}
  PROVE  ~(pWal[d].readLock > 0)
<1> SUFFICES ASSUME pWal[d].readLock > 0 PROVE FALSE
  OBVIOUS
<1>1. READ_LOCK(pWal[d].readLock) \in shared[d] /\ pWal[d].readLock \in Slots
  BY ReaderFacts
<1>2. READ_LOCK(pWal[d].readLock) \in exclusive[c]
  BY <1>1, LockNumbers
<1> QED
  BY <1>1, <1>2 DEF WInv, Exclusion

\* The file of an empty log is truncated.
LEMMA TruncateWalImplements ==
  ASSUME Known, Known', SnapInv, ~PowerFailures, NEW c \in Conn, truncate_wal(c)
  PROVE  SnapInv' /\ SDB!Next
<1> DEFINE w == pWal[c]
           v == [w EXCEPT !.pc = "ck_return"]
<1>1. /\ w.pc = "restart_marks" /\ w.mode # "READ"
      /\ UNCHANGED <<db, dbOlder, aHdr, nBackfill, nTxn, fullSync>>
      /\ wal' = [k \in Frames |-> None] /\ walOlder' = [k \in Frames |-> {}]
      /\ walHdr' = None /\ walHdrOlder' = {} /\ walTruncated' = {}
      /\ pWal' = [pWal EXCEPT ![c] = v]
  BY DEF truncate_wal, RestartMarks, At, Goto, bounds
<1>2. /\ w \in WalObject /\ w.txn = 0 /\ w.readLock = -1 /\ aHdr[0] # None /\ aHdr[0].mxFrame = 0
      /\ WRITE \in exclusive[c] /\ ReadLocks \subseteq exclusive[c] /\ db \in Image
  BY <1>1, AtRestart DEF Known, RestartSteps, RestartOK, WInv, FilesTyped
<1>3. v.txn = 0 /\ v.readLock = -1 /\ v.pc = "ck_return"
  BY <1>2 DEF WalObject
<1> HIDE DEF v
<1>4. pWal'[c] = v /\ \A d \in Conn \ {c} : pWal'[d] = pWal[d]
  BY <1>1, ObjectTypes DEF Known, WInv
<1>5. NothingOlder' /\ LogOrdered' /\ PagesOld'
  <2>1. NothingOlder'
    BY <1>1 DEF SnapInv, NothingOlder
  <2>2. \A k \in Frames : wal'[k] = None
    BY <1>1
  <2>3. LogOrdered' /\ PagesOld'
    BY <1>1, <2>2 DEF SnapInv, LogOrdered, PagesOld
  <2> QED
    BY <2>1, <2>3
<1>6. \A a \in Conn : NoOldCopy(a)'
  BY <1>1, <1>2, EmptyNoOldCopy
<1>7. OwnFrames(c)' /\ AllCopied(c)' /\ NewSalt(c)' /\ FoundOK(c)'
  BY <1>3, <1>4 DEF OwnFrames, AllCopied, NewSalt, FoundOK, At
<1>8. SnapInv'
  BY <1>2, <1>4, <1>5, <1>6, <1>7, WriterKeeps
<1>9. Unmoved
  <2>1. ASSUME NEW d \in Conn \ {c}
        PROVE  Sees(d)' = Sees(d) /\ (pWal'[d].txn # 0 <=> pWal[d].txn # 0)
    BY <1>1, <1>2, <1>4, NoOtherReader, SeesStays DEF Known
  <2>2. Sees(c) = None /\ Sees(c)' = None
    BY <1>2, <1>3, <1>4 DEF Sees, InTransaction
  <2> QED
    BY <1>2, <1>3, <1>4, <2>1, <2>2 DEF Unmoved
<1>10. CommittedImage' = db /\ CommittedImage = db
  <2>1. LogImage(db, wal, 0) = db /\ LogImage(db, wal', 0) = db
    BY <1>2, EmptyLog DEF Image
  <2> QED
    BY <1>1, <1>2, <2>1 DEF CommittedImage
<1>11. InDoubt' = {}
  <2>1. \A g : RecoveredImage(db, wal', g) = db
    <3>1. 1 \in Frames => wal'[1] = None
      BY <1>1
    <3> QED
      BY <1>2, <3>1, NothingFound DEF Image
  <2> QED
    BY <1>1, <1>10, <2>1, InDoubtImages
<1>12. Synced
  BY <1>1, <1>8 DEF Synced, SnapInv
<1> QED
  BY <1>8, <1>9, <1>10, <1>11, <1>12, Silent

\* The header of the file is written again, or with a salt that no frame has.
LEMMA WriteHeaderImplements ==
  ASSUME Known, Known', SnapInv, ~PowerFailures, NEW c \in Conn, write_wal_header(c)
  PROVE  SnapInv' /\ SDB!Next
<1> DEFINE w == pWal[c]
           salt == IF w.nCkpt THEN w.hdr.salt ELSE w.txn
           g == [salt |-> salt, seq |-> w.nCkpt]
           h == [w.hdr EXCEPT !.salt = salt, !.cksum = 0]
           v == [w EXCEPT !.pc = "sync_header", !.hdr = h]
<1>1. /\ w.pc = "header" /\ walHdr' = g
      /\ UNCHANGED <<db, dbOlder, wal, walOlder, walTruncated, shm, nTxn, fullSync>>
      /\ walHdrOlder' = {}
      /\ pWal' = [pWal EXCEPT ![c].pc = "sync_header", ![c].hdr.salt = salt,
                              ![c].hdr.cksum = 0]
  BY DEF write_wal_header, At, bounds, Unsynced
<1>2. UNCHANGED <<aHdr, nBackfill, aPgno>>
  BY <1>1 DEF shm
<1>3. /\ w \in WalObject /\ w.txn # 0 /\ w.readLock > 0 /\ w.hdr \in Header /\ aHdr[0] # None
      /\ w.hdr.mxFrame = 0 /\ aHdr[0].mxFrame = 0 /\ WRITE \in exclusive[c] /\ db \in Image
      /\ w.txn \in Txn /\ w.readLock \in Int
  <2>1. WInv /\ w.pc \in FrameSteps \ {"publish"} /\ db \in Image
    BY <1>1 DEF Known, FrameSteps, WInv, FilesTyped
  <2>2. /\ w \in WalObject /\ w.txn # 0 /\ w.readLock > 0 /\ w.hdr \in Header /\ aHdr[0] # None
        /\ WRITE \in exclusive[c] /\ WriterOK(c) /\ aHdr[0].mxFrame \in Nat /\ w.txn \in Txn
        /\ w.readLock \in Int
    BY <2>1, AtFrame, ObjectTypes, Numbers DEF WInv
  <2>3. w.hdr.mxFrame = 0 /\ aHdr[0].mxFrame <= w.hdr.mxFrame
    BY <1>1, <2>1, <2>2, RoomForFrame DEF WriterOK
  <2> QED
    BY <2>1, <2>2, <2>3
<1>4. salt \in {aHdr[0].salt, w.txn} /\ salt \in Txn
  <2>1. w.hdr.salt \in {aHdr[0].salt, w.txn}
    BY <1>1, <1>3 DEF Known, ImageInv, ImageOK, SaltOK, RestartSteps
  <2> QED
    BY <1>3, <2>1 DEF Header
<1>5. g.salt = salt /\ g # None
  <2>1. g \in WalHdr
    BY <1>3, <1>4 DEF WalHdr, WalObject
  <2> QED
    BY <2>1, NoneAssumption
<1> HIDE DEF salt, g
<1>6. /\ v.txn = w.txn /\ v.readLock = w.readLock /\ v.pc = "sync_header" /\ v.hdr.mxFrame = 0
      /\ v.page = w.page /\ v.minFrame = w.minFrame /\ pWal' = [pWal EXCEPT ![c] = v]
  <2>1. h.mxFrame = 0
    BY <1>3 DEF Header
  <2>2. pWal' = [pWal EXCEPT ![c] = v]
    BY <1>1
  <2> HIDE DEF h
  <2> QED
    BY <1>3, <2>1, <2>2 DEF WalObject
<1> HIDE DEF v, h
<1>7. pWal'[c] = v /\ \A d \in Conn \ {c} : pWal'[d] = pWal[d]
  BY <1>6, ObjectTypes DEF Known, WInv
<1>8. LastWritten(c) = 0 /\ LastWritten(c)' = 0
  BY <1>1, <1>3, <1>6, <1>7 DEF LastWritten
<1>9. NothingOlder' /\ LogOrdered' /\ PagesOld'
  BY <1>1, <1>5 DEF SnapInv, NothingOlder, LogOrdered, PagesOld
<1>10. OwnFrames(c)'
  <2>1. OwnFrames(c) /\ w.pc # "publish" /\ v.pc # "publish" /\ aHdr[0].mxFrame + 1 .. 0 = {}
    BY <1>1, <1>3, <1>6 DEF SnapInv, SnapOK
  <2> QED
    BY <1>1, <1>2, <1>3, <1>6, <1>7, <1>8, <2>1 DEF OwnFrames
<1>11. AllCopied(c)' /\ NewSalt(c)' /\ FoundOK(c)'
  BY <1>3, <1>6, <1>7 DEF AllCopied, NewSalt, FoundOK, At
<1>12. \A a \in Conn : NoOldCopy(a)'
  BY <1>2, <1>3, EmptyNoOldCopy
<1>13. SnapInv'
  BY <1>3, <1>7, <1>9, <1>10, <1>11, <1>12, WriterKeeps
<1>14. Unmoved
  <2>1. ReadView(c)' = ReadView(c)
    <3>1. /\ pWal'[c].readLock = w.readLock /\ pWal'[c].minFrame = w.minFrame
          /\ pWal'[c].hdr.mxFrame = w.hdr.mxFrame
      BY <1>3, <1>6, <1>7
    <3>2. UNCHANGED <<db, wal, aPgno>>
      BY <1>1, <1>2
    <3> QED
      BY <3>1, <3>2 DEF ReadView
  <2>2. Sees(c)' = Sees(c)
    BY <1>6, <1>7, <2>1 DEF View, Sees, InTransaction
  <2> QED
    BY <1>1, <1>6, <1>7, <2>2, OthersSee DEF Unmoved
<1>15. CommittedImage = db /\ CommittedImage' = db /\ WrittenAgain' = WrittenAgain
  <2>1. LogImage(db, wal, 0) = db
    BY <1>3, EmptyLog DEF Image
  <2> QED
    BY <1>1, <1>2, <1>3, <2>1 DEF CommittedImage, WrittenAgain
<1>16. RecoveredImage(db, wal, g) = db \/ RecoveredImage(db, wal, g) \in InDoubt
  <2>1. CASE salt = aHdr[0].salt
    <3> DEFINE again == [salt |-> aHdr[0].salt, seq |-> TRUE]
    <3>1. again \in WalHdr
      BY <1>4, <2>1 DEF WalHdr
    <3>2. again # None /\ again.salt = g.salt
      BY <1>5, <2>1, <3>1, NoneAssumption
    <3>3. again \in WrittenAgain
      BY <1>3 DEF WrittenAgain
    <3> HIDE DEF again
    <3>4. CommittedFrames(wal, g) = CommittedFrames(wal, again)
      BY <1>5, <3>2, FoundBySalt
    <3>5. RecoveredImage(db, wal, g) = RecoveredImage(db, wal, again)
      BY <3>4 DEF RecoveredImage
    <3> QED
      BY <1>15, <3>3, <3>5, InDoubtImages
  <2>2. CASE salt = w.txn
    <3>1. \A k \in Frames : wal[k] # None => wal[k].salt # g.salt
      BY <1>3, <1>5, <1>8, <2>2, NewTxnSalt
    <3> QED
      BY <1>3, <3>1, NothingFound DEF Image
  <2> QED
    BY <1>4, <2>1, <2>2
<1>17. InDoubt' \subseteq InDoubt
  <2>1. ASSUME NEW x \in InDoubt' PROVE x \in InDoubt
    <3>1. PICK hd \in {g} \cup WrittenAgain : x = RecoveredImage(db, wal, hd) /\ x # db
      BY <1>1, <1>15, InDoubtImages
    <3>2. CASE hd = g
      BY <1>16, <3>1, <3>2
    <3>3. CASE hd \in WrittenAgain
      BY <1>15, <3>1, <3>3, InDoubtImages
    <3> QED
      BY <3>1, <3>2, <3>3
  <2> QED
    BY <2>1
<1>18. Synced
  BY <1>1, <1>13 DEF Synced, SnapInv
<1> QED
  BY <1>13, <1>14, <1>15, <1>17, <1>18, Silent

\* The committed image is without what the open transaction has written.
LEMMA HeadWithout ==
  ASSUME Known, SnapInv, NEW c \in Conn, pWal[c].txn # 0, aHdr[0] # None, NEW p \in Page
  PROVE  HeadImage[p] # pWal[c].txn
<1> DEFINE n == aHdr[0].mxFrame
<1>1. n \in Nat /\ Written(wal, n) /\ n \in 0 .. MaxFrame /\ MaxFrame \in Nat
  BY LogWritten, Numbers DEF Known
<1>2. OwnFrames(c)
  BY DEF SnapInv, SnapOK
<1>3. CASE \E k \in 1 .. n : wal[k].pgno = p
  <2>1. PICK k \in 1 .. n : wal[k].pgno = p
    BY <1>3
  <2>2. PICK j \in 1 .. n : wal[j].pgno = p /\ NewestIn(wal, j, n)
    BY <1>1, <2>1, NewestFrame
  <2>3. HeadImage[p] = wal[j].by
    BY <1>1, <2>2, ImageAt DEF HeadImage
  <2>4. wal[j] # None /\ j \in Frames /\ ~(n < j)
    BY <1>1 DEF Written, Frames
  <2> QED
    BY <1>2, <2>3, <2>4 DEF OwnFrames
<1>4. CASE \A k \in 1 .. n : wal[k].pgno # p
  <2>1. HeadImage[p] = db[p]
    BY <1>4, ImageBelow DEF HeadImage
  <2> QED
    BY <1>2, <2>1 DEF OwnFrames
<1> QED
  BY <1>3, <1>4

\* Nothing goes on behind the last frame that an open transaction has written.
LEMMA EndsThere ==
  ASSUME Known, SnapInv, NEW c \in Conn, pWal[c].txn # 0, NEW k \in Frames, wal[k] # None,
         wal[k].after = pWal[c].txn
  PROVE  k <= LastWritten(c)
<1>1. wal[k] \in MayHold(k) /\ wal[k] \in Frame /\ nTxn \in Nat /\ pWal[c].txn = nTxn
  BY DEF Known, WInv, FilesTyped, LogTyped, SharedTyped, Txn, ConnOK, Control
<1>2. wal[k].by <= nTxn /\ wal[k].by \in Nat /\ wal[k].after <= wal[k].by
  BY <1>1 DEF MayHold, Frame, Txn, SnapInv, LogOrdered
<1>3. wal[k].by = pWal[c].txn
  BY <1>1, <1>2
<1> QED
  BY <1>3 DEF SnapInv, SnapOK, OwnFrames

\* What is in doubt is published.
LEMMA PublishCommitImplements ==
  ASSUME Known, Known', SnapInv, NEW c \in Conn, publish_commit(c)
  PROVE  SnapInv' /\ SDB!Next
<1> DEFINE w == pWal[c]
           h == w.hdr
           n == h.mxFrame
           v == [w EXCEPT !.pc = "reading", !.txn = 0, !.page = None, !.commit = FALSE]
<1>1. /\ w.pc = "publish" /\ UNCHANGED <<files, nBackfill, aPgno, nTxn, fullSync>>
      /\ aHdr' = [aHdr EXCEPT ![0] = h]
      /\ pWal' = [pWal EXCEPT ![c].pc = "reading", ![c].txn = 0, ![c].page = None,
                              ![c].commit = FALSE]
  BY DEF publish_commit, At, bounds
<1>2. /\ w \in WalObject /\ w.txn # 0 /\ w.readLock \in Int /\ w.readLock > 0 /\ h \in Header
      /\ h # None /\ n \in 0 .. MaxFrame /\ n \in Nat /\ aHdr[0] # None
      /\ aHdr[0].mxFrame \in Nat /\ w.page # None /\ w.page \in Page /\ WRITE \in exclusive[c]
      /\ WriterOK(c) /\ SharedTyped /\ MaxFrame \in Nat
  <2>1. WInv /\ w.pc \in FrameSteps
    BY <1>1 DEF Known, FrameSteps
  <2> QED
    BY <2>1, AtFrame, ObjectTypes, Numbers DEF WInv
<1>3. /\ v.txn = 0 /\ v.readLock = w.readLock /\ v.pc = "reading" /\ v.hdr = h
      /\ v.page = None /\ v.minFrame = w.minFrame /\ pWal' = [pWal EXCEPT ![c] = v]
  BY <1>1, <1>2 DEF WalObject
<1> HIDE DEF v
<1>4. pWal'[c] = v /\ \A d \in Conn \ {c} : pWal'[d] = pWal[d]
  BY <1>2, <1>3, ObjectTypes
<1>5. aHdr'[0] = h
  BY <1>1, <1>2 DEF SharedTyped
<1>6. NothingOlder' /\ UNCHANGED <<db, wal, walHdr>>
  BY <1>1, OlderSame DEF SnapInv
<1>7. OwnFrames(c) /\ aHdr[0].mxFrame < n /\ wal[n].pgno = w.page /\ CommitChain(h)
  BY <1>1, <1>2 DEF SnapInv, SnapOK, OwnFrames, WriterOK, RestartSteps
<1>8. ASSUME NEW a \in Conn PROVE ~WithoutLog(a)'
  <2>1. CASE a = c
    BY <1>2, <1>3, <1>4, <2>1 DEF WithoutLog
  <2>2. CASE a # c
    <3> SUFFICES ASSUME pWal[a].readLock = 0, pWal[a].hdr.salt = h.salt, pWal[a].hdr.mxFrame = n
                 PROVE  FALSE
      BY <1>2, <1>4, <1>5, <2>2, OneWriter DEF WithoutLog, Known
    <3>1. pWal[a].txn = 0 /\ pWal[a].pc \notin RestartSteps \cup FrameSteps /\ Control(a)
      BY <1>2, <2>2, OneWriter DEF Known, WInv, ConnOK
    <3>2. pWal[a].pc = "reading"
      BY <3>1 DEF Control
    <3>3. Stands(pWal[a].hdr, db)
      BY <3>2 DEF Known, ImageInv, ImageOK, CacheOK
    <3>4. h.salt \in {aHdr[0].salt, w.txn}
      BY <1>1, <1>2 DEF Known, ImageInv, ImageOK, SaltOK, RestartSteps
    <3>5. CASE h.salt = aHdr[0].salt
      <4>1. n <= aHdr[0].mxFrame
        BY <3>3, <3>5 DEF Stands, FitsHead
      <4> QED
        BY <1>2, <1>7, <4>1
    <3>6. CASE h.salt # aHdr[0].salt
      BY <1>2, <3>3, <3>4, <3>6 DEF Stands, OldSalt
    <3> QED
      BY <3>5, <3>6
  <2> QED
    BY <2>1, <2>2
<1>9. \A a \in Conn : NoOldCopy(a)'
  BY <1>8 DEF NoOldCopy
<1>10. OwnFrames(c)' /\ AllCopied(c)' /\ NewSalt(c)' /\ FoundOK(c)'
  BY <1>3, <1>4 DEF OwnFrames, AllCopied, NewSalt, FoundOK, At
<1>11. SnapInv'
  BY <1>1, <1>2, <1>4, <1>6, <1>9, <1>10, SameFiles, WriterKeeps
<1> DEFINE image == LogImage(db, wal, n)
<1>12. ReadView(c) = image /\ Written(wal, n) /\ n \in 1 .. n
  BY <1>2, <1>7, LogView
<1>13. Sees(c) = image
  <2>1. wal[n].by = w.txn
    BY <1>1, <1>2, <1>7 DEF OwnFrames
  <2>2. NewestIn(wal, n, n)
    BY <1>2 DEF NewestIn
  <2>3. image[w.page] = w.txn
    BY <1>2, <1>7, <1>12, <2>1, <2>2, ImageAt
  <2>4. PICK T : image \in [Page -> T]
    BY ImageOnPages
  <2>5. View(c) = image
    BY <1>2, <1>12, <2>3, <2>4 DEF View
  <2> QED
    BY <1>2, <2>5 DEF Sees, InTransaction
<1>14. Sees(c)' = image
  <2>1. ReadView(c)' = image
    BY <1>2, <1>3, <1>4, <1>6, NextLogView
  <2> QED
    BY <1>2, <1>3, <1>4, <2>1 DEF Sees, InTransaction, View
<1>15. CommittedImage' = image
  BY <1>2, <1>5, <1>6 DEF CommittedImage
<1>16. CommittedFrames(wal, walHdr) = n
  <2>1. walHdr # None /\ walHdr.salt = h.salt /\ wal[n].commit
    BY <1>2, <1>7 DEF CommitChain, Chain
  <2>2. \A k \in 1 .. n : ValidFrame(wal, walHdr, k)
    BY <1>7, <2>1 DEF CommitChain, Chain, ValidFrame
  <2>3. n = MaxFrame \/ ~ValidFrame(wal, walHdr, n + 1)
    <3> SUFFICES ASSUME n # MaxFrame, ValidFrame(wal, walHdr, n + 1) PROVE FALSE
      OBVIOUS
    <3>1. n + 1 \in Frames /\ n + 1 # 1 /\ n + 1 - 1 = n
      BY <1>2, <1>7 DEF Frames
    <3>2. wal[n + 1] # None /\ wal[n + 1].after = w.txn
      BY <1>1, <1>2, <1>7, <3>1 DEF ValidFrame, OwnFrames
    <3>3. n + 1 <= LastWritten(c)
      BY <1>2, <3>1, <3>2, EndsThere
    <3>4. LastWritten(c) = n
      BY <1>1 DEF LastWritten
    <3> QED
      BY <1>2, <3>3, <3>4
  <2>4. n \in 0 .. n /\ n + 1 .. n = {}
    BY <1>2
  <2> QED
    BY <1>2, <2>1, <2>2, <2>3, <2>4, FoundAt
<1>17. RecoveredImage(db, wal, walHdr) = image
  BY <1>16 DEF RecoveredImage
<1>18. image # CommittedImage
  <2>1. CommittedImage = HeadImage
    BY <1>2 DEF CommittedImage, HeadImage
  <2>2. HeadImage[w.page] # w.txn
    BY <1>2, HeadWithout
  <2>3. NewestIn(wal, n, n) /\ wal[n].by = w.txn
    BY <1>1, <1>2, <1>7 DEF NewestIn, OwnFrames
  <2>4. image[w.page] = w.txn
    BY <1>2, <1>7, <1>12, <2>3, ImageAt
  <2> QED
    BY <2>1, <2>2, <2>4
<1> HIDE DEF image
<1>19. image \in InDoubt
  BY <1>17, <1>18, InDoubtImages
<1>20. InDoubt' = {}
  <2>1. WrittenAgain' = {}
    BY <1>2, <1>5, <1>7 DEF WrittenAgain
  <2> QED
    BY <1>6, <1>15, <1>17, <2>1, InDoubtImages
<1>21. \A d \in Conn \ {c} : pWal[d].txn = 0
  BY <1>2, OneWriter DEF Known
<1>22. Moves(c, Sees(c), FALSE) /\ Synced
  BY <1>1, <1>3, <1>4, <1>6, <1>11, <1>13, <1>14, OthersSee DEF Moves, Synced, SnapInv
<1> QED
  BY <1>2, <1>11, <1>13, <1>15, <1>19, <1>20, <1>21, <1>22, Commits

-----------------------------------------------------------------------------
(* Steps that write a frame *)

FrameNow(c) ==
  /\ pWal[c].pc = "frame" /\ WriteNextFrame(c) /\ aHdr'[0] = aHdr[0]
  /\ UNCHANGED <<nBackfill, nTxn, fullSync>> /\ \A d \in Conn \ {c} : pWal'[d] = pWal[d]

LEMMA FrameFacts ==
  ASSUME Known, SnapInv, ~PowerFailures, NEW c \in Conn, FrameNow(c)
  PROVE  LET w == pWal[c]
             n == w.hdr.mxFrame
         IN /\ w \in WalObject /\ w.txn # 0 /\ w.txn = nTxn /\ nTxn \in Nat
            /\ w.readLock \in Int /\ w.readLock > 0
            /\ w.hdr \in Header /\ n \in Nat /\ aHdr[0] # None /\ aHdr[0].mxFrame \in Nat
            /\ aHdr[0].mxFrame <= n /\ NextFrame(c) = n + 1 /\ n + 1 \in Frames
            /\ MaxFrame \in Nat /\ w.page \in Page /\ w.page # None
            /\ WRITE \in exclusive[c] /\ Chain(w.hdr) /\ HeadWritten(w.hdr) /\ db \in Image
            /\ wal'[n + 1] = [pgno |-> w.page, by |-> w.txn, commit |-> w.commit,
                              salt |-> w.hdr.salt, after |-> w.hdr.cksum]
            /\ wal'[n + 1] # None /\ \A j \in Frames : j # n + 1 => wal'[j] = wal[j]
            /\ UNCHANGED <<db, walHdr>> /\ NothingOlder'
<1> DEFINE w == pWal[c]
           n == w.hdr.mxFrame
<1>1. WInv /\ w.pc \in FrameSteps \ {"publish"} /\ w.pc = "frame"
  BY DEF FrameNow, Known, FrameSteps
<1>2. /\ w \in WalObject /\ w.txn # 0 /\ w.txn = nTxn /\ nTxn \in Nat
      /\ w.readLock \in Int /\ w.readLock > 0
      /\ w.hdr \in Header /\ n \in Nat /\ aHdr[0] # None /\ aHdr[0].mxFrame \in Nat
      /\ MaxFrame \in Nat /\ w.page \in Page /\ w.page # None
      /\ WRITE \in exclusive[c] /\ WriterOK(c) /\ db \in Image
  BY <1>1, AtFrame, ObjectTypes, Numbers DEF WInv, FilesTyped
<1>3. aHdr[0].mxFrame <= n /\ NextFrame(c) = n + 1 /\ n + 1 \in Frames
  BY <1>1, RoomForFrame DEF NextFrame
<1>4. Chain(w.hdr) /\ HeadWritten(w.hdr)
  BY <1>1, <1>2 DEF WriterOK, RestartSteps
<1>5. /\ wal'[n + 1] = [pgno |-> w.page, by |-> w.txn, commit |-> w.commit,
                        salt |-> w.hdr.salt, after |-> w.hdr.cksum]
      /\ wal'[n + 1] # None
  BY <1>1, <1>3, FrameWritten, FrameAppends DEF FrameNow
<1>6. /\ UNCHANGED <<db, walHdr, dbOlder, walHdrOlder, walTruncated>>
      /\ walOlder' = [walOlder EXCEPT ![n + 1] = {}]
      /\ \A j \in Frames : j # n + 1 => wal'[j] = wal[j]
  <2>1. wal \in [Frames -> Frame \cup {None}]
    BY <1>1 DEF WInv, FilesTyped, LogTyped
  <2> QED
    BY <1>3, <2>1 DEF FrameNow, WriteNextFrame, WriteFrame, Unsynced
<1>7. NothingOlder'
  BY <1>6 DEF SnapInv, NothingOlder
<1> QED
  BY <1>2, <1>3, <1>4, <1>5, <1>6, <1>7

\* The order of the log, and what others see.
LEMMA FrameKeeps ==
  ASSUME Known, Known', SnapInv, ~PowerFailures, NEW c \in Conn, FrameNow(c)
  PROVE  /\ LogOrdered' /\ PagesOld'
         /\ \A d \in Conn \ {c} : Sees(d)' = Sees(d) /\ (pWal'[d].txn # 0 <=> pWal[d].txn # 0)
         /\ CommittedImage = HeadImage /\ CommittedImage' = HeadImage /\ HeadImage' = HeadImage
<1> DEFINE w == pWal[c]
           n == w.hdr.mxFrame
           m == aHdr[0].mxFrame
<1>1. /\ w \in WalObject /\ w.txn # 0 /\ w.txn = nTxn /\ nTxn \in Nat
      /\ w.hdr \in Header /\ n \in Nat /\ aHdr[0] # None /\ m \in Nat
      /\ m <= n /\ n + 1 \in Frames /\ MaxFrame \in Nat
      /\ WRITE \in exclusive[c] /\ Chain(w.hdr) /\ HeadWritten(w.hdr)
      /\ wal'[n + 1] = [pgno |-> w.page, by |-> w.txn, commit |-> w.commit,
                        salt |-> w.hdr.salt, after |-> w.hdr.cksum]
      /\ \A j \in Frames : j # n + 1 => wal'[j] = wal[j]
      /\ UNCHANGED <<db, walHdr>> /\ nTxn' = nTxn /\ aHdr'[0] = aHdr[0]
      /\ \A d \in Conn \ {c} : pWal'[d] = pWal[d]
  BY FrameFacts DEF FrameNow
<1>2. walHdr # None /\ w.hdr.salt <= w.txn
  <2>1. walHdr # None
    BY <1>1 DEF HeadWritten
  <2>2. w.hdr # None /\ SaltBounded(w.hdr)
    BY <1>1, NoneAssumption DEF Known, ImageInv, ImageOK, SaltOK
  <2> QED
    BY <1>1, <2>1, <2>2 DEF SaltBounded
<1>3. w.hdr.cksum <= w.txn
  <2>1. CASE n = 0
    BY <1>1, <2>1 DEF HeadWritten
  <2>2. CASE n # 0
    <3>1. wal[n].by = w.hdr.cksum /\ wal[n] # None /\ n \in Frames
      BY <1>1, <2>2 DEF Chain, ValidFrame, Frames
    <3>2. wal[n] \in MayHold(n)
      BY <3>1 DEF Known, WInv, FilesTyped, LogTyped
    <3> QED
      BY <1>1, <3>1, <3>2 DEF MayHold
  <2> QED
    BY <2>1, <2>2
<1>4. LogOrdered'
  <2>1. ASSUME NEW k \in Frames, wal'[k] # None
        PROVE  walHdr' # None /\ wal'[k].salt <= wal'[k].by /\ wal'[k].after <= wal'[k].by
    BY <1>1, <1>2, <1>3, <2>1 DEF SnapInv, LogOrdered
  <2> QED
    BY <2>1 DEF LogOrdered
<1>5. PagesOld'
  BY <1>1 DEF SnapInv, PagesOld
<1>6. \A j \in 1 .. n : wal'[j] = wal[j]
  BY <1>1 DEF Frames
<1>7. ASSUME NEW d \in Conn \ {c}
      PROVE  Sees(d)' = Sees(d) /\ (pWal'[d].txn # 0 <=> pWal[d].txn # 0)
  <2>1. pWal[d].readLock > 0 => \A k \in 1 .. pWal[d].hdr.mxFrame : wal'[k] = wal[k]
    <3> SUFFICES ASSUME pWal[d].readLock > 0, NEW k \in 1 .. pWal[d].hdr.mxFrame
                 PROVE  wal'[k] = wal[k]
      OBVIOUS
    <3>1. pWal[d].txn = 0
      BY <1>1, OneWriter DEF Known
    <3>2. pWal[d].hdr.mxFrame <= m /\ pWal[d].hdr.mxFrame \in Nat
      BY <3>1, LogView
    <3>3. k \in 1 .. n
      BY <1>1, <3>2
    <3> QED
      BY <1>6, <3>3
  <2> QED
    BY <1>1, <2>1, SeesStays
<1>8. CommittedImage = HeadImage /\ CommittedImage' = HeadImage' /\ HeadImage' = HeadImage
  <2>1. Written(wal, m) /\ \A j \in 1 .. m : j \in 1 .. n
    BY <1>1, LogWritten DEF Known
  <2>2. LogImage(db', wal', m) = LogImage(db, wal, m)
    BY <1>1, <1>6, <2>1, SameImage
  <2> QED
    BY <1>1, <2>2 DEF CommittedImage, HeadImage
<1> QED
  BY <1>4, <1>5, <1>7, <1>8

\* The image with the new frame, and what a recovery finds.
LEMMA FrameImages ==
  ASSUME Known, Known', SnapInv, ~PowerFailures, NEW c \in Conn, FrameNow(c)
  PROVE  LET w == pWal[c]
             n == w.hdr.mxFrame
         IN /\ LogImage(db, wal', n) = LogImage(db, wal, n)
            /\ LogImage(db, wal', n + 1) = Sees(c)
            /\ View(c) = [LogImage(db, wal, n) EXCEPT ![w.page] = w.txn]
            /\ Sees(c) = View(c) /\ Sees(c) # HeadImage
            /\ \A m \in 0 .. n + 1 :
                 (m = 0 \/ wal'[m].commit) /\ (\A k \in m + 1 .. n + 1 : ~wal'[k].commit)
                   => CommittedFrames(wal', walHdr) = m
            /\ \A g \in WrittenAgain' :
                 RecoveredImage(db, wal', g) \in {RecoveredImage(db, wal', walHdr), HeadImage}
<1> DEFINE w == pWal[c]
           n == w.hdr.mxFrame
<1>1. /\ w \in WalObject /\ w.txn # 0 /\ w.readLock > 0 /\ w.hdr \in Header /\ n \in Nat
      /\ aHdr[0] # None /\ n + 1 \in Frames /\ MaxFrame \in Nat /\ w.page \in Page
      /\ w.page # None /\ Chain(w.hdr) /\ HeadWritten(w.hdr) /\ db \in Image
      /\ wal'[n + 1] = [pgno |-> w.page, by |-> w.txn, commit |-> w.commit,
                        salt |-> w.hdr.salt, after |-> w.hdr.cksum]
      /\ wal'[n + 1] # None /\ \A j \in Frames : j # n + 1 => wal'[j] = wal[j]
      /\ UNCHANGED <<db, walHdr>> /\ aHdr'[0] = aHdr[0] /\ w.pc = "frame"
  BY FrameFacts DEF FrameNow
<1>2. \A j \in 1 .. n : wal'[j] = wal[j]
  BY <1>1 DEF Frames
<1>3. ReadView(c) = LogImage(db, wal, n) /\ Written(wal, n)
  BY <1>1, LogView
<1>4. LogImage(db, wal', n) = LogImage(db, wal, n)
  BY <1>1, <1>2, <1>3, SameImage
<1>5. Written(wal', n + 1)
  <2>1. ASSUME NEW k \in 1 .. n + 1 PROVE wal'[k] # None /\ wal'[k].pgno \in Page
    <3>1. CASE k = n + 1
      BY <1>1, <3>1
    <3>2. CASE k # n + 1
      <4>1. k \in 1 .. n
        BY <1>1, <3>2
      <4> QED
        BY <1>2, <1>3, <4>1 DEF Written
    <3> QED
      BY <3>1, <3>2
  <2> QED
    BY <2>1 DEF Written
<1>6. LogImage(db, wal', n + 1) = [LogImage(db, wal, n) EXCEPT ![w.page] = w.txn]
  <2>1. LogImage(db, wal', n + 1) =
          [LogImage(db, wal', n) EXCEPT ![wal'[n + 1].pgno] = wal'[n + 1].by]
    BY <1>1, <1>5, LogAppend
  <2> QED
    BY <1>1, <1>4, <2>1
<1>7. View(c) = [LogImage(db, wal, n) EXCEPT ![w.page] = w.txn] /\ Sees(c) = View(c)
  BY <1>1, <1>3 DEF View, Sees, InTransaction
<1>8. Sees(c) # HeadImage
  <2>1. HeadImage[w.page] # w.txn
    BY <1>1, HeadWithout
  <2>2. PICK T : LogImage(db, wal, n) \in [Page -> T]
    BY ImageOnPages
  <2> QED
    BY <1>1, <1>7, <2>1, <2>2
<1>9. /\ walHdr # None /\ walHdr.salt = w.hdr.salt
      /\ \A k \in 1 .. n + 1 : ValidFrame(wal', walHdr, k)
  <2>1. walHdr # None /\ walHdr.salt = w.hdr.salt
    BY <1>1 DEF HeadWritten
  <2>2. ASSUME NEW k \in 1 .. n PROVE ValidFrame(wal', walHdr, k)
    <3>1. ValidFrame(wal, walHdr, k)
      BY <1>1, <2>1 DEF Chain, ValidFrame
    <3>2. wal'[k] = wal[k] /\ (k # 1 => k - 1 \in 1 .. n)
      BY <1>1, <1>2
    <3> QED
      BY <1>2, <3>1, <3>2 DEF ValidFrame
  <2>3. ValidFrame(wal', walHdr, n + 1)
    <3>1. CASE n = 0
      BY <1>1, <2>1, <3>1 DEF ValidFrame, HeadWritten
    <3>2. CASE n # 0
      <4>1. n \in 1 .. n /\ n + 1 - 1 = n /\ n + 1 # 1 /\ wal[n].by = w.hdr.cksum /\ n > 0
        BY <1>1, <3>2 DEF Chain
      <4> QED
        BY <1>1, <1>2, <1>3, <2>1, <4>1 DEF ValidFrame, Written
    <3> QED
      BY <3>1, <3>2
  <2>4. ASSUME NEW k \in 1 .. n + 1 PROVE k \in 1 .. n \/ k = n + 1
    BY <1>1
  <2> QED
    BY <2>1, <2>2, <2>3, <2>4
<1>10. n + 1 = MaxFrame \/ ~ValidFrame(wal', walHdr, n + 1 + 1)
  <2> SUFFICES ASSUME n + 1 # MaxFrame, ValidFrame(wal', walHdr, n + 1 + 1) PROVE FALSE
    OBVIOUS
  <2>1. /\ n + 1 + 1 \in Frames /\ n + 1 + 1 # 1 /\ n + 1 + 1 # n + 1
        /\ n + 1 + 1 - 1 = n + 1
    BY <1>1 DEF Frames
  <2>2. wal[n + 1 + 1] # None /\ wal[n + 1 + 1].after = w.txn
    BY <1>1, <2>1 DEF ValidFrame
  <2>3. n + 1 + 1 <= LastWritten(c)
    BY <1>1, <2>1, <2>2, EndsThere
  <2>4. LastWritten(c) = n
    BY <1>1 DEF LastWritten
  <2> QED
    BY <1>1, <2>3, <2>4
<1>11. ASSUME NEW m \in 0 .. n + 1, m = 0 \/ wal'[m].commit,
              \A k \in m + 1 .. n + 1 : ~wal'[k].commit
       PROVE  CommittedFrames(wal', walHdr) = m
  <2> DEFINE r == n + 1
  <2>1. r \in 0 .. MaxFrame
    BY <1>1 DEF Frames
  <2>2. /\ m \in 0 .. r /\ \A k \in 1 .. r : ValidFrame(wal', walHdr, k)
        /\ r = MaxFrame \/ ~ValidFrame(wal', walHdr, r + 1)
        /\ \A k \in m + 1 .. r : ~wal'[k].commit
    BY <1>9, <1>10, <1>11
  <2> HIDE DEF r
  <2> QED
    BY <1>9, <1>11, <2>1, <2>2, FoundAt
<1>12. ASSUME NEW g \in WrittenAgain'
       PROVE  RecoveredImage(db, wal', g) \in {RecoveredImage(db, wal', walHdr), HeadImage}
  <2>1. aHdr[0].mxFrame = 0 /\ g = [salt |-> aHdr[0].salt, seq |-> TRUE]
    BY <1>1, <1>12 DEF WrittenAgain
  <2>2. g # None
    <3>1. aHdr[0].salt \in Txn
      BY <1>1 DEF Known, WInv, SharedTyped, Header
    <3>2. g \in WalHdr
      BY <2>1, <3>1 DEF WalHdr
    <3> QED
      BY <3>2, NoneAssumption
  <2>3. CASE g.salt = walHdr.salt
    <3>1. CommittedFrames(wal', g) = CommittedFrames(wal', walHdr)
      BY <1>9, <2>2, <2>3, FoundBySalt
    <3> QED
      BY <3>1 DEF RecoveredImage
  <2>4. CASE g.salt # walHdr.salt
    <3>1. 1 \in 1 .. n + 1
      BY <1>1
    <3>2. wal'[1].salt = walHdr.salt
      BY <1>9, <3>1 DEF ValidFrame
    <3>3. RecoveredImage(db, wal', g) = db
      BY <1>1, <2>4, <3>2, NothingFound DEF Image
    <3>4. HeadImage = db
      BY <1>1, <2>1, EmptyLog DEF HeadImage, Image
    <3> QED
      BY <3>3, <3>4
  <2> QED
    BY <2>3, <2>4
<1> DEFINE Ends == \A m \in 0 .. n + 1 :
                 (m = 0 \/ wal'[m].commit) /\ (\A k \in m + 1 .. n + 1 : ~wal'[k].commit)
                   => CommittedFrames(wal', walHdr) = m
<1>13. Ends
  BY <1>11
<1> HIDE DEF Ends
<1>14. LogImage(db, wal', n + 1) = Sees(c)
  BY <1>6, <1>7
<1>15. \A g \in WrittenAgain' :
         RecoveredImage(db, wal', g) \in {RecoveredImage(db, wal', walHdr), HeadImage}
  BY <1>12
<1> QED
  BY <1>4, <1>7, <1>8, <1>13, <1>14, <1>15 DEF Ends


\* A recovery ends where it did: the frames behind the published ones are of the open
\* transaction, and none of them is a commit.
LEMMA SpillFrameImplements ==
  ASSUME Known, Known', SnapInv, ~PowerFailures, NEW c \in Conn, spill_frame(c)
  PROVE  SnapInv' /\ SDB!Next
<1> DEFINE w == pWal[c]
           n == w.hdr.mxFrame
           m == aHdr[0].mxFrame
           h == [w.hdr EXCEPT !.mxFrame = NextFrame(c), !.cksum = w.txn]
           v == [w EXCEPT !.pc = "reading", !.page = None, !.hdr = h]
<1>1. /\ w.pc = "frame" /\ ~w.commit /\ WriteNextFrame(c)
      /\ UNCHANGED <<aHdr, nBackfill, nTxn, fullSync>>
      /\ pWal' = [pWal EXCEPT ![c].pc = "reading", ![c].page = None,
                              ![c].hdr.mxFrame = NextFrame(c), ![c].hdr.cksum = w.txn]
  BY DEF spill_frame, At, bounds
<1>2. w \in WalObject /\ w.hdr \in Header
  <2>1. WInv /\ w.pc \in FrameSteps \ {"publish"}
    BY <1>1 DEF Known, FrameSteps
  <2> QED
    BY <2>1, AtFrame, ObjectTypes DEF WInv
<1>3. /\ v.pc = "reading" /\ v.page = None /\ v.txn = w.txn /\ v.readLock = w.readLock
      /\ v.hdr.mxFrame = NextFrame(c) /\ pWal' = [pWal EXCEPT ![c] = v]
  <2>1. h.mxFrame = NextFrame(c)
    BY <1>2 DEF Header
  <2>2. pWal' = [pWal EXCEPT ![c].pc = "reading", ![c].page = None, ![c].hdr = h]
    BY <1>1, <1>2
  <2> HIDE DEF h
  <2> QED
    BY <1>2, <2>1, <2>2 DEF WalObject
<1> HIDE DEF v
<1>4. pWal'[c] = v /\ \A d \in Conn \ {c} : pWal'[d] = pWal[d]
  BY <1>3, ObjectTypes DEF Known, WInv
<1>5. FrameNow(c)
  BY <1>1, <1>4 DEF FrameNow
<1>6. /\ w.txn # 0 /\ w.readLock \in Int /\ w.readLock > 0 /\ n \in Nat /\ m \in Nat /\ m <= n
      /\ NextFrame(c) = n + 1 /\ n + 1 \in Frames /\ WRITE \in exclusive[c] /\ aHdr[0] # None
      /\ wal'[n + 1].by = w.txn /\ ~wal'[n + 1].commit
      /\ \A j \in Frames : j # n + 1 => wal'[j] = wal[j]
      /\ UNCHANGED <<db, walHdr>> /\ NothingOlder' /\ MaxFrame \in Nat
  <2> DEFINE frame == [pgno |-> w.page, by |-> w.txn, commit |-> w.commit,
                       salt |-> w.hdr.salt, after |-> w.hdr.cksum]
  <2>1. /\ w.txn # 0 /\ w.readLock \in Int /\ w.readLock > 0 /\ n \in Nat /\ m \in Nat /\ m <= n
        /\ NextFrame(c) = n + 1 /\ n + 1 \in Frames /\ WRITE \in exclusive[c] /\ aHdr[0] # None
        /\ wal'[n + 1] = frame /\ \A j \in Frames : j # n + 1 => wal'[j] = wal[j]
        /\ UNCHANGED <<db, walHdr>> /\ NothingOlder' /\ MaxFrame \in Nat
    BY <1>5, FrameFacts
  <2>2. frame.by = w.txn /\ ~frame.commit
    BY <1>1
  <2> HIDE DEF frame
  <2> QED
    BY <2>1, <2>2
<1>7. OwnFrames(c)
  BY DEF SnapInv, SnapOK
<1>8. ASSUME NEW k \in m + 1 .. n + 1 PROVE wal'[k].by = w.txn /\ ~wal'[k].commit
  <2>1. CASE k = n + 1
    BY <1>6, <2>1
  <2>2. CASE k # n + 1
    <3>1. k \in m + 1 .. n /\ k \in Frames
      BY <1>6, <2>2 DEF Frames
    <3> QED
      BY <1>1, <1>6, <1>7, <2>2, <3>1 DEF OwnFrames
  <2> QED
    BY <2>1, <2>2
<1>9. OwnFrames(c)'
  <2>1. \A p \in Page : db'[p] # w.txn
    BY <1>6, <1>7 DEF OwnFrames
  <2>2. ASSUME NEW k \in Frames, wal'[k] # None, wal'[k].by = w.txn PROVE m < k /\ k <= n + 1
    <3>1. CASE k = n + 1
      BY <1>6, <3>1
    <3>2. CASE k # n + 1
      <4>1. m < k /\ k <= LastWritten(c) /\ LastWritten(c) = n
        BY <1>1, <1>6, <1>7, <2>2, <3>2 DEF OwnFrames, LastWritten
      <4> QED
        BY <1>6, <4>1 DEF Frames
    <3> QED
      BY <3>1, <3>2
  <2>3. LastWritten(c)' = n + 1 /\ v.hdr.mxFrame = n + 1 /\ aHdr'[0].mxFrame = m
    BY <1>1, <1>3, <1>4, <1>6 DEF LastWritten
  <2> QED
    BY <1>3, <1>4, <1>6, <1>8, <2>1, <2>2, <2>3 DEF OwnFrames
<1>10. \A a \in Conn : NoOldCopy(a)'
  <2>1. ~WithoutLog(c)' /\ ~At(c, "ck_start")' /\ ~Copies(c)'
    BY <1>3, <1>4, <1>6 DEF WithoutLog, At, Copies
  <2> QED
    BY <1>1, <1>4, <2>1, OldCopies
<1>11. AllCopied(c)' /\ NewSalt(c)' /\ FoundOK(c)'
  BY <1>3, <1>4, <1>6 DEF AllCopied, NewSalt, FoundOK, At
<1>12. SnapInv'
  BY <1>4, <1>5, <1>6, <1>9, <1>10, <1>11, FrameKeeps, WriterKeeps
<1>13. CommittedFrames(wal', walHdr) = m
  <2>1. m = 0 \/ wal'[m].commit
    <3>1. CASE m # 0
      <4>1. wal[m].commit
        BY <1>6, <3>1 DEF Known, WInv, LogOK, CommitChain
      <4>2. m \in Frames /\ m # n + 1
        BY <1>6, <3>1 DEF Frames
      <4> QED
        BY <1>6, <4>1, <4>2
    <3> QED
      BY <3>1
  <2>2. m \in 0 .. n + 1
    BY <1>6
  <2> QED
    BY <1>5, <1>8, <2>1, <2>2, FrameImages
<1>14. CommittedImage' = CommittedImage /\ InDoubt' = {}
  <2>1. CommittedImage = HeadImage /\ CommittedImage' = HeadImage /\ HeadImage' = HeadImage
    BY <1>5, FrameKeeps
  <2>2. RecoveredImage(db, wal', walHdr) = HeadImage
    BY <1>1, <1>6, <1>13, <2>1 DEF RecoveredImage, HeadImage
  <2>3. ASSUME NEW g \in {walHdr} \cup WrittenAgain'
        PROVE  RecoveredImage(db, wal', g) = HeadImage
    BY <1>5, <2>2, FrameImages
  <2> QED
    BY <1>6, <2>1, <2>3, InDoubtImages
<1>15. Sees(c)' = Sees(c)
  <2>1. LogImage(db, wal', n + 1) = Sees(c)
    BY <1>5, FrameImages
  <2>2. ReadView(c)' = LogImage(db', wal', n + 1)
    BY <1>3, <1>4, <1>6, NextLogView
  <2> QED
    BY <1>3, <1>4, <1>6, <2>1, <2>2 DEF Sees, InTransaction, View
<1>16. Unmoved /\ Synced
  BY <1>1, <1>3, <1>4, <1>5, <1>6, <1>12, <1>15, FrameKeeps DEF Unmoved, Synced, SnapInv
<1> QED
  BY <1>12, <1>14, <1>16, Silent

\* The frame of the commit: from here on a recovery may find the transaction.
LEMMA CommitFrameImplements ==
  ASSUME Known, Known', SnapInv, ~PowerFailures, NEW c \in Conn, commit_frame(c)
  PROVE  SnapInv' /\ SDB!Next
<1> DEFINE w == pWal[c]
           n == w.hdr.mxFrame
           m == aHdr[0].mxFrame
           label == IF fullSync THEN "sync_frame" ELSE "append"
           v == [w EXCEPT !.pc = label]
<1>1. /\ w.pc = "frame" /\ w.commit /\ WriteNextFrame(c)
      /\ UNCHANGED <<aHdr, nBackfill, aPgno, nTxn, fullSync>>
      /\ pWal' = [pWal EXCEPT ![c] = v]
  BY DEF commit_frame, At, Goto, shm, bounds
<1>2. w \in WalObject
  BY ObjectTypes DEF Known, WInv
<1>3. /\ v.pc \in {"sync_frame", "append"} /\ v.page = w.page /\ v.txn = w.txn
      /\ v.readLock = w.readLock /\ v.hdr = w.hdr /\ v.minFrame = w.minFrame
  BY <1>2 DEF WalObject
<1> HIDE DEF v, label
<1>4. pWal'[c] = v /\ \A d \in Conn \ {c} : pWal'[d] = pWal[d]
  BY <1>1, ObjectTypes DEF Known, WInv
<1>5. FrameNow(c)
  BY <1>1, <1>4 DEF FrameNow
<1>6. /\ w.txn # 0 /\ w.readLock \in Int /\ w.readLock > 0 /\ n \in Nat /\ m \in Nat /\ m <= n
      /\ NextFrame(c) = n + 1 /\ n + 1 \in Frames /\ WRITE \in exclusive[c] /\ aHdr[0] # None
      /\ wal'[n + 1].by = w.txn /\ wal'[n + 1].commit
      /\ \A j \in Frames : j # n + 1 => wal'[j] = wal[j]
      /\ UNCHANGED <<db, walHdr>> /\ NothingOlder' /\ MaxFrame \in Nat
  <2> DEFINE frame == [pgno |-> w.page, by |-> w.txn, commit |-> w.commit,
                       salt |-> w.hdr.salt, after |-> w.hdr.cksum]
  <2>1. /\ w.txn # 0 /\ w.readLock \in Int /\ w.readLock > 0 /\ n \in Nat /\ m \in Nat /\ m <= n
        /\ NextFrame(c) = n + 1 /\ n + 1 \in Frames /\ WRITE \in exclusive[c] /\ aHdr[0] # None
        /\ wal'[n + 1] = frame /\ \A j \in Frames : j # n + 1 => wal'[j] = wal[j]
        /\ UNCHANGED <<db, walHdr>> /\ NothingOlder' /\ MaxFrame \in Nat
    BY <1>5, FrameFacts
  <2>2. frame.by = w.txn /\ frame.commit
    BY <1>1
  <2> HIDE DEF frame
  <2> QED
    BY <2>1, <2>2
<1>7. OwnFrames(c)
  BY DEF SnapInv, SnapOK
<1>8. OwnFrames(c)'
  <2>1. \A p \in Page : db'[p] # w.txn
    BY <1>6, <1>7 DEF OwnFrames
  <2>2. ASSUME NEW k \in Frames, wal'[k] # None, wal'[k].by = w.txn PROVE m < k /\ k <= n + 1
    <3>1. CASE k = n + 1
      BY <1>6, <3>1
    <3>2. CASE k # n + 1
      <4>1. m < k /\ k <= LastWritten(c) /\ LastWritten(c) = n
        BY <1>1, <1>6, <1>7, <2>2, <3>2 DEF OwnFrames, LastWritten
      <4> QED
        BY <1>6, <4>1 DEF Frames
    <3> QED
      BY <3>1, <3>2
  <2>3. ASSUME NEW k \in m + 1 .. n PROVE wal'[k].by = w.txn /\ ~wal'[k].commit
    <3>1. k \in Frames /\ k # n + 1
      BY <1>6 DEF Frames
    <3> QED
      BY <1>1, <1>6, <1>7, <3>1 DEF OwnFrames
  <2>4. LastWritten(c)' = n + 1 /\ aHdr'[0].mxFrame = m
    BY <1>1, <1>3, <1>4, <1>6 DEF LastWritten, NextFrame
  <2> QED
    BY <1>3, <1>4, <1>6, <2>1, <2>2, <2>3, <2>4 DEF OwnFrames
<1>9. \A a \in Conn : NoOldCopy(a)'
  <2>1. ~WithoutLog(c)' /\ ~At(c, "ck_start")' /\ ~Copies(c)'
    BY <1>3, <1>4, <1>6 DEF WithoutLog, At, Copies
  <2> QED
    BY <1>1, <1>4, <2>1, OldCopies
<1>10. AllCopied(c)' /\ NewSalt(c)' /\ FoundOK(c)'
  BY <1>3, <1>4, <1>6 DEF AllCopied, NewSalt, FoundOK, At
<1>11. SnapInv'
  BY <1>4, <1>5, <1>6, <1>8, <1>9, <1>10, FrameKeeps, WriterKeeps
<1>12. RecoveredImage(db, wal', walHdr) = Sees(c)
  <2>1. n + 1 \in 0 .. n + 1 /\ n + 1 + 1 .. n + 1 = {}
    BY <1>6
  <2>2. CommittedFrames(wal', walHdr) = n + 1
    BY <1>5, <1>6, <2>1, FrameImages
  <2> QED
    BY <1>5, <2>2, FrameImages DEF RecoveredImage
<1>13. CommittedImage' = CommittedImage /\ InDoubt' = {Sees(c)}
  <2>1. CommittedImage = HeadImage /\ CommittedImage' = HeadImage /\ Sees(c) # HeadImage
    BY <1>5, FrameKeeps, FrameImages
  <2>2. \A g \in WrittenAgain' : RecoveredImage(db, wal', g) \in {Sees(c), HeadImage}
    BY <1>5, <1>12, FrameImages
  <2> QED
    BY <1>6, <1>12, <2>1, <2>2, InDoubtImages
<1>14. Sees(c)' = Sees(c)
  <2>1. LogImage(db, wal', n) = LogImage(db, wal, n)
    BY <1>5, FrameImages
  <2>2. ReadView(c)' = LogImage(db', wal', n) /\ ReadView(c) = LogImage(db, wal, n)
    BY <1>3, <1>4, <1>6, LogView, NextLogView
  <2>3. ReadView(c)' = ReadView(c)
    BY <1>6, <2>1, <2>2
  <2>4. View(c)' = View(c)
    BY <1>3, <1>4, <2>3 DEF View
  <2> QED
    BY <1>3, <1>4, <1>6, <2>4 DEF Sees, InTransaction
<1>15. Unmoved /\ Synced
  BY <1>1, <1>3, <1>4, <1>5, <1>6, <1>11, <1>14, FrameKeeps DEF Unmoved, Synced, SnapInv
<1> QED
  BY <1>6, <1>11, <1>13, <1>15, Prepares


-----------------------------------------------------------------------------
(* The step that writes a page of the database *)

\* A copy changes nothing that anybody sees: the readers of the log have the frame
\* in their snapshots, nobody reads the database alone, and for a writer that will do
\* so once more, because it could not start the log anew, the page is there already.
LEMMA CopyImplements ==
  ASSUME Known, Known', SnapInv, ~PowerFailures, NEW c \in Conn, NEW k \in pWal[c].plan, ck_copy(c, k)
  PROVE  SnapInv' /\ SDB!Next
<1> DEFINE w == pWal[c]
           n == aHdr[0].mxFrame
           r == w.hdr.mxFrame
           p == wal[k].pgno
           v == [w EXCEPT !.plan = @ \ {k}]
<1>1. /\ w.pc = "ck_copy" /\ db' = [db EXCEPT ![aPgno[k]] = wal[k].by]
      /\ dbOlder' = [dbOlder EXCEPT ![aPgno[k]] = Unsynced(@, db[aPgno[k]])]
      /\ pWal' = [pWal EXCEPT ![c] = v]
      /\ UNCHANGED <<wal, walOlder, walHdr, walHdrOlder, walTruncated, aHdr, nBackfill, aPgno,
                     nTxn, fullSync>>
  BY DEF ck_copy, At, shm, bounds
<1>2. /\ w \in WalObject /\ WInv /\ HeadOK /\ ImageOK(c) /\ aHdr[0] # None /\ CheckpointOK(c)
      /\ w.readLock = -1 /\ w.txn = 0 /\ r \in Nat /\ n \in Nat /\ nBackfill \in Nat
      /\ n \in 0 .. MaxFrame /\ MaxFrame \in Nat /\ w.mxSafe \in Nat /\ db \in Image
  BY <1>1, AtCheckpoint, ObjectTypes, Numbers
     DEF Known, ImageInv, CheckpointSteps, WInv, FilesTyped
<1>3. /\ k \in 1 .. w.mxSafe /\ w.mxSafe <= r /\ r <= n /\ nBackfill < r
      /\ k \in 1 .. n /\ NewestIn(wal, k, r) /\ n # 0 /\ k \in Frames
  BY <1>1, <1>2 DEF CheckpointOK, Copies, ImageOK, PlanOK, Frames
<1>4. p = aPgno[k] /\ p \in Page /\ Written(wal, n) /\ wal[k] # None
  BY <1>2, <1>3, LogWritten DEF HeadOK, Indexed, Written
<1>5. v.hdr = w.hdr /\ v.txn = 0 /\ v.readLock = -1 /\ v.pc = "ck_copy"
  BY <1>1, <1>2 DEF WalObject
<1> HIDE DEF v
<1>6. pWal'[c] = v /\ \A d \in Conn \ {c} : pWal'[d] = pWal[d]
  BY <1>1, <1>2, ObjectTypes DEF WInv
<1>7. db' = [db EXCEPT ![p] = wal[k].by] /\ \A q \in Page : q # p => db'[q] = db[q]
  BY <1>1, <1>2, <1>4 DEF Image
<1>8. \A m \in Nat : k <= m => \A q \in Page : db'[q] = db[q] \/ \E j \in 1 .. m : wal[j].pgno = q
  BY <1>3, <1>7
<1>9. ASSUME NEW m \in Nat, k <= m, Written(wal, m)
      PROVE  LogImage(db', wal, m) = LogImage(db, wal, m)
  BY <1>8, <1>9, SameImage
<1>10. HeadImage' = HeadImage
  <2>1. LogImage(db', wal, n) = LogImage(db, wal, n)
    BY <1>2, <1>3, <1>4, <1>9
  <2> QED
    BY <1>1, <2>1 DEF HeadImage
<1>11. FoundEnd' = FoundEnd /\ RecoveredImage(db', wal, walHdr) = RecoveredImage(db, wal, walHdr)
  <2>1. FoundEnd' = FoundEnd
    BY <1>1 DEF FoundEnd
  <2>2. n <= FoundEnd /\ FoundEnd \in Nat
    BY <1>2, <1>3, HeadFound
  <2>3. Written(wal, FoundEnd)
    <3> DEFINE valid == ValidFrames(wal, walHdr)
    <3>1. FoundEnd \in 0 .. MaxFrame /\ \A j \in 1 .. FoundEnd : ValidFrame(wal, walHdr, j)
      <4>1. walHdr # None
        BY <1>2, <1>3, HeadFound
      <4>2. valid \in 0 .. MaxFrame /\ \A j \in 1 .. valid : ValidFrame(wal, walHdr, j)
        BY <4>1, ValidFramesFacts
      <4>3. FoundEnd \in 0 .. valid
        BY <4>2, <1>2, CommittedFramesFacts DEF FoundEnd
      <4> HIDE DEF valid
      <4> QED
        BY <1>2, <4>2, <4>3
    <3>2. ASSUME NEW j \in 1 .. FoundEnd PROVE wal[j] # None /\ wal[j].pgno \in Page
      <4>1. wal[j] # None /\ j \in Frames
        BY <1>2, <3>1 DEF ValidFrame, Frames
      <4> QED
        BY <1>2, <4>1 DEF WInv, FilesTyped, LogTyped, Frame
    <3> QED
      BY <3>2 DEF Written
  <2>4. LogImage(db', wal, FoundEnd) = LogImage(db, wal, FoundEnd)
    BY <1>2, <1>3, <1>9, <2>2, <2>3
  <2> QED
    BY <2>1, <2>4 DEF RecoveredImage, FoundEnd
<1>12. SameCommits
  <2>1. CommittedImage = HeadImage /\ CommittedImage' = HeadImage'
    BY <1>1, <1>2 DEF CommittedImage, HeadImage
  <2>2. WrittenAgain = {} /\ WrittenAgain' = {}
    BY <1>1, <1>3 DEF WrittenAgain
  <2> QED
    BY <1>1, <1>10, <1>11, <2>1, <2>2, InDoubtImages DEF SameCommits
<1>13. ASSUME NEW d \in Conn, InTransaction(d), pWal[d].readLock <= 0 PROVE db' = db
  <2>1. d # c
    BY <1>2, <1>13 DEF InTransaction
  <2>2. pWal[d].readLock \in -1 .. NSlot /\ pWal[d].readLock # 0 /\ NSlot \in Nat
    BY <1>1, <1>2, <2>1, WhileCopying, ObjectTypes, Numbers DEF WInv
  <2>3. pWal[d].txn # 0
    BY <1>13, <2>2 DEF InTransaction
  <2>4. NoOldCopy(d) /\ AllCopied(d)
    BY DEF SnapInv, SnapOK
  <2>5. r = n
    BY <1>1, <1>13, <2>3, <2>4 DEF NoOldCopy, WithoutLog, Copies
  <2>6. HeadImage = db
    BY <1>13, <2>3, <2>4 DEF AllCopied
  <2>7. HeadImage[p] = wal[k].by
    BY <1>2, <1>3, <1>4, <2>5, ImageAt DEF HeadImage
  <2> QED
    BY <1>2, <1>7, <2>6, <2>7 DEF Image
<1>14. ASSUME NEW d \in Conn \ {c}
       PROVE  Sees(d)' = Sees(d) /\ (pWal'[d].txn # 0 <=> pWal[d].txn # 0)
  <2>1. CASE pWal[d].readLock > 0
    <3>1. /\ pWal[d].hdr.mxFrame \in Nat /\ Last(d) \in Nat /\ Last(d) <= pWal[d].hdr.mxFrame
          /\ w.mxSafe <= Last(d)
      BY <1>1, <1>2, <2>1, LogView, ReaderFacts, CopiedInSnapshots DEF Known, WInv, ConnOK, ReaderOK
    <3>2. k <= pWal[d].hdr.mxFrame
      BY <1>2, <1>3, <3>1
    <3>3. pWal[d].readLock \in Int /\ pWal'[d] = pWal[d]
      BY <1>2, <1>6, ObjectTypes DEF WInv
    <3>4. \A j \in 1 .. pWal[d].hdr.mxFrame : wal'[j] = wal[j]
      BY <1>1
    <3>5. \A q \in Page : db'[q] = db[q] \/ \E j \in 1 .. pWal[d].hdr.mxFrame : wal[j].pgno = q
      BY <1>8, <3>1, <3>2
    <3>6. ~(pWal[d].readLock <= 0)
      BY <2>1, <3>3
    <3> QED
      BY <3>3, <3>4, <3>5, <3>6, SeesStays
  <2>2. CASE ~(pWal[d].readLock > 0)
    BY <1>6, <1>13, <2>2, SeesStays
  <2> QED
    BY <2>1, <2>2
<1>15. Unmoved
  <2>1. Sees(c) = None /\ Sees(c)' = None
    BY <1>2, <1>5, <1>6 DEF Sees, InTransaction
  <2> QED
    BY <1>2, <1>5, <1>6, <1>14, <2>1 DEF Unmoved
<1>16. NothingOlder'
  <2>1. Unsynced(dbOlder[p], db[p]) = {} /\ dbOlder = [q \in Page |-> {}]
    BY DEF Unsynced, SnapInv, NothingOlder
  <2>2. dbOlder' = dbOlder
    BY <1>1, <1>4, <2>1
  <2> QED
    BY <1>1, <2>2 DEF SnapInv, NothingOlder
<1>17. LogOrdered'
  BY <1>1 DEF SnapInv, LogOrdered
<1>18. PagesOld'
  <2>1. wal[k].by <= nTxn
    BY <1>2, <1>3, <1>4 DEF WInv, FilesTyped, LogTyped, MayHold
  <2> QED
    BY <1>1, <1>2, <1>7, <2>1 DEF SnapInv, PagesOld, Image
<1>19. \A a \in Conn : NoOldCopy(a)'
  <2>1. ~WithoutLog(c)' /\ ~At(c, "ck_start")' /\ Copies(c) /\ pWal'[c].hdr = w.hdr
    BY <1>1, <1>5, <1>6 DEF WithoutLog, At, Copies
  <2> QED
    BY <1>1, <1>6, <2>1, OldCopies
<1>20. ASSUME NEW d \in Conn PROVE SnapOK(d)'
  <2>1. pWal'[d].txn = pWal[d].txn /\ (At(d, "recover_publish")' => d # c)
        /\ (At(d, "restart_publish")' => d # c)
    BY <1>2, <1>5, <1>6 DEF At
  <2>2. OwnFrames(d)'
    <3>1. CASE d = c
      BY <1>5, <1>6, <3>1 DEF OwnFrames
    <3>2. CASE d # c
      <4>1. pWal'[d] = pWal[d] /\ OwnFrames(d)
        BY <1>6, <3>2 DEF SnapInv, SnapOK
      <4>2. LastWritten(d)' = LastWritten(d)
        BY <4>1 DEF LastWritten, NextFrame
      <4>3. ASSUME pWal[d].txn # 0, NEW q \in Page PROVE db'[q] # pWal[d].txn
        <5>1. wal[k].by # pWal[d].txn
          BY <1>2, <1>3, <1>4, <4>1, <4>3 DEF OwnFrames
        <5> QED
          BY <1>2, <1>7, <4>1, <4>3, <5>1 DEF OwnFrames, Image
      <4> QED
        BY <1>1, <4>1, <4>2, <4>3 DEF OwnFrames
    <3> QED
      BY <3>1, <3>2
  <2>3. AllCopied(d)'
    <3>1. CASE d = c
      BY <1>5, <1>6, <3>1 DEF AllCopied
    <3>2. CASE d # c
      <4>1. pWal'[d] = pWal[d] /\ AllCopied(d)
        BY <1>6, <3>2 DEF SnapInv, SnapOK
      <4> QED
        BY <1>10, <1>13, <4>1 DEF AllCopied, InTransaction
    <3> QED
      BY <3>1, <3>2
  <2>4. NewSalt(d)' /\ FoundOK(d)'
    <3>1. CASE d = c
      BY <1>5, <1>6, <3>1 DEF NewSalt, FoundOK, At
    <3>2. CASE d # c
      <4>1. pWal'[d] = pWal[d] /\ NewSalt(d) /\ FoundOK(d)
        BY <1>6, <3>2 DEF SnapInv, SnapOK
      <4> QED
        BY <1>1, <1>11, <4>1 DEF NewSalt, FoundOK, At
    <3> QED
      BY <3>1, <3>2
  <2> QED
    BY <1>19, <2>2, <2>3, <2>4 DEF SnapOK
<1>21. SnapInv'
  BY <1>16, <1>17, <1>18, <1>20 DEF SnapInv
<1>22. Synced
  BY <1>1, <1>21 DEF Synced, SnapInv
<1> QED
  BY <1>12, <1>15, <1>21, <1>22, Silent DEF SameCommits


-----------------------------------------------------------------------------
(* The invariant, and the refinement *)

LEMMA FirstState ==
  ASSUME Init
  PROVE  SnapInv /\ SDB!Init
<1>1. /\ db = [p \in Page |-> 0] /\ wal = [k \in Frames |-> None] /\ walHdr = None
      /\ aHdr[0] = None /\ nTxn = 0 /\ pWal = [c \in Conn |-> Closed] /\ fullSync \in BOOLEAN
  BY WalAssumption DEF Init
<1>2. /\ db \in [Page -> 0 .. MaxTxn + 1] /\ \A p \in Page : db[p] = 0
      /\ \A k \in Frames : wal[k] = None
  BY <1>1, Numbers
<1>3. \A c \in Conn : /\ pWal[c].txn = 0 /\ pWal[c].readLock = -1 /\ pWal[c].pc = "closed"
                      /\ ~InTransaction(c)
  BY <1>1 DEF Closed, InTransaction
<1>4. NothingOlder
  BY DEF Init, NothingOlder
<1>5. SnapInv
  <2>1. LogOrdered /\ PagesOld
    BY <1>1, <1>2 DEF LogOrdered, PagesOld
  <2>2. ASSUME NEW c \in Conn PROVE SnapOK(c)
    BY <1>3 DEF SnapOK, OwnFrames, NoOldCopy, WithoutLog, AllCopied, NewSalt, FoundOK, At
  <2> QED
    BY <1>4, <2>1, <2>2 DEF SnapInv
<1>6. RecoveredImage(db, wal, walHdr) = db
  BY <1>1, <1>2, NothingFound
<1>7. CommittedImage = db /\ InDoubt = {}
  BY <1>1, <1>6, InDoubtImages DEF CommittedImage, WrittenAgain
<1>8. Survivors = {}
  BY <1>4, NoSurvivors
<1>9. /\ [c \in Conn |-> IF InTransaction(c) THEN View(c) ELSE None] = [c \in Conn |-> None]
      /\ {c \in Conn : pWal[c].txn # 0} = {}
  BY <1>3
<1> QED
  BY <1>1, <1>2, <1>5, <1>7, <1>8, <1>9 DEF SDB!Init

LEMMA NothingHappens ==
  ASSUME SnapInv, UNCHANGED vars
  PROVE  SnapInv' /\ UNCHANGED SDB!vars
<1>1. UNCHANGED <<db, dbOlder, wal, walOlder, walHdr, walHdrOlder, walTruncated, aHdr,
                  nBackfill, aPgno, pWal, nTxn, fullSync>>
  BY DEF vars, files, shm, bounds
<1>2. FoundEnd' = FoundEnd /\ HeadImage' = HeadImage
  BY <1>1 DEF FoundEnd, HeadImage
<1>3. NothingOlder' /\ LogOrdered' /\ PagesOld'
  BY <1>1 DEF SnapInv, NothingOlder, LogOrdered, PagesOld
<1>4. ASSUME NEW c \in Conn PROVE SnapOK(c)'
  <2>1. OwnFrames(c)'
    BY <1>1 DEF SnapInv, SnapOK, OwnFrames, LastWritten, NextFrame
  <2>2. NoOldCopy(c)'
    BY <1>1 DEF SnapInv, SnapOK, NoOldCopy, WithoutLog, At, Copies
  <2>3. AllCopied(c)' /\ NewSalt(c)' /\ FoundOK(c)'
    BY <1>1, <1>2 DEF SnapInv, SnapOK, AllCopied, NewSalt, FoundOK, At
  <2> QED
    BY <2>1, <2>2, <2>3 DEF SnapOK
<1>5. SnapInv'
  BY <1>3, <1>4 DEF SnapInv
<1>6. Survivors' = Survivors
  BY <1>5, NoSurvivors, NextNoSurvivors DEF SnapInv
<1>7. CommittedImage' = CommittedImage /\ WrittenAgain' = WrittenAgain
  BY <1>1 DEF CommittedImage, WrittenAgain
<1>8. InDoubt' = InDoubt
  BY <1>1, <1>7, InDoubtImages
<1>9. \A c \in Conn : InTransaction(c)' = InTransaction(c) /\ View(c)' = View(c)
  BY <1>1 DEF InTransaction, View, ReadView
<1> QED
  BY <1>1, <1>5, <1>6, <1>7, <1>8, <1>9 DEF SDB!vars

LEMMA SnapshotsNext ==
  ASSUME Known, Known', SnapInv, ~PowerFailures, Next
  PROVE  SnapInv' /\ SDB!Next
<1> DEFINE Done == SnapInv' /\ SDB!Next
<1>1. ASSUME PowerLoss PROVE Done
  BY <1>1 DEF PowerLoss
<1>2. ASSUME NEW c \in Conn, sqlite3WalOpen(c) \/ Crash(c) PROVE Done
  BY <1>2, OpenImplements, CrashImplements
<1>3. ASSUME NEW c \in Conn, ReadHdr(c) PROVE Done
  BY <1>3, ReadHdrImplements, HdrBusyImplements, RecoverImplements, RecoverPublishImplements,
     RecoverResetImplements, RecoverMarksImplements DEF ReadHdr
<1>4. ASSUME NEW c \in Conn, Read(c) PROVE Done
  BY <1>4, ReadWithoutWalImplements, ChooseMarkImplements, LockSlotImplements,
     VerifySlotImplements, EndReadImplements DEF Read
<1>5. ASSUME NEW c \in Conn, Restart(c) PROVE Done
  BY <1>5, RestartLogImplements, RestartNotPossibleImplements, RestartPublishImplements,
     RestartResetImplements, RestartMarksImplements DEF Restart
<1>6. ASSUME NEW c \in Conn, Write(c) PROVE Done
  <2>1. CASE sqlite3WalBeginWriteTransaction(c)
    BY <2>1, BeginWriteImplements
  <2>2. CASE \E p \in Page, commit \in BOOLEAN : walFrames(c, p, commit)
    BY <2>2, WalFramesImplements
  <2>3. CASE write_wal_header(c) \/ sync_wal_header(c) \/ sync_frame(c)
    BY <2>3, WriteHeaderImplements, SyncImplements
  <2>4. CASE spill_frame(c) \/ commit_frame(c)
    BY <2>4, SpillFrameImplements, CommitFrameImplements
  <2>5. CASE append_commit(c) \/ publish_commit(c) \/ sqlite3WalUndo(c)
    BY <2>5, AppendCommitImplements, PublishCommitImplements, UndoImplements
  <2> QED
    BY <1>6, <2>1, <2>2, <2>3, <2>4, <2>5 DEF Write
<1>7. ASSUME NEW c \in Conn, Checkpoint(c) PROVE Done
  <2>1. CASE \E mode \in Modes : sqlite3WalCheckpoint(c, mode)
    BY <2>1, BeginCheckpointImplements
  <2>2. CASE ck_start(c) \/ ck_slot(c) \/ ck_lock(c) \/ ck_done(c)
    BY <2>2, CheckpointStartImplements, CheckpointSlotImplements, CheckpointLockImplements,
       CheckpointDoneImplements
  <2>3. CASE \E k \in pWal[c].plan : ck_copy(c, k)
    BY <2>3, CopyImplements
  <2>4. CASE ck_truncate(c) \/ truncate_wal(c) \/ ck_return(c)
    BY <2>4, CheckpointTruncateImplements, TruncateWalImplements, CheckpointReturnImplements
  <2> QED
    BY <1>7, <2>1, <2>2, <2>3, <2>4 DEF Checkpoint
<1> HIDE DEF Done
<1>8. ASSUME NEW c \in Conn,
             \/ sqlite3WalOpen(c) \/ Crash(c)
             \/ ReadHdr(c) \/ Read(c) \/ Restart(c) \/ Write(c) \/ Checkpoint(c)
      PROVE  Done
  BY <1>2, <1>3, <1>4, <1>5, <1>6, <1>7, <1>8
<1>9. Done
  BY <1>1, <1>8 DEF Next
<1> QED
  BY <1>9 DEF Done

\* The write-ahead log is what the pager takes it for, a database of snapshots with
\* atomic commits, whatever processes die and whoever recovers, checkpoints, restarts
\* and truncates in between: a transaction sees one committed image from
\* walTryBeginRead() to its end, with its own pages on top if it writes; it writes on
\* the newest image or not at all, and alone; a commit replaces the image as a whole
\* in the step of walIndexWriteHdr(), and one that a crash cuts short is found by
\* walIndexRecover() as a whole or never seen.  Power failures are left out.
THEOREM SnapshotsAreImplemented ==
  ASSUME ~StaleCheckpoints, ~RestartCrash, ~TruncateCrash, ~PowerFailures
  PROVE  Spec => ImplementsSnapshotDb /\ SDB!Spec
<1>1. Init => SnapInv /\ SDB!Init
  BY FirstState
<1>2. Known /\ Known' /\ SnapInv /\ [Next]_vars => SnapInv' /\ [SDB!Next]_SDB!vars
  BY SnapshotsNext, NothingHappens
<1>3. Known /\ Known' /\ SnapInv /\ [Next]_vars => [UNCHANGED Mapped \/ SDB!Next]_vars
  BY SnapshotsNext
<1>4. Spec => []Known
  BY KnownAlways
<1> QED
  BY <1>1, <1>2, <1>3, <1>4, PTL DEF Spec, SDB!Spec, ImplementsSnapshotDb
==============================================================================
