----------------------------- MODULE WalImages ------------------------------
(***************************************************************************)
(* What the headers of the wal-index stand for: the images of the database *)
(* that the connections remember, and why a page may stay in a cache.      *)
(***************************************************************************)
EXTENDS WalSafety

\* Frame k of log f is the newest version of its page among the frames up to n;
\* the file has the frames up to m that are; the index has the frames up to n.
NewestIn(f, k, n) == \A j \in k + 1 .. n : f[j].pgno # f[k].pgno
Backfilled(file, f, m, n) == \A k \in 1 .. m : NewestIn(f, k, n) => file[f[k].pgno] = f[k].by
Indexed(index, f, n) == \A k \in 1 .. n : index[k] = f[k].pgno

\* Where a recovery would end, and the images there and at the published header.
FoundEnd == CommittedFrames(wal, walHdr)
FoundImage == LogImage(db, wal, FoundEnd)
HeadImage == LogImage(db, wal, aHdr[0].mxFrame)

-----------------------------------------------------------------------------
(* The parts of the invariant *)

HeadOK ==
  aHdr[0] # None =>
    /\ Indexed(aPgno, wal, aHdr[0].mxFrame)
    /\ ~Restarting => Backfilled(db, wal, nBackfill, aHdr[0].mxFrame)
    /\ aHdr[0].salt <= nTxn

SaltBounded(h) == h # None => h.salt <= nTxn

FileSaltsOK ==
  /\ \A h \in {walHdr} \cup walHdrOlder : SaltBounded(h)
  /\ \A log \in walTruncated : SaltBounded(log.hdr)

\* Between the two copies of a header there is a log, unless it is being
\* truncated: a recovery finds its salt.
NotEmpty ==
  aHdr[0] # None /\ aHdr[0] # aHdr[1] =>
    \/ walHdr # None /\ \E k \in Frames : wal[k] # None
    \/ \E c \in Conn : At(c, "restart_publish")

\* No log that is about to begin gets the salt of header h.
OldSalt(h) ==
  /\ h.salt <= nTxn
  /\ \A d \in Conn :
       /\ pWal[d].txn # 0 /\ aHdr[0].salt # pWal[d].txn => h.salt # pWal[d].txn
       /\ At(d, "restart_publish") => h.salt # pWal[d].hdr.salt

\* Header h is not ahead of the published one, or of one that a recovery may find
\* in a log that has been copied; where they are equal, h stands for its image.
FitsHead(h, image) ==
  h.salt = aHdr[0].salt =>
    h.mxFrame <= aHdr[0].mxFrame /\ (h.mxFrame = aHdr[0].mxFrame => image = HeadImage)

FitsFile(h, image) ==
  aHdr[0].mxFrame = 0 /\ walHdr # None /\ h.salt = walHdr.salt =>
    h.mxFrame <= FoundEnd /\ (h.mxFrame = FoundEnd => image = FoundImage)

Stands(h, image) == OldSalt(h) /\ FitsHead(h, image) /\ FitsFile(h, image)

IndexOK(c) ==
  (pWal[c].txn # 0 /\ pWal[c].pc \notin RestartSteps) \/ At(c, "recover_publish")
    => Indexed(aPgno, wal, pWal[c].hdr.mxFrame)

MarkOK(c) ==
  LET w == pWal[c] IN
  /\ w.pc = "verify" => Backfilled(db, wal, w.minFrame - 1, aHdr[0].mxFrame)
  /\ w.readLock > 0 => Backfilled(db, wal, w.minFrame - 1, Last(c))

\* What a checkpointer has still to copy.
PlanOK(c) ==
  LET w == pWal[c] IN
  w.pc \in {"ck_lock", "ck_copy"} =>
    /\ \A k \in w.plan : k > nBackfill /\ NewestIn(wal, k, w.hdr.mxFrame)
    /\ \A k \in nBackfill + 1 .. w.mxSafe :
         NewestIn(wal, k, w.hdr.mxFrame) => k \in w.plan \/ db[wal[k].pgno] = wal[k].by

\* The header of a checkpointer is not older than the copy that the readers rely on.
Relies(d) == pWal[d].pc = "verify" \/ pWal[d].readLock > 0
StartOK(c) ==
  At(c, "ck_start") \/ Copies(c) =>
    /\ ~Restarting => nBackfill <= pWal[c].hdr.mxFrame
    /\ \A d \in Conn : Relies(d) => pWal[d].minFrame - 1 <= pWal[c].hdr.mxFrame

HalfPublished(w) == w.pc \in {"recover_publish", "restart_publish", "publish"}

RecoveredOK(c) ==
  At(c, "recover_publish") /\ aHdr[0] # None =>
    walHdr # None /\ pWal[c].hdr.salt = walHdr.salt /\ pWal[c].hdr.mxFrame = FoundEnd

SaltOK(c) ==
  LET w == pWal[c] IN
  /\ SaltBounded(w.hdr)
  /\ HalfPublished(w) => aHdr[1] = w.hdr
  /\ w.pc \in {"restart_reset", "restart_marks"} => aHdr[1] = aHdr[0]
  /\ w.pc = "restart_publish" =>
       aHdr[0].salt # w.hdr.salt /\ (w.mode = "READ" => w.hdr.salt = w.txn)
  /\ w.txn # 0 /\ w.readLock = 0 /\ w.pc \in {"reading", "restart"} => aHdr[0].salt # w.txn
  /\ w.txn # 0 /\ w.pc \notin RestartSteps => w.hdr.salt \in {aHdr[0].salt, w.txn}

\* A cache that will be used again under the header that is remembered with it.
Kept(w) == w.cache # None /\ ~w.changed /\ w.pc \notin Recovering \cup {"restart_publish"}

CacheOK(c) ==
  LET w == pWal[c] IN
  /\ w.cache # None => w.hdr # None /\ w.txn = 0 /\ w.pc # "closed" /\ aHdr[0] # None
  /\ w.changed => w.mode # "READ"
  /\ Kept(w) => Stands(w.hdr, w.cache)
  /\ w.pc = "restart_publish" =>
       HeadImage = db /\ (w.cache # None /\ ~w.changed => w.cache = db)
  /\ w.pc = "reading" /\ w.txn = 0 =>
       /\ OldSalt(w.hdr)
       /\ w.cache # None => w.cache = ReadView(c)
  /\ w.pc \in {"reading", "restart"} /\ w.readLock = 0 => Stands(w.hdr, db)

ImageOK(c) ==
  /\ IndexOK(c) /\ MarkOK(c) /\ PlanOK(c) /\ StartOK(c) /\ RecoveredOK(c)
  /\ SaltOK(c) /\ CacheOK(c)

ImageInv == HeadOK /\ FileSaltsOK /\ NotEmpty /\ \A c \in Conn : ImageOK(c)

Known == WInv /\ CopyInv /\ ImageInv


-----------------------------------------------------------------------------
(* Logs and images *)

\* The first n places of a log hold frames of the pages.
Written(f, n) == \A k \in 1 .. n : f[k] # None /\ f[k].pgno \in Page

\* Among the frames of a page up to n one is the newest.
LEMMA NewestFrame ==
  ASSUME NEW f, NEW n \in Nat, NEW k \in 1 .. n
  PROVE  \E j \in 1 .. n : f[j].pgno = f[k].pgno /\ NewestIn(f, j, n) /\ k <= j
<1> DEFINE S == {j \in 1 .. n : f[j].pgno = f[k].pgno}
<1>1. S \in SUBSET Nat /\ S # {} /\ \A x \in S : x <= n
  OBVIOUS
<1> HIDE DEF S
<1>2. PICK j \in S : \A x \in S : x <= j
  BY <1>1, LastOf
<1>3. j \in 1 .. n /\ f[j].pgno = f[k].pgno /\ k \in S
  BY <1>2 DEF S
<1>4. ASSUME NEW x \in j + 1 .. n PROVE f[x].pgno # f[j].pgno
  <2>1. x \in 1 .. n /\ x > j
    BY <1>3, <1>4
  <2> QED
    BY <1>2, <1>3, <2>1 DEF S
<1> QED
  BY <1>2, <1>3, <1>4 DEF NewestIn

\* What an image holds of a page that has a frame, and of one that has none.
LEMMA ImageAt ==
  ASSUME NEW file, NEW f, NEW n \in Nat, Written(f, n), NEW k \in 1 .. n, NewestIn(f, k, n)
  PROVE  LogImage(file, f, n)[f[k].pgno] = f[k].by
<1> DEFINE p == f[k].pgno
           Has(j) == f[j] # None /\ f[j].pgno = p
           Is(j) == Has(j) /\ \A i \in j + 1 .. n : ~Has(i)
<1>1. p \in Page /\ Has(k)
  BY DEF Written
<1>2. Is(k)
  BY <1>1 DEF NewestIn
<1>3. ASSUME NEW j \in 1 .. n, Is(j) PROVE j = k
  <2>1. ~(j < k) /\ ~(k < j)
    BY <1>1, <1>2, <1>3
  <2> QED
    BY <2>1
<1>4. (CHOOSE j \in 1 .. n : Is(j)) = k
  <2> HIDE DEF Is
  <2> QED
    BY <1>2, <1>3
<1> QED
  BY <1>1, <1>4 DEF LogImage

LEMMA ImageBelow ==
  ASSUME NEW file, NEW f, NEW n, NEW p \in Page, \A k \in 1 .. n : f[k].pgno # p
  PROVE  LogImage(file, f, n)[p] = file[p]
BY DEF LogImage

\* What identifies an image.
LEMMA ImageIs ==
  ASSUME NEW file, NEW f, NEW n \in Nat, Written(f, n), NEW T, NEW image \in [Page -> T],
         \A k \in 1 .. n : NewestIn(f, k, n) => image[f[k].pgno] = f[k].by,
         \A p \in Page : (\A k \in 1 .. n : f[k].pgno # p) => image[p] = file[p]
  PROVE  LogImage(file, f, n) = image
<1>1. ASSUME NEW p \in Page PROVE LogImage(file, f, n)[p] = image[p]
  <2>1. CASE \A k \in 1 .. n : f[k].pgno # p
    BY <2>1, ImageBelow
  <2>2. CASE \E k \in 1 .. n : f[k].pgno = p
    <3>1. PICK k \in 1 .. n : f[k].pgno = p /\ NewestIn(f, k, n)
      BY <2>2, NewestFrame
    <3> QED
      BY <3>1, ImageAt
  <2> QED
    BY <2>1, <2>2
<1>2. LogImage(file, f, n) = [p \in Page |-> LogImage(file, f, n)[p]]
  BY DEF LogImage
<1> QED
  BY <1>1, <1>2

\* An image is a function on the pages.
LEMMA ImageOnPages ==
  ASSUME NEW file, NEW f, NEW n
  PROVE  \E T : LogImage(file, f, n) \in [Page -> T]
<1> DEFINE g == LogImage(file, f, n)
<1>1. g = [p \in Page |-> g[p]]
  BY DEF LogImage
<1>2. g \in [Page -> {g[p] : p \in Page}]
  BY <1>1
<1> QED
  BY <1>2

\* The image stays when its frames do and the file changes below them only.
LEMMA SameImage ==
  ASSUME NEW a, NEW b, NEW f, NEW g, NEW n \in Nat, Written(f, n),
         \A k \in 1 .. n : g[k] = f[k],
         \A p \in Page : b[p] = a[p] \/ \E k \in 1 .. n : f[k].pgno = p
  PROVE  LogImage(b, g, n) = LogImage(a, f, n)
<1> DEFINE image == LogImage(a, f, n)
<1>1. PICK T : image \in [Page -> T]
  BY ImageOnPages
<1>2. Written(g, n)
  BY DEF Written
<1>3. ASSUME NEW k \in 1 .. n, NewestIn(g, k, n) PROVE image[g[k].pgno] = g[k].by
  <2>1. NewestIn(f, k, n)
    BY <1>3 DEF NewestIn
  <2> QED
    BY <2>1, ImageAt
<1>4. ASSUME NEW p \in Page, \A k \in 1 .. n : g[k].pgno # p PROVE image[p] = b[p]
  BY <1>4, ImageBelow
<1> HIDE DEF image
<1>5. LogImage(b, g, n) = image
  BY <1>1, <1>2, <1>3, <1>4, ImageIs
<1> QED
  BY <1>5 DEF image

LEMMA EmptyLog ==
  ASSUME NEW T, NEW file \in [Page -> T], NEW f
  PROVE  LogImage(file, f, 0) = file
BY ImageIs DEF Written

\* A log that is all in the file says nothing more.
LEMMA AllInFile ==
  ASSUME NEW T, NEW file \in [Page -> T], NEW f, NEW n \in Nat, Written(f, n),
         Backfilled(file, f, n, n)
  PROVE  LogImage(file, f, n) = file
BY ImageIs DEF Backfilled


\* What walFindFrame() makes of the index, from frame m on.
ReadImage(file, f, index, m, n) ==
  [p \in Page |->
     IF \E k \in m .. n : index[k] = p
     THEN f[CHOOSE k \in m .. n : index[k] = p /\ \A j \in k + 1 .. n : index[j] # p].by
     ELSE file[p]]

LEMMA ReadImageIs ==
  ASSUME NEW T, NEW file \in [Page -> T], NEW f, NEW index, NEW n \in Nat, NEW m \in Nat \ {0},
         Written(f, n), Indexed(index, f, n), Backfilled(file, f, m - 1, n)
  PROVE  ReadImage(file, f, index, m, n) = LogImage(file, f, n)
<1> DEFINE image == ReadImage(file, f, index, m, n)
<1>1. image = [p \in Page |-> image[p]]
  BY DEF ReadImage
<1>2. ASSUME NEW p \in Page, \A k \in 1 .. n : f[k].pgno # p PROVE image[p] = file[p]
  <2>1. ~ \E k \in m .. n : index[k] = p
    BY <1>2 DEF Indexed
  <2> QED
    BY <2>1 DEF ReadImage
<1>3. ASSUME NEW k \in 1 .. n, NewestIn(f, k, n) PROVE image[f[k].pgno] = f[k].by
  <2> DEFINE p == f[k].pgno
             Is(j) == index[j] = p /\ \A i \in j + 1 .. n : index[i] # p
  <2>1. p \in Page /\ index[k] = p
    BY DEF Written, Indexed
  <2>2. \A i \in k + 1 .. n : index[i] # p
    BY <1>3 DEF NewestIn, Indexed
  <2>3. CASE k >= m
    <3>1. k \in m .. n /\ Is(k)
      BY <2>1, <2>2, <2>3
    <3>2. ASSUME NEW j \in m .. n, Is(j) PROVE j = k
      <4>1. ~(j < k) /\ ~(k < j)
        BY <2>1, <2>2, <3>2
      <4> QED
        BY <4>1
    <3>3. (CHOOSE j \in m .. n : Is(j)) = k
      <4> HIDE DEF Is
      <4> QED
        BY <3>1, <3>2
    <3> QED
      BY <2>1, <3>1, <3>3 DEF ReadImage
  <2>4. CASE k < m
    <3>1. ~ \E j \in m .. n : index[j] = p
      BY <2>2, <2>4
    <3>2. file[p] = f[k].by
      BY <1>3, <2>4 DEF Backfilled
    <3> QED
      BY <2>1, <3>1, <3>2 DEF ReadImage
  <2> QED
    BY <2>3, <2>4
<1>4. PICK R : image \in [Page -> R]
  <2>1. image \in [Page -> {image[p] : p \in Page}]
    BY <1>1
  <2> QED
    BY <2>1
<1>5. /\ \A k \in 1 .. n : NewestIn(f, k, n) => image[f[k].pgno] = f[k].by
      /\ \A p \in Page : (\A k \in 1 .. n : f[k].pgno # p) => image[p] = file[p]
  BY <1>2, <1>3
<1> HIDE DEF image
<1>6. LogImage(file, f, n) = image
  BY <1>4, <1>5, ImageIs
<1> QED
  BY <1>6 DEF image

\* The frames up to n that are in the file stay the newest or are followed.
LEMMA BackfilledGrows ==
  ASSUME NEW file, NEW f, NEW m, NEW n \in Nat, NEW r \in Nat, n <= r, Backfilled(file, f, m, n)
  PROVE  Backfilled(file, f, m, r)
<1>1. ASSUME NEW k \in 1 .. m, NewestIn(f, k, r) PROVE NewestIn(f, k, n)
  BY <1>1 DEF NewestIn
<1> QED
  BY <1>1 DEF Backfilled

LEMMA BackfilledSame ==
  ASSUME NEW file, NEW f, NEW g, NEW m \in Nat, NEW n \in Nat, m <= n, \A k \in 1 .. n : g[k] = f[k],
         Backfilled(file, f, m, n)
  PROVE  Backfilled(file, g, m, n)
<1>1. ASSUME NEW k \in 1 .. m, NewestIn(g, k, n) PROVE NewestIn(f, k, n)
  BY <1>1 DEF NewestIn
<1> QED
  BY <1>1 DEF Backfilled

\* Where a recovery ends.
LEMMA EndFound ==
  ASSUME NEW f, NEW h, h # None
  PROVE  CommittedFrames(f, h) \in 0 .. MaxFrame
<1>1. ValidFrames(f, h) \in 0 .. MaxFrame
  BY ValidFramesFacts
<1>2. CommittedFrames(f, h) \in 0 .. ValidFrames(f, h)
  BY <1>1, CommittedFramesFacts, Numbers
<1> QED
  BY <1>1, <1>2, Numbers


-----------------------------------------------------------------------------
(* Readers *)

LEMMA LogWritten ==
  ASSUME WInv, aHdr[0] # None
  PROVE  /\ aHdr[0] \in Header /\ aHdr[0].mxFrame \in 0 .. MaxFrame /\ aHdr[0].mxFrame \in Nat
         /\ Written(wal, aHdr[0].mxFrame) /\ aHdr[0].salt \in Nat /\ db \in Image
<1>1. aHdr[0] \in Header /\ db \in Image /\ wal \in [Frames -> Frame \cup {None}]
  BY DEF WInv, SharedTyped, FilesTyped, LogTyped
<1>2. aHdr[0].mxFrame \in 0 .. MaxFrame /\ aHdr[0].salt \in Nat
  BY <1>1, Numbers DEF Header, Txn
<1>3. ASSUME NEW k \in 1 .. aHdr[0].mxFrame PROVE wal[k] # None /\ wal[k].pgno \in Page
  <2>1. wal[k] # None
    BY <1>3 DEF WInv, LogOK, CommitChain, Chain, ValidFrame
  <2>2. k \in Frames
    BY <1>2, Numbers DEF Frames
  <2> QED
    BY <1>1, <2>1, <2>2 DEF Frame
<1> QED
  BY <1>1, <1>2, <1>3, Numbers DEF Written

LEMMA ReaderFacts ==
  ASSUME WInv, NEW c \in Conn, pWal[c].readLock > 0
  PROVE  /\ pWal[c].hdr # None /\ pWal[c].hdr \in Header /\ pWal[c].hdr.mxFrame \in 0 .. MaxFrame
         /\ aHdr[0] # None /\ Last(c) \in 0 .. aHdr[0].mxFrame /\ Last(c) <= pWal[c].hdr.mxFrame
         /\ pWal[c].minFrame \in 1 .. Last(c) + 1
         /\ pWal[c].readLock \in Slots /\ READ_LOCK(pWal[c].readLock) \in shared[c]
<1>1. pWal[c] \in WalObject /\ pWal[c].readLock \in 0 .. NSlot
  BY ObjectTypes, Numbers DEF WInv
<1>2. Holds(c) /\ Control(c) /\ ReaderOK(c)
  BY DEF WInv, ConnOK
<1>3. pWal[c].hdr # None /\ aHdr[0] # None
  BY <1>1, <1>2 DEF Control, WithoutHdr, FrameSteps, RestartSteps
<1>4. pWal[c].hdr \in Header /\ pWal[c].hdr.mxFrame \in 0 .. MaxFrame
  BY <1>3, ObjectTypes DEF WInv
<1>5. aHdr[0].mxFrame \in Nat
  BY <1>3, LogWritten
<1>6. Last(c) \in Nat
  BY LastTypes
<1>7. /\ Last(c) <= aHdr[0].mxFrame /\ Last(c) <= pWal[c].hdr.mxFrame
      /\ pWal[c].minFrame - 1 \in 0 .. Last(c)
  BY <1>2 DEF ReaderOK
<1>8. pWal[c].minFrame \in 0 .. MaxFrame + 1
  BY ObjectTypes DEF WInv
<1>9. pWal[c].minFrame \in 1 .. Last(c) + 1
  BY <1>6, <1>7, <1>8, Numbers
<1> QED
  BY <1>1, <1>2, <1>3, <1>4, <1>5, <1>6, <1>7, <1>9 DEF Holds, Slots

LEMMA VerifyFacts ==
  ASSUME WInv, NEW c \in Conn, pWal[c].pc = "verify"
  PROVE  /\ aHdr[0] # None /\ pWal[c].minFrame \in 1 .. aHdr[0].mxFrame + 1
         /\ pWal[c].slot \in Slots /\ READ_LOCK(pWal[c].slot) \in shared[c]
         /\ pWal[c].readLock = -1
<1>1. aHdr[0] # None /\ Holds(c) /\ pWal[c].slot \in Slots /\ pWal[c].readLock = -1
  BY AtSlot
<1>2. pWal[c].minFrame - 1 \in 0 .. aHdr[0].mxFrame
  BY DEF WInv, ConnOK, ReaderOK
<1>3. aHdr[0].mxFrame \in Nat /\ pWal[c].minFrame \in 0 .. MaxFrame + 1
  BY <1>1, LogWritten, ObjectTypes DEF WInv
<1>4. pWal[c].minFrame \in 1 .. aHdr[0].mxFrame + 1
  BY <1>2, <1>3, Numbers
<1> QED
  BY <1>1, <1>4 DEF Holds

LEMMA ViewIs ==
  ASSUME NEW c \in Conn, pWal[c].readLock \in Slots
  PROVE  ReadView(c) = ReadImage(db, wal, aPgno, pWal[c].minFrame, pWal[c].hdr.mxFrame)
<1>1. ~(pWal[c].readLock <= 0)
  BY DEF Slots
<1> QED
  BY <1>1, Zenon DEF ReadView, ReadImage

LEMMA NextViewIs ==
  ASSUME NEW c \in Conn, pWal'[c].readLock \in Slots
  PROVE  ReadView(c)' = ReadImage(db', wal', aPgno', pWal'[c].minFrame, pWal'[c].hdr.mxFrame)
<1>1. ~(pWal'[c].readLock <= 0)
  BY DEF Slots
<1> QED
  BY <1>1, Zenon DEF ReadView, ReadImage

\* A reader of the log sees the image that its header stands for.
LEMMA ReaderImage ==
  ASSUME WInv, HeadOK, NEW c \in Conn, MarkOK(c), pWal[c].txn = 0, pWal[c].readLock > 0
  PROVE  /\ ReadView(c) = LogImage(db, wal, pWal[c].hdr.mxFrame)
         /\ Written(wal, pWal[c].hdr.mxFrame) /\ pWal[c].hdr.mxFrame \in Nat
         /\ pWal[c].hdr.mxFrame <= aHdr[0].mxFrame
<1> DEFINE n == pWal[c].hdr.mxFrame
<1>1. n \in Nat /\ n <= aHdr[0].mxFrame /\ Last(c) = n /\ pWal[c].minFrame \in Nat \ {0}
  BY ReaderFacts, LogWritten, Numbers DEF Last
<1>2. Written(wal, n) /\ db \in Image /\ Indexed(aPgno, wal, n)
  BY <1>1, ReaderFacts, LogWritten DEF Written, Indexed, HeadOK
<1>3. Backfilled(db, wal, pWal[c].minFrame - 1, n)
  BY <1>1 DEF MarkOK
<1>4. ReadImage(db, wal, aPgno, pWal[c].minFrame, n) = LogImage(db, wal, n)
  BY <1>1, <1>2, <1>3, ReadImageIs DEF Image
<1> QED
  BY <1>1, <1>2, <1>4, ReaderFacts, ViewIs

\* It sees the same while what is behind its header is the same.
LEMMA ViewStays ==
  ASSUME WInv, HeadOK, NEW c \in Conn, MarkOK(c), pWal[c].txn = 0, pWal[c].readLock > 0,
         pWal'[c] = pWal[c], db' \in Image,
         \A k \in 1 .. pWal[c].hdr.mxFrame : wal'[k] = wal[k],
         \A p \in Page : db'[p] = db[p] \/ \E k \in 1 .. pWal[c].hdr.mxFrame : wal[k].pgno = p,
         Indexed(aPgno', wal', pWal[c].hdr.mxFrame),
         Backfilled(db', wal', pWal[c].minFrame - 1, pWal[c].hdr.mxFrame)
  PROVE  ReadView(c)' = ReadView(c)
<1> DEFINE n == pWal[c].hdr.mxFrame
<1>1. n \in Nat /\ Written(wal, n) /\ ReadView(c) = LogImage(db, wal, n)
  BY ReaderImage
<1>2. pWal[c].minFrame \in Nat \ {0}
  BY ReaderFacts
<1>3. Written(wal', n)
  BY <1>1 DEF Written
<1>4. ReadImage(db', wal', aPgno', pWal[c].minFrame, n) = LogImage(db', wal', n)
  BY <1>1, <1>2, <1>3, ReadImageIs DEF Image
<1>5. LogImage(db', wal', n) = LogImage(db, wal, n)
  BY <1>1, SameImage
<1> QED
  BY <1>1, <1>4, <1>5, ReaderFacts, NextViewIs

-----------------------------------------------------------------------------
(* Steps that leave the images alone *)

\* A step of c that changes neither the log nor the published header.
Still(c) ==
  /\ UNCHANGED <<db, wal, walHdr, nBackfill>> /\ aHdr'[0] = aHdr[0]
  /\ walHdrOlder' \subseteq walHdrOlder /\ walTruncated' \subseteq walTruncated
  /\ aHdr'[1] = aHdr[1] \/ WRITE \in exclusive'[c]
  /\ \/ aPgno' = aPgno
     \/ /\ WRITE \in exclusive[c] \cup exclusive'[c]
        /\ aHdr[0] # None => Indexed(aPgno', wal, aHdr[0].mxFrame)
  /\ nTxn' \in {nTxn, nTxn + 1}
  /\ \A d \in Conn \ {c} : pWal'[d] = pWal[d]
  /\ pWal[c].pc # "restart_reset" /\ pWal'[c].pc # "restart_reset"
  /\ pWal'[c].txn # 0 =>
       pWal'[c].txn = pWal[c].txn \/ (pWal'[c].txn = nTxn + 1 /\ nTxn' = nTxn + 1)
  /\ pWal'[c].pc = "restart_publish" =>
       \/ pWal[c].pc = "restart_publish" /\ pWal'[c].hdr = pWal[c].hdr
       \/ pWal'[c].hdr.salt = nTxn + 1
       \/ pWal'[c].hdr.salt = pWal[c].txn /\ pWal[c].txn # 0 /\ aHdr[0].salt # pWal[c].txn
  /\ Relies(c)' =>
       \/ Relies(c) /\ pWal'[c].minFrame = pWal[c].minFrame
       \/ pWal'[c].minFrame = nBackfill + 1 /\ ~Restarting

LEMMA StillStands ==
  ASSUME nTxn \in Nat, NEW c \in Conn, Still(c), NEW h, h.salt \in Nat, NEW image, Stands(h, image)
  PROVE  Stands(h, image)'
<1>1. OldSalt(h)'
  BY DEF Still, Stands, OldSalt, At
<1>2. FoundEnd' = FoundEnd /\ FoundImage' = FoundImage /\ HeadImage' = HeadImage
  BY DEF Still, FoundEnd, FoundImage, HeadImage
<1>3. FitsHead(h, image)' /\ FitsFile(h, image)'
  BY <1>2 DEF Still, Stands, FitsHead, FitsFile
<1> QED
  BY <1>1, <1>3 DEF Stands


\* Who holds the WRITE lock; and what follows for the others.
LEMMA Writing ==
  ASSUME WInv, NEW c \in Conn,
         pWal[c].txn # 0 \/ pWal[c].pc \in Recovering \cup RestartSteps \cup FrameSteps
  PROVE  WRITE \in exclusive[c]
<1>1. Holds(c) /\ Control(c)
  BY DEF WInv, ConnOK
<1>2. CASE pWal[c].pc \in RestartSteps
  BY <1>2, AtRestart
<1>3. CASE pWal[c].pc \in FrameSteps
  BY <1>1, <1>3 DEF Control, Holds
<1> QED
  BY <1>1, <1>2, <1>3 DEF Holds

LEMMA OneWriter ==
  ASSUME WInv, NEW c \in Conn, WRITE \in exclusive[c], NEW d \in Conn \ {c}
  PROVE  pWal[d].txn = 0 /\ pWal[d].pc \notin Recovering \cup RestartSteps \cup FrameSteps
<1>1. WRITE \notin exclusive[d]
  BY DEF WInv, Exclusion
<1> QED
  BY <1>1, Writing

LEMMA NextOneWriter ==
  ASSUME WInv, WInv', NEW c \in Conn, WRITE \in exclusive'[c], NEW d \in Conn \ {c},
         pWal'[d] = pWal[d]
  PROVE  pWal[d].txn = 0 /\ pWal[d].pc \notin Recovering \cup RestartSteps \cup FrameSteps
<1>1. WRITE \notin exclusive'[d] /\ Holds(d)' /\ Control(d)'
  BY DEF WInv, ConnOK, Exclusion
<1>2. pWal[d].txn = 0 /\ pWal[d].pc \notin Recovering
  BY <1>1 DEF Holds
<1>3. pWal[d].pc \notin FrameSteps
  BY <1>1, <1>2 DEF Control
<1>4. pWal[d].pc \notin RestartSteps
  <2>1. ASSUME pWal[d].pc \in RestartSteps PROVE pWal[d].mode = "TRUNCATE"
    BY <1>1, <1>2, <2>1 DEF Control
  <2> QED
    BY <1>1, <2>1 DEF Holds
<1> QED
  BY <1>2, <1>3, <1>4

LEMMA Salts ==
  ASSUME WInv
  PROVE  /\ nTxn \in Nat
         /\ \A c \in Conn : pWal[c].txn \in Nat /\ (pWal[c].hdr # None => pWal[c].hdr.salt \in Nat)
<1>1. nTxn \in Nat
  BY Numbers DEF WInv, SharedTyped, Txn
<1>2. ASSUME NEW c \in Conn
      PROVE  pWal[c].txn \in Nat /\ (pWal[c].hdr # None => pWal[c].hdr.salt \in Nat)
  BY ObjectTypes, Numbers DEF WInv, Header, Txn
<1> QED
  BY <1>1, <1>2

LEMMA StillOthers ==
  ASSUME Known, WInv', NEW c \in Conn, Still(c), NEW d \in Conn \ {c}
  PROVE  ImageOK(d)'
<1> DEFINE w == pWal[d]
<1>1. /\ pWal'[d] = w /\ UNCHANGED <<db, wal, walHdr, nBackfill>> /\ aHdr'[0] = aHdr[0]
      /\ d \in Conn /\ ImageOK(d) /\ WInv /\ HeadOK /\ Holds(d) /\ Control(d)
  BY DEF Still, Known, ImageInv, WInv, ConnOK
<1>2. w.txn # 0 \/ w.pc \in Recovering \cup RestartSteps \cup FrameSteps
        => aPgno' = aPgno /\ aHdr'[1] = aHdr[1]
  <2>1. CASE WRITE \in exclusive[c]
    BY <1>1, <2>1, OneWriter
  <2>2. CASE WRITE \in exclusive'[c]
    BY <1>1, <2>2, NextOneWriter
  <2> QED
    BY <2>1, <2>2 DEF Still
<1>3. FoundEnd' = FoundEnd /\ FoundImage' = FoundImage /\ HeadImage' = HeadImage
  BY DEF Still, FoundEnd, FoundImage, HeadImage
<1>4. IndexOK(d)'
  BY <1>1, <1>2 DEF ImageOK, IndexOK, At, Recovering
<1>5. MarkOK(d)'
  BY <1>1 DEF ImageOK, MarkOK, Last
<1>6. PlanOK(d)'
  BY <1>1 DEF ImageOK, PlanOK
<1>7. Restarting' = Restarting
  BY DEF Still, Restarting, At
<1>8. StartOK(d)'
  <2>1. ASSUME At(d, "ck_start") \/ Copies(d)
        PROVE  /\ ~Restarting => nBackfill <= w.hdr.mxFrame
               /\ \A e \in Conn : Relies(e) => pWal[e].minFrame - 1 <= w.hdr.mxFrame
    BY <1>1, <2>1 DEF ImageOK, StartOK
  <2>2. ASSUME At(d, "ck_start") \/ Copies(d), NEW e \in Conn, Relies(e)'
        PROVE  pWal'[e].minFrame - 1 <= w.hdr.mxFrame
    <3>1. CASE e # c
      BY <2>1, <2>2, <3>1 DEF Still, Relies
    <3>2. CASE e = c /\ Relies(c) /\ pWal'[c].minFrame = pWal[c].minFrame
      BY <2>1, <2>2, <3>2
    <3>3. CASE e = c /\ pWal'[c].minFrame = nBackfill + 1 /\ ~Restarting
      <4>1. nBackfill \in Nat
        BY <1>1, Numbers DEF WInv, SharedTyped
      <4> QED
        BY <2>1, <2>2, <3>3, <4>1
    <3> QED
      BY <2>2, <3>1, <3>2, <3>3 DEF Still
  <2> QED
    BY <1>1, <1>7, <2>1, <2>2 DEF StartOK, At, Copies
<1>9. RecoveredOK(d)'
  BY <1>1, <1>3 DEF ImageOK, RecoveredOK, At
<1>10. SaltOK(d)'
  <2>1. nTxn \in Nat /\ nTxn' \in {nTxn, nTxn + 1} /\ (w.hdr # None => w.hdr.salt \in Nat)
    BY <1>1, Salts DEF Still
  <2>2. SaltBounded(w.hdr) => SaltBounded(w.hdr)'
    BY <1>1, <2>1 DEF SaltBounded
  <2> QED
    BY <1>1, <1>2, <2>2 DEF ImageOK, SaltOK, HalfPublished, Recovering, RestartSteps, FrameSteps
<1>11. CacheOK(d)'
  <2>1. ASSUME NEW image, w.hdr # None, Stands(w.hdr, image)
        PROVE  Stands(w.hdr, image)'
    BY <1>1, <2>1, Salts, StillStands
  <2>2. ASSUME w.pc = "reading", w.txn = 0
        PROVE  OldSalt(w.hdr)'
    <3>1. w.hdr # None
      BY <1>1, <2>2, AtReading
    <3>2. OldSalt(w.hdr) /\ w.hdr.salt \in Nat /\ nTxn \in Nat
      BY <1>1, <2>2, <3>1, Salts DEF ImageOK, CacheOK
    <3> QED
      BY <1>1, <3>2 DEF Still, OldSalt, At
  <2>3. ASSUME w.pc = "reading", w.txn = 0
        PROVE  ReadView(d)' = ReadView(d)
    <3>1. w.readLock \in 0 .. NSlot
      BY <1>1, <2>3, AtReading
    <3>2. CASE w.readLock = 0
      BY <1>1, <3>2 DEF ReadView
    <3>3. CASE w.readLock # 0
      <4>1. w.readLock > 0 /\ MarkOK(d)
        BY <1>1, <3>1, <3>3 DEF ImageOK
      <4>2. w.hdr.mxFrame \in Nat /\ w.hdr.mxFrame <= aHdr[0].mxFrame /\ aHdr[0] # None
        BY <1>1, <2>3, <4>1, ReaderImage, ReaderFacts
      <4>3. Indexed(aPgno', wal, w.hdr.mxFrame)
        <5>1. Indexed(aPgno', wal, aHdr[0].mxFrame)
          BY <1>1, <4>2 DEF Still, HeadOK
        <5>2. aHdr[0].mxFrame \in Nat
          BY <1>1, <4>2, LogWritten
        <5> QED
          BY <4>2, <5>1, <5>2 DEF Indexed
      <4>4. Backfilled(db, wal, w.minFrame - 1, w.hdr.mxFrame)
        BY <2>3, <4>1 DEF MarkOK, Last
      <4>5. db \in Image
        BY <1>1 DEF WInv, FilesTyped
      <4> QED
        BY <1>1, <2>3, <4>1, <4>3, <4>4, <4>5, ViewStays
    <3> QED
      BY <3>2, <3>3
  <2>4. w.pc \in {"reading", "restart"} => w.hdr # None
    BY <1>1, AtReading
  <2>5. Kept(w)' <=> Kept(w)
    BY <1>1 DEF Kept
  <2>6. CacheOK(d)
    BY <1>1 DEF ImageOK
  <2>7. (Kept(w) => Stands(w.hdr, w.cache))'
    <3>1. w.cache # None => w.hdr # None
      BY <2>6 DEF CacheOK
    <3>2. Kept(w) => Stands(w.hdr, w.cache) /\ w.cache # None
      BY <2>6 DEF CacheOK, Kept
    <3> QED
      BY <1>1, <2>1, <2>5, <3>1, <3>2
  <2>8. (w.pc = "reading" /\ w.txn = 0 =>
           /\ OldSalt(w.hdr)
           /\ w.cache # None => w.cache = ReadView(d))'
    BY <1>1, <2>2, <2>3, <2>6 DEF CacheOK
  <2>9. (w.pc \in {"reading", "restart"} /\ w.readLock = 0 => Stands(w.hdr, db))'
    BY <1>1, <2>1, <2>4, <2>6 DEF CacheOK
  <2> QED
    BY <1>1, <1>3, <2>6, <2>7, <2>8, <2>9 DEF CacheOK
<1> QED
  BY <1>4, <1>5, <1>6, <1>8, <1>9, <1>10, <1>11 DEF ImageOK


LEMMA StillKeeps ==
  ASSUME Known, WInv', NEW c \in Conn, Still(c), ImageOK(c)', NotEmpty'
  PROVE  ImageInv'
<1>1. HeadOK'
  <2>1. Restarting' = Restarting
    BY DEF Still, Restarting, At
  <2>2. nTxn \in Nat /\ nTxn' \in {nTxn, nTxn + 1} /\ HeadOK
    BY Salts DEF Still, Known, ImageInv
  <2>3. aHdr[0] # None => aHdr[0].salt \in Nat
    BY LogWritten DEF Known
  <2> QED
    BY <2>1, <2>2, <2>3 DEF Still, HeadOK
<1>2. FileSaltsOK'
  <2>1. nTxn \in Nat /\ nTxn' \in {nTxn, nTxn + 1} /\ FileSaltsOK /\ FilesTyped
    BY Salts DEF Still, Known, ImageInv, WInv
  <2>2. ASSUME NEW h \in WalHdr \cup {None}, SaltBounded(h) PROVE SaltBounded(h)'
    <3>1. h # None => h.salt \in Nat
      BY Numbers DEF WalHdr, Txn
    <3> QED
      BY <2>1, <2>2, <3>1 DEF SaltBounded
  <2>3. ASSUME NEW h \in {walHdr} \cup walHdrOlder PROVE SaltBounded(h)'
    BY <2>1, <2>2 DEF FileSaltsOK, FilesTyped
  <2>4. ASSUME NEW log \in walTruncated PROVE SaltBounded(log.hdr)'
    <3>1. SaltBounded(log.hdr) /\ log.hdr \in WalHdr \cup {None}
      BY <2>1, <2>4 DEF FileSaltsOK, FilesTyped
    <3> QED
      BY <2>2, <3>1
  <2> QED
    BY <2>3, <2>4 DEF Still, FileSaltsOK
<1>3. \A d \in Conn : ImageOK(d)'
  BY StillOthers
<1> QED
  BY <1>1, <1>2, <1>3 DEF ImageInv

LEMMA NotEmptyStays ==
  ASSUME Known, NEW c \in Conn, Still(c), aHdr' = aHdr,
         pWal[c].pc = "restart_publish" => aHdr[0].mxFrame # 0
  PROVE  NotEmpty'
<1>1. CASE aHdr[0] # None /\ pWal[c].pc = "restart_publish"
  <2>1. aHdr[0].mxFrame \in 1 .. MaxFrame /\ Written(wal, aHdr[0].mxFrame) /\ CommitChain(aHdr[0])
    BY <1>1, LogWritten, Numbers DEF Known, WInv, LogOK
  <2>2. walHdr # None /\ wal[1] # None /\ 1 \in Frames
    BY <2>1, Numbers DEF CommitChain, Chain, Written, Frames
  <2> QED
    BY <2>2 DEF Still, NotEmpty
<1>2. CASE pWal[c].pc # "restart_publish"
  BY <1>2 DEF Known, ImageInv, NotEmpty, Still, At
<1> QED
  BY <1>1, <1>2 DEF NotEmpty


\* The published header is one that no new log may get the salt of.
LEMMA HeadSalt ==
  ASSUME Known, aHdr[0] # None
  PROVE  OldSalt(aHdr[0])
BY DEF Known, ImageInv, HeadOK, OldSalt, ImageOK, SaltOK, At

\* What c must be like after a step that leaves the log and the published header
\* alone, and neither recovers nor restarts.
Own(c, v) ==
  /\ v.pc \notin Recovering \cup RestartSteps \cup {"publish"}
  /\ SaltBounded(v.hdr)
  /\ v.cache # None => v.hdr # None /\ v.txn = 0 /\ v.pc # "closed" /\ aHdr[0] # None
  /\ v.changed => v.mode # "READ"
  /\ Kept(v) => Stands(v.hdr, v.cache)
  /\ v.txn # 0 =>
       /\ Indexed(aPgno, wal, v.hdr.mxFrame)
       /\ v.hdr.salt \in {aHdr[0].salt, v.txn}
       /\ v.readLock = 0 /\ v.pc \in {"reading", "restart"} => aHdr[0].salt # v.txn
  /\ v.pc = "verify" => Backfilled(db, wal, v.minFrame - 1, aHdr[0].mxFrame)
  /\ v.readLock > 0 =>
       Backfilled(db, wal, v.minFrame - 1,
                  IF v.txn = 0 THEN v.hdr.mxFrame ELSE aHdr[0].mxFrame)
  /\ v.pc = "reading" /\ v.txn = 0 =>
       /\ v.hdr = aHdr[0]
       /\ v.cache # None => v.cache = IF v.readLock = 0 THEN db ELSE HeadImage
  /\ v.pc \in {"reading", "restart"} /\ v.readLock = 0 => v.hdr # None /\ Stands(v.hdr, db)

LEMMA OwnKeeps ==
  ASSUME Known, WInv', NEW c \in Conn, Still(c), NEW v, pWal'[c] = v, Own(c, v),
         aPgno' = aPgno \/ v.txn = 0, PlanOK(c)', StartOK(c)'
  PROVE  ImageOK(c)'
<1> DEFINE n == aHdr[0].mxFrame
<1>1. /\ UNCHANGED <<db, wal, walHdr, nBackfill>> /\ aHdr'[0] = aHdr[0]
      /\ WInv /\ HeadOK /\ nTxn \in Nat /\ nTxn' \in {nTxn, nTxn + 1}
  BY Salts DEF Still, Known, ImageInv
<1>2. /\ v.hdr # None => v.hdr.salt \in Nat /\ v.hdr.mxFrame \in Nat
      /\ v.txn \in Nat /\ v.readLock \in -1 .. NSlot
      /\ Holds(c)' /\ Control(c)' /\ ReaderOK(c)'
  <2>1. v \in WalObject
    BY DEF WInv, SharedTyped
  <2> QED
    BY <2>1, Numbers DEF WInv, ConnOK, WalObject, Header, Txn
<1>3. IndexOK(c)'
  BY <1>1 DEF Own, IndexOK, At, Recovering
<1>4. MarkOK(c)'
  BY <1>1 DEF Own, MarkOK, Last
<1>5. RecoveredOK(c)'
  BY DEF Own, RecoveredOK, At, Recovering
<1>6. SaltOK(c)'
  <2>1. SaltBounded(v.hdr)'
    BY <1>1, <1>2 DEF Own, SaltBounded
  <2> QED
    BY <1>1, <2>1 DEF Own, SaltOK, HalfPublished, Recovering, RestartSteps
<1>7. CacheOK(c)'
  <2>1. FoundEnd' = FoundEnd /\ FoundImage' = FoundImage /\ HeadImage' = HeadImage
    BY DEF Still, FoundEnd, FoundImage, HeadImage
  <2>2. ASSUME NEW image, v.hdr # None, Stands(v.hdr, image)
        PROVE  Stands(v.hdr, image)'
    BY <1>1, <1>2, <2>2, StillStands
  <2>3. (Kept(v) => Stands(v.hdr, v.cache))'
    BY <2>2 DEF Own, Kept
  <2>4. ASSUME v.pc = "reading", v.txn = 0
        PROVE  /\ OldSalt(v.hdr)'
               /\ v.cache # None => v.cache = ReadView(c)'
    <3>1. v.hdr = aHdr[0] /\ v.hdr # None /\ aHdr[0] # None
      BY <2>4 DEF Own, WInv, ConnOK, Control, WithoutHdr
    <3>2. OldSalt(v.hdr)'
      <4>1. OldSalt(v.hdr) /\ v.hdr.salt \in Nat
        BY <1>2, <3>1, HeadSalt
      <4> QED
        BY <1>1, <4>1 DEF Still, OldSalt, At
    <3>3. CASE v.readLock = 0
      <4>1. ReadView(c)' = db
        BY <1>1, <3>3 DEF ReadView
      <4> QED
        BY <2>4, <3>2, <3>3, <4>1 DEF Own
    <3>4. CASE v.readLock # 0
      <4>1. v.readLock \in Slots /\ v.readLock > 0
        BY <1>2, <2>4, <3>4 DEF Control, Slots
      <4>2. v.minFrame \in Nat \ {0}
        <5>1. v.minFrame \in 0 .. MaxFrame + 1 /\ v.minFrame - 1 \in 0 .. Last(c)' /\ Last(c)' = n
          BY <1>1, <1>2, <2>4, <3>1, <4>1 DEF ReaderOK, Last, WInv, SharedTyped, WalObject
        <5>2. n \in Nat
          BY <1>1, <3>1, LogWritten
        <5> QED
          BY <5>1, <5>2, Numbers
      <4>3. Written(wal, n) /\ n \in Nat /\ db \in Image
        BY <1>1, <3>1, LogWritten
      <4>4. Indexed(aPgno', wal, n)
        BY <1>1, <3>1 DEF Still, HeadOK
      <4>5. Backfilled(db, wal, v.minFrame - 1, n)
        BY <2>4, <3>1, <4>1 DEF Own
      <4>6. ReadImage(db, wal, aPgno', v.minFrame, n) = HeadImage
        BY <4>2, <4>3, <4>4, <4>5, ReadImageIs DEF HeadImage, Image
      <4>7. ReadView(c)' = HeadImage
        BY <1>1, <3>1, <4>1, <4>6, NextViewIs
      <4> QED
        BY <2>4, <3>2, <3>4, <4>7 DEF Own
    <3> QED
      BY <3>3, <3>4
  <2>5. v.pc # "restart_publish"
    BY DEF Own, RestartSteps
  <2>6. (v.pc \in {"reading", "restart"} /\ v.readLock = 0 => Stands(v.hdr, db))'
    BY <1>1, <2>2 DEF Own
  <2> QED
    BY <1>1, <2>3, <2>4, <2>5, <2>6 DEF Own, CacheOK
<1> QED
  BY <1>3, <1>4, <1>5, <1>6, <1>7 DEF ImageOK


LEMMA OwnStep ==
  ASSUME Known, WInv', NEW c \in Conn, NEW v, pWal' = [pWal EXCEPT ![c] = v],
         UNCHANGED <<db, wal, walHdr, nBackfill, aHdr, aPgno, nTxn>>,
         walHdrOlder' \subseteq walHdrOlder, walTruncated' \subseteq walTruncated,
         pWal[c].pc \notin {"restart_publish", "restart_reset"},
         v.txn \in {0, pWal[c].txn},
         v.pc = "verify" \/ v.readLock > 0 =>
           \/ Relies(c) /\ v.minFrame = pWal[c].minFrame
           \/ v.minFrame = nBackfill + 1 /\ ~Restarting,
         Own(c, v),
         v.pc \in {"ck_start", "ck_slots", "ck_lock", "ck_copy"} => PlanOK(c)' /\ StartOK(c)'
  PROVE  ImageInv'
<1>1. pWal'[c] = v /\ \A d \in Conn \ {c} : pWal'[d] = pWal[d]
  BY ObjectTypes DEF Known, WInv
<1>2. nTxn \in Nat
  BY Salts DEF Known
<1>3. Still(c)
  <2>1. v.pc \notin {"restart_publish", "restart_reset"}
    BY DEF Own, RestartSteps
  <2>2. v.txn # 0 => v.txn = pWal[c].txn
    OBVIOUS
  <2>3. Relies(c)' => v.pc = "verify" \/ v.readLock > 0
    BY <1>1 DEF Relies
  <2> QED
    BY <1>1, <1>2, <2>1, <2>2, <2>3 DEF Still
<1>4. NotEmpty'
  BY <1>3, NotEmptyStays
<1>5. PlanOK(c)' /\ StartOK(c)'
  <2>1. CASE v.pc \notin {"ck_start", "ck_slots", "ck_lock", "ck_copy"}
    BY <1>1, <2>1 DEF PlanOK, StartOK, At, Copies
  <2> QED
    BY <2>1
<1>6. ImageOK(c)'
  BY <1>1, <1>3, <1>5, OwnKeeps
<1> QED
  BY <1>3, <1>4, <1>6, StillKeeps

\* One that reads no snapshot.
LEMMA OwnStepIdle ==
  ASSUME Known, WInv', NEW c \in Conn, NEW v, pWal' = [pWal EXCEPT ![c] = v],
         UNCHANGED <<files, aHdr, nBackfill, aPgno, nTxn>>,
         pWal[c].pc \notin {"restart_publish", "restart_reset"},
         v.txn \in {0, pWal[c].txn}, v.pc # "verify", v.readLock = -1, Own(c, v),
         v.pc \in {"ck_start", "ck_slots", "ck_lock", "ck_copy"} => PlanOK(c)' /\ StartOK(c)'
  PROVE  ImageInv'
<1>1. ~(v.readLock > 0)
  OBVIOUS
<1>2. UNCHANGED <<db, wal, walHdr, nBackfill, aHdr, aPgno, nTxn>>
      /\ walHdrOlder' \subseteq walHdrOlder /\ walTruncated' \subseteq walTruncated
  BY DEF files
<1> QED
  BY <1>1, <1>2, OwnStep

\* A step that leaves the header, the transaction and the cache as they are.
LEMMA OwnSame ==
  ASSUME Known, NEW c \in Conn, NEW v,
         v.hdr = pWal[c].hdr, v.txn = pWal[c].txn, v.cache = pWal[c].cache,
         v.changed = pWal[c].changed, v.mode = pWal[c].mode,
         pWal[c].pc \notin Recovering \cup {"restart_publish", "restart_reset"},
         v.pc \notin Recovering \cup RestartSteps \cup {"publish", "closed", "reading", "verify"},
         v.txn # 0 => pWal[c].pc \notin RestartSteps,
         v.readLock = 0 /\ v.pc = "restart" => pWal[c].readLock = 0 /\ pWal[c].pc = "reading",
         v.readLock > 0 => pWal[c].readLock > 0 /\ v.minFrame = pWal[c].minFrame
  PROVE  Own(c, v)
<1>1. ImageOK(c)
  BY DEF Known, ImageInv
<1>2. SaltBounded(v.hdr)
  BY <1>1 DEF ImageOK, SaltOK
<1>3. /\ v.cache # None => v.hdr # None /\ v.txn = 0 /\ v.pc # "closed" /\ aHdr[0] # None
      /\ v.changed => v.mode # "READ"
      /\ Kept(v) => Stands(v.hdr, v.cache)
  BY <1>1 DEF ImageOK, CacheOK, Kept
<1>4. v.txn # 0 =>
        /\ Indexed(aPgno, wal, v.hdr.mxFrame)
        /\ v.hdr.salt \in {aHdr[0].salt, v.txn}
        /\ v.readLock = 0 /\ v.pc \in {"reading", "restart"} => aHdr[0].salt # v.txn
  BY <1>1 DEF ImageOK, IndexOK, SaltOK
<1>5. v.readLock > 0 =>
        Backfilled(db, wal, v.minFrame - 1,
                   IF v.txn = 0 THEN v.hdr.mxFrame ELSE aHdr[0].mxFrame)
  BY <1>1 DEF ImageOK, MarkOK, Last
<1>6. v.pc \in {"reading", "restart"} /\ v.readLock = 0 => v.hdr # None /\ Stands(v.hdr, db)
  BY <1>1, AtReading DEF Known, ImageOK, CacheOK
<1> QED
  BY <1>2, <1>3, <1>4, <1>5, <1>6 DEF Own


-----------------------------------------------------------------------------
(* The steps of readers *)

\* A checkpointer that has read the published header.
LEMMA StartBegins ==
  ASSUME WInv, NEW c \in Conn, NEW v, pWal' = [pWal EXCEPT ![c] = v], nBackfill' = nBackfill,
         aHdr[0] # None, v.hdr = aHdr[0], v.pc = "ck_start", v.readLock = -1,
         pWal[c].pc # "restart_reset"
  PROVE  PlanOK(c)' /\ StartOK(c)'
<1>1. pWal'[c] = v /\ \A d \in Conn \ {c} : pWal'[d] = pWal[d]
  BY ObjectTypes DEF WInv
<1>2. Restarting' = Restarting
  BY <1>1 DEF Restarting, At
<1>3. ~Restarting => nBackfill <= aHdr[0].mxFrame
  BY DEF WInv, NBackfillInLog
<1>4. ASSUME NEW e \in Conn, Relies(e)' PROVE pWal'[e].minFrame - 1 <= aHdr[0].mxFrame
  <2>1. e # c /\ Relies(e) /\ pWal'[e] = pWal[e]
    BY <1>1, <1>4 DEF Relies
  <2>2. aHdr[0].mxFrame \in Nat
    BY LogWritten
  <2>3. CASE pWal[e].readLock > 0
    <3>1. Last(e) \in 0 .. aHdr[0].mxFrame /\ pWal[e].minFrame \in 1 .. Last(e) + 1
      BY <2>3, ReaderFacts
    <3> QED
      BY <2>1, <2>2, <3>1
  <2>4. CASE pWal[e].pc = "verify"
    <3>1. pWal[e].minFrame \in 1 .. aHdr[0].mxFrame + 1
      BY <2>4, VerifyFacts
    <3> QED
      BY <2>1, <2>2, <3>1
  <2> QED
    BY <2>1, <2>3, <2>4 DEF Relies
<1> QED
  BY <1>1, <1>2, <1>3, <1>4 DEF PlanOK, StartOK

LEMMA ReadHdrImages ==
  ASSUME Known, WInv', NEW c \in Conn, read_hdr(c)
  PROVE  ImageInv'
<1> DEFINE w == pWal[c]
           v == [WithHdr(w, aHdr[0]) EXCEPT !.pc = AfterHdr(c)]
<1>1. /\ w.pc \in {"idle", "hdr"} /\ aHdr[0] \in Header /\ aHdr[0] # None
      /\ pWal' = [pWal EXCEPT ![c] = v] /\ UNCHANGED <<files, shm, locks, bounds>>
  BY NoneAssumption DEF read_hdr, Reads, At, walIndexTryHdr, GoodHdr, Known, WInv, SharedTyped
<1>2. w \in WalObject /\ w.txn = 0 /\ w.readLock = -1
  BY <1>1, AtHdr, ObjectTypes DEF Known, WInv
<1>3. v.pc \in {"try", "ck_start"} /\ v.hdr = aHdr[0] /\ v.readLock = -1 /\ v.txn = 0 /\ v.mode = w.mode
  <2>1. AfterHdr(c) \in {"try", "ck_start"} /\ AfterHdr(c) \in Labels
    BY DEF AfterHdr, Labels
  <2>2. /\ v.pc = AfterHdr(c) /\ v.hdr = aHdr[0] /\ v.readLock = -1 /\ v.txn = 0
        /\ v.mode = w.mode
    BY <1>2 DEF WithHdr, Changed, WalObject
  <2> HIDE DEF v
  <2> QED
    BY <2>1, <2>2
<1>6. UNCHANGED <<files, aHdr, nBackfill, aPgno, nTxn>>
  BY <1>1 DEF shm, bounds
<1>7. v.pc = "try" \/ (PlanOK(c)' /\ StartOK(c)')
  <2> HIDE DEF v
  <2> QED
    BY <1>1, <1>3, <1>6, StartBegins DEF Known
<1>4. CASE w.hdr = aHdr[0]
  <2>1. v.cache = w.cache /\ v.changed = w.changed
    BY <1>2, <1>4 DEF WithHdr, WalObject
  <2> HIDE DEF v
  <2>2. ImageOK(c) /\ HeadOK
    BY DEF Known, ImageInv
  <2>3. Kept(v) => Stands(v.hdr, v.cache)
    BY <1>1, <1>3, <1>4, <2>1, <2>2 DEF ImageOK, CacheOK, Kept, Recovering
  <2>4. Own(c, v)
    BY <1>1, <1>3, <2>1, <2>2, <2>3
       DEF Own, ImageOK, CacheOK, HeadOK, SaltBounded, Recovering, RestartSteps
  <2> QED
    BY <1>1, <1>2, <1>3, <1>6, <1>7, <2>4, OwnStepIdle
<1>5. CASE w.hdr # aHdr[0]
  <2>1. IF w.mode = "READ" THEN v.cache = None /\ v.changed = w.changed
        ELSE v.cache = w.cache /\ v.changed
    BY <1>2, <1>5 DEF WithHdr, Changed, WalObject
  <2> HIDE DEF v
  <2>2. ImageOK(c) /\ HeadOK
    BY DEF Known, ImageInv
  <2>3. Own(c, v)
    BY <1>1, <1>3, <2>1, <2>2
       DEF Own, ImageOK, CacheOK, HeadOK, SaltBounded, Recovering, RestartSteps, Kept
  <2> QED
    BY <1>1, <1>2, <1>3, <1>6, <1>7, <2>3, OwnStepIdle
<1> QED
  BY <1>4, <1>5

LEMMA HdrBusyImages ==
  ASSUME Known, WInv', NEW c \in Conn, hdr_busy(c)
  PROVE  ImageInv'
<1> DEFINE w == pWal[c]
           v == [w EXCEPT !.pc = "ck_return"]
<1>1. w.pc = "hdr" /\ pWal' = [pWal EXCEPT ![c] = v] /\ UNCHANGED <<files, shm, locks, bounds>>
  BY DEF hdr_busy, At, Goto
<1>2. w \in WalObject /\ w.txn = 0 /\ w.readLock = -1
  BY <1>1, AtHdr, ObjectTypes DEF Known, WInv
<1>3. /\ v.hdr = w.hdr /\ v.txn = 0 /\ v.cache = w.cache /\ v.changed = w.changed
      /\ v.mode = w.mode /\ v.readLock = -1 /\ v.pc = "ck_return"
  BY <1>2 DEF WalObject
<1> HIDE DEF v
<1>4. Own(c, v)
  BY <1>1, <1>2, <1>3, OwnSame DEF Recovering, RestartSteps
<1>5. UNCHANGED <<files, aHdr, nBackfill, aPgno, nTxn>>
  BY <1>1 DEF shm, bounds
<1> QED
  BY <1>1, <1>2, <1>3, <1>4, <1>5, OwnStepIdle

LEMMA RecoverMarksImages ==
  ASSUME Known, WInv', NEW c \in Conn, recover_marks(c)
  PROVE  ImageInv'
<1> DEFINE w == pWal[c]
           v == [Changed(w) EXCEPT !.pc = AfterHdr(c)]
<1>1. /\ w.pc = "recover_marks" /\ pWal' = [pWal EXCEPT ![c] = v]
      /\ UNCHANGED <<files, aHdr, nBackfill, aPgno, bounds>>
  BY DEF recover_marks, At
<1>2. w \in WalObject /\ w.txn = 0 /\ w.readLock = -1 /\ w.hdr = aHdr[0] /\ w.hdr # None
  <2>1. w.pc \in Recovering
    BY <1>1 DEF Recovering
  <2> QED
    BY <1>1, <2>1, AtRecovery DEF Known, RecoveryOK
<1>3. v.pc \in {"try", "ck_start"} /\ v.hdr = aHdr[0] /\ v.readLock = -1 /\ v.txn = 0 /\ v.mode = w.mode
  BY <1>2 DEF AfterHdr, Changed, WalObject
<1>4. IF w.mode = "READ" THEN v.cache = None /\ v.changed = w.changed
      ELSE v.cache = w.cache /\ v.changed
  BY <1>2 DEF Changed, WalObject
<1> HIDE DEF v
<1>5. ImageOK(c) /\ HeadOK
  BY DEF Known, ImageInv
<1>6. Own(c, v)
  BY <1>1, <1>2, <1>3, <1>4, <1>5
     DEF Own, ImageOK, CacheOK, HeadOK, SaltBounded, Recovering, RestartSteps, Kept
<1>7. UNCHANGED <<files, aHdr, nBackfill, aPgno, nTxn>>
  BY <1>1 DEF bounds
<1>8. v.pc = "try" \/ (PlanOK(c)' /\ StartOK(c)')
  BY <1>1, <1>2, <1>3, StartBegins DEF Known
<1> QED
  BY <1>1, <1>2, <1>3, <1>6, <1>7, <1>8, OwnStepIdle


LEMMA RetryImages ==
  ASSUME Known, WInv', NEW c \in Conn, pWal[c].pc \in {"try", "slot", "verify"}, Retry(c),
         UNCHANGED <<files, aHdr, nBackfill, aPgno, nTxn>>
  PROVE  ImageInv'
<1> DEFINE w == pWal[c]
           v == [w EXCEPT !.pc = IF w.txn # 0 THEN "rebegin" ELSE "hdr",
                          !.minFrame = 0, !.slot = 0, !.mark = 0]
<1>1. pWal' = [pWal EXCEPT ![c] = v]
  BY DEF Retry
<1>2. w \in WalObject /\ w.readLock = -1
  BY AtSlot, ObjectTypes DEF Known, WInv
<1>3. /\ v.hdr = w.hdr /\ v.txn = w.txn /\ v.cache = w.cache /\ v.changed = w.changed
      /\ v.mode = w.mode /\ v.readLock = -1 /\ v.pc \in {"rebegin", "hdr"}
  BY <1>2 DEF WalObject
<1> HIDE DEF v
<1>4. Own(c, v)
  BY <1>2, <1>3, OwnSame DEF Recovering, RestartSteps
<1> QED
  BY <1>1, <1>2, <1>3, <1>4, OwnStepIdle

LEMMA ChooseMarkImages ==
  ASSUME Known, WInv', NEW c \in Conn, choose_mark(c)
  PROVE  ImageInv'
<1> DEFINE w == pWal[c]
<1>1. /\ w.pc \in {"try", "rebegin"} /\ UNCHANGED <<files, aHdr, nBackfill, aPgno, nTxn>>
      /\ \E i, m : pWal' = [pWal EXCEPT ![c].pc = "slot", ![c].slot = i, ![c].mark = m]
  BY DEF choose_mark, At, bounds
<1>2. PICK i, m : pWal' = [pWal EXCEPT ![c].pc = "slot", ![c].slot = i, ![c].mark = m]
  BY <1>1
<1> DEFINE v == [w EXCEPT !.pc = "slot", !.slot = i, !.mark = m]
<1>3. pWal' = [pWal EXCEPT ![c] = v]
  BY <1>2
<1>4. w \in WalObject /\ w.readLock = -1
  BY <1>1, AtSlot, ObjectTypes DEF Known, WInv
<1>5. /\ v.hdr = w.hdr /\ v.txn = w.txn /\ v.cache = w.cache /\ v.changed = w.changed
      /\ v.mode = w.mode /\ v.readLock = -1 /\ v.pc = "slot"
  BY <1>4 DEF WalObject
<1> HIDE DEF v
<1>6. Own(c, v)
  BY <1>1, <1>4, <1>5, OwnSame DEF Recovering, RestartSteps
<1> QED
  BY <1>1, <1>3, <1>4, <1>5, <1>6, OwnStepIdle

\* Who may lock a slot finds no restart between its two steps.
LEMMA NoRestartNow ==
  ASSUME WInv, NEW c \in Conn, NEW i \in Slots, NotExclusive(c, READ_LOCK(i)),
         pWal[c].pc # "restart_reset"
  PROVE  ~Restarting
<1>1. ASSUME NEW d \in Conn, pWal[d].pc = "restart_reset" PROVE FALSE
  <2>1. READ_LOCK(i) \in exclusive[d]
    BY <1>1, AtRestart, LockNumbers DEF RestartSteps
  <2> QED
    BY <1>1, <2>1 DEF NotExclusive
<1> QED
  BY <1>1 DEF Restarting, At

LEMMA LockSlotImages ==
  ASSUME Known, WInv', NEW c \in Conn, lock_slot(c)
  PROVE  ImageInv'
<1> DEFINE w == pWal[c]
           v == [w EXCEPT !.pc = "verify", !.minFrame = nBackfill + 1]
<1>1. w.pc = "slot" /\ UNCHANGED <<files, aHdr, nBackfill, aPgno, nTxn>>
  BY DEF lock_slot, At, shm, bounds
<1>2. CASE Retry(c)
  BY <1>1, <1>2, RetryImages
<1>3. CASE ~Retry(c)
  <2>1. pWal' = [pWal EXCEPT ![c] = v] /\ NotExclusive(c, READ_LOCK(w.slot))
    BY <1>3 DEF lock_slot
  <2>2. w \in WalObject /\ w.readLock = -1 /\ w.slot \in Slots /\ aHdr[0] # None
    BY <1>1, AtSlot, ObjectTypes DEF Known, WInv
  <2>3. ~Restarting
    BY <1>1, <2>1, <2>2, NoRestartNow DEF Known
  <2>4. /\ v.hdr = w.hdr /\ v.txn = w.txn /\ v.cache = w.cache /\ v.changed = w.changed
        /\ v.mode = w.mode /\ v.readLock = -1 /\ v.pc = "verify" /\ v.minFrame = nBackfill + 1
    BY <2>2 DEF WalObject
  <2> HIDE DEF v
  <2>5. Backfilled(db, wal, v.minFrame - 1, aHdr[0].mxFrame)
    <3>1. nBackfill \in Nat
      BY Numbers DEF Known, WInv, SharedTyped
    <3>2. v.minFrame - 1 = nBackfill
      BY <2>4, <3>1
    <3> QED
      BY <2>2, <2>3, <3>2 DEF Known, ImageInv, HeadOK
  <2>6. ImageOK(c)
    BY DEF Known, ImageInv
  <2>7. /\ SaltBounded(v.hdr) /\ (v.changed => v.mode # "READ") /\ (Kept(v) => Stands(v.hdr, v.cache))
        /\ v.cache # None => v.hdr # None /\ v.txn = 0 /\ aHdr[0] # None
    BY <1>1, <2>4, <2>6 DEF ImageOK, SaltOK, CacheOK, Kept, Recovering
  <2>8. v.txn # 0 => Indexed(aPgno, wal, v.hdr.mxFrame) /\ v.hdr.salt \in {aHdr[0].salt, v.txn}
    BY <1>1, <2>4, <2>6 DEF ImageOK, SaltOK, IndexOK, RestartSteps
  <2>9. Own(c, v)
    BY <2>4, <2>5, <2>7, <2>8 DEF Own, Recovering, RestartSteps
  <2>10. /\ UNCHANGED <<db, wal, walHdr, nBackfill, aHdr, aPgno, nTxn>>
         /\ walHdrOlder' \subseteq walHdrOlder /\ walTruncated' \subseteq walTruncated
    BY <1>1 DEF files
  <2> QED
    BY <1>1, <2>1, <2>3, <2>4, <2>9, <2>10, OwnStep
<1> QED
  BY <1>2, <1>3


\* A log that is all in the database, for who takes it from there.
LEMMA HeadIsDb ==
  ASSUME Known, aHdr[0] # None, nBackfill = aHdr[0].mxFrame
  PROVE  HeadImage = db
<1>1. /\ aHdr[0].mxFrame \in Nat /\ Written(wal, aHdr[0].mxFrame) /\ db \in Image /\ WInv
      /\ HeadOK
  BY LogWritten DEF Known, ImageInv
<1>2. CASE Restarting
  <2>1. PICK d \in Conn : pWal[d].pc = "restart_reset"
    BY <1>2 DEF Restarting, At
  <2>2. aHdr[0].mxFrame = 0
    BY <1>1, <2>1 DEF WInv, ConnOK, RestartOK, RestartSteps
  <2> QED
    BY <1>1, <2>2, EmptyLog DEF HeadImage, Image
<1>3. CASE ~Restarting
  <2>1. Backfilled(db, wal, aHdr[0].mxFrame, aHdr[0].mxFrame)
    BY <1>1, <1>3 DEF HeadOK
  <2> QED
    BY <1>1, <2>1, AllInFile DEF HeadImage, Image
<1> QED
  BY <1>2, <1>3

\* A header that ends before the log begins stands for the database.
LEMMA FitsEmpty ==
  ASSUME WInv, NEW h, h.mxFrame = 0
  PROVE  FitsFile(h, db)
<1>1. ASSUME walHdr # None, FoundEnd = 0 PROVE FoundImage = db
  BY <1>1, EmptyLog DEF WInv, FilesTyped, FoundImage, Image
<1>2. walHdr # None => 0 <= FoundEnd
  BY EndFound, Numbers DEF FoundEnd
<1> QED
  BY <1>1, <1>2 DEF FitsFile

LEMMA HeadStands ==
  ASSUME Known, aHdr[0] # None, HeadImage = db
  PROVE  Stands(aHdr[0], db)
<1>1. OldSalt(aHdr[0])
  BY HeadSalt
<1>2. FitsHead(aHdr[0], db)
  BY LogWritten DEF Known, FitsHead
<1>3. FitsFile(aHdr[0], db)
  <2>1. CASE aHdr[0].mxFrame = 0
    BY <2>1, FitsEmpty DEF Known
  <2>2. CASE aHdr[0].mxFrame # 0
    BY <2>2 DEF FitsFile
  <2> QED
    BY <2>1, <2>2
<1> QED
  BY <1>1, <1>2, <1>3 DEF Stands

LEMMA ReadWithoutWalImages ==
  ASSUME Known, WInv', NEW c \in Conn, read_without_wal(c)
  PROVE  ImageInv'
<1> DEFINE w == pWal[c]
           v == Begun(w, 0)
<1>1. w.pc = "try" /\ nBackfill = w.hdr.mxFrame /\ UNCHANGED <<files, aHdr, nBackfill, aPgno, nTxn>>
  BY DEF read_without_wal, At, AllBackfilled, shm, bounds
<1>2. CASE Retry(c)
  BY <1>1, <1>2, RetryImages
<1>3. CASE ~Retry(c)
  <2>1. pWal' = [pWal EXCEPT ![c] = v] /\ aHdr[0] = w.hdr
    BY <1>3 DEF read_without_wal
  <2>2. w \in WalObject /\ w.txn = 0 /\ aHdr[0] # None /\ w.mode = "READ"
    BY <1>1, AtSlot, AtHdr, ObjectTypes DEF Known, WInv
  <2>3. HeadImage = db
    BY <1>1, <2>1, <2>2, HeadIsDb
  <2>4. /\ v.hdr = aHdr[0] /\ v.txn = 0 /\ v.cache = w.cache /\ v.changed = w.changed
        /\ v.mode = "READ" /\ v.readLock = 0 /\ v.pc = "reading"
    BY <2>1, <2>2 DEF WalObject, Begun
  <2> HIDE DEF v
  <2>5. ImageOK(c)
    BY DEF Known, ImageInv
  <2>6. ~w.changed
    BY <2>2, <2>5 DEF ImageOK, CacheOK
  <2>7. w.cache # None => w.cache = db
    <3>1. w.cache # None => Stands(w.hdr, w.cache)
      BY <1>1, <2>5, <2>6 DEF ImageOK, CacheOK, Kept, Recovering
    <3> QED
      BY <2>1, <2>3, <3>1 DEF Stands, FitsHead
  <2>8. Stands(v.hdr, db)
    BY <2>2, <2>3, <2>4, HeadStands
  <2>9. SaltBounded(v.hdr)
    BY <2>1, <2>4, <2>5 DEF ImageOK, SaltOK
  <2>10. Own(c, v)
    BY <2>2, <2>4, <2>6, <2>7, <2>8, <2>9 DEF Own, Recovering, RestartSteps, Kept
  <2>11. /\ UNCHANGED <<db, wal, walHdr, nBackfill, aHdr, aPgno, nTxn>>
         /\ walHdrOlder' \subseteq walHdrOlder /\ walTruncated' \subseteq walTruncated
    BY <1>1 DEF files
  <2>12. /\ ~(v.pc = "verify" \/ v.readLock > 0) /\ v.txn \in {0, w.txn}
         /\ v.pc \notin {"ck_start", "ck_slots", "ck_lock", "ck_copy"}
         /\ w.pc \notin {"restart_publish", "restart_reset"}
    BY <1>1, <2>4
  <2> QED
    BY <2>1, <2>10, <2>11, <2>12, OwnStep
<1> QED
  BY <1>2, <1>3

LEMMA VerifySlotImages ==
  ASSUME Known, WInv', NEW c \in Conn, verify_slot(c)
  PROVE  ImageInv'
<1> DEFINE w == pWal[c]
           u == [w EXCEPT !.readLock = w.slot]
           v == IF u.txn = 0 THEN Begun(u, u.slot)
                ELSE [u EXCEPT !.pc = FrameStep(u), !.slot = 0, !.mark = 0]
<1>1. w.pc = "verify" /\ UNCHANGED <<files, aHdr, nBackfill, aPgno, nTxn>>
  BY DEF verify_slot, At, shm, bounds
<1>2. CASE Retry(c)
  BY <1>1, <1>2, RetryImages
<1>3. CASE ~Retry(c)
  <2>1. pWal' = [pWal EXCEPT ![c] = v] /\ aHdr[0] = w.hdr
    BY <1>3 DEF verify_slot, SnapshotStands
  <2>2. w \in WalObject /\ aHdr[0] # None /\ w.mode = "READ" /\ w.slot \in Slots
    BY <1>1, AtSlot, ObjectTypes DEF Known, WInv
  <2>3. /\ u.txn = w.txn /\ u.slot = w.slot /\ u.readLock = w.slot /\ w.slot # 0 /\ w.slot > 0
        /\ u.hdr = aHdr[0] /\ u \in WalObject
    BY <2>1, <2>2 DEF WalObject, Slots
  <2>4. FrameStep(u) \in {"header", "frame"}
    BY <2>3 DEF FrameStep
  <2>5. /\ v.hdr = aHdr[0] /\ v.txn = w.txn /\ v.cache = w.cache /\ v.changed = w.changed
        /\ v.mode = "READ" /\ v.readLock = w.slot /\ v.minFrame = w.minFrame
        /\ IF w.txn = 0 THEN v.pc = "reading" ELSE v.pc \in {"header", "frame"}
    <3>1. CASE w.txn = 0
      BY <2>1, <2>2, <2>3, <3>1 DEF WalObject, Begun
    <3>2. CASE w.txn # 0
      BY <2>1, <2>2, <2>3, <2>4, <3>2 DEF WalObject
    <3> QED
      BY <3>1, <3>2
  <2> HIDE DEF v
  <2>6. ImageOK(c)
    BY DEF Known, ImageInv
  <2>7. ~w.changed
    BY <2>2, <2>6 DEF ImageOK, CacheOK
  <2>8. w.cache # None => w.cache = HeadImage /\ Stands(w.hdr, w.cache) /\ w.txn = 0
    <3>1. w.cache # None => Stands(w.hdr, w.cache) /\ w.txn = 0
      BY <1>1, <2>6, <2>7 DEF ImageOK, CacheOK, Kept, Recovering
    <3> QED
      BY <2>1, <3>1 DEF Stands, FitsHead
  <2>9. SaltBounded(v.hdr) /\ Backfilled(db, wal, v.minFrame - 1, aHdr[0].mxFrame)
    BY <1>1, <2>1, <2>5, <2>6 DEF ImageOK, SaltOK, MarkOK
  <2>10. v.txn # 0 => Indexed(aPgno, wal, v.hdr.mxFrame) /\ v.hdr.salt \in {aHdr[0].salt, v.txn}
    BY <1>1, <2>1, <2>5, <2>6 DEF ImageOK, SaltOK, IndexOK, RestartSteps
  <2>11. Own(c, v)
    BY <2>1, <2>2, <2>3, <2>5, <2>7, <2>8, <2>9, <2>10 DEF Own, Recovering, RestartSteps, Kept
  <2>12. /\ UNCHANGED <<db, wal, walHdr, nBackfill, aHdr, aPgno, nTxn>>
         /\ walHdrOlder' \subseteq walHdrOlder /\ walTruncated' \subseteq walTruncated
    BY <1>1 DEF files
  <2>13. Relies(c)
    BY <1>1 DEF Relies
  <2>14. v.pc \notin {"ck_start", "ck_slots", "ck_lock", "ck_copy"} /\ v.txn \in {0, w.txn}
    BY <2>5
  <2> QED
    BY <1>1, <2>1, <2>5, <2>11, <2>12, <2>13, <2>14, OwnStep
<1> QED
  BY <1>2, <1>3


LEMMA EndReadImages ==
  ASSUME Known, WInv', NEW c \in Conn, sqlite3WalEndReadTransaction(c)
  PROVE  ImageInv'
<1> DEFINE w == pWal[c]
           v == [w EXCEPT !.pc = "idle", !.readLock = -1, !.minFrame = 0, !.cache = ReadView(c)]
<1>1. /\ w.pc = "reading" /\ w.txn = 0 /\ UNCHANGED <<files, aHdr, nBackfill, aPgno, nTxn>>
      /\ pWal' = [pWal EXCEPT ![c] = v]
  BY DEF sqlite3WalEndReadTransaction, At, shm, bounds
<1>2. /\ w \in WalObject /\ aHdr[0] # None /\ w.mode = "READ" /\ w.readLock \in 0 .. NSlot
      /\ w.hdr # None /\ w.hdr.mxFrame \in Nat
  BY <1>1, AtReading, ObjectTypes, Numbers DEF Known, WInv
<1>3. /\ v.hdr = w.hdr /\ v.txn = 0 /\ v.cache = ReadView(c) /\ v.changed = w.changed
      /\ v.mode = "READ" /\ v.readLock = -1 /\ v.pc = "idle"
  BY <1>1, <1>2 DEF WalObject
<1> HIDE DEF v
<1>4. ImageOK(c) /\ HeadOK /\ WInv
  BY DEF Known, ImageInv
<1>5. Stands(w.hdr, ReadView(c))
  <2>1. OldSalt(w.hdr)
    BY <1>1, <1>4 DEF ImageOK, CacheOK
  <2>2. CASE w.readLock = 0
    <3>1. ReadView(c) = db
      BY <2>2 DEF ReadView
    <3> QED
      BY <1>1, <1>4, <2>2, <3>1 DEF ImageOK, CacheOK
  <2>3. CASE w.readLock # 0
    <3>1. w.readLock > 0
      BY <1>2, <2>3
    <3>2. ReadView(c) = LogImage(db, wal, w.hdr.mxFrame) /\ w.hdr.mxFrame <= aHdr[0].mxFrame
      BY <1>1, <1>4, <3>1, ReaderImage DEF ImageOK
    <3>3. FitsHead(w.hdr, ReadView(c))
      BY <3>2 DEF FitsHead, HeadImage
    <3>4. CASE aHdr[0].mxFrame = 0
      <4>1. w.hdr.mxFrame = 0
        BY <1>2, <3>2, <3>4
      <4>2. ReadView(c) = db
        BY <1>4, <3>2, <4>1, EmptyLog DEF WInv, FilesTyped, Image
      <4> QED
        BY <1>4, <2>1, <3>3, <4>1, <4>2, FitsEmpty DEF Stands
    <3>5. CASE aHdr[0].mxFrame # 0
      BY <2>1, <3>3, <3>5 DEF Stands, FitsFile
    <3> QED
      BY <3>4, <3>5
  <2> QED
    BY <2>2, <2>3
<1>6. SaltBounded(v.hdr) /\ ~v.changed
  BY <1>2, <1>3, <1>4 DEF ImageOK, SaltOK, CacheOK
<1>7. Own(c, v)
  BY <1>2, <1>3, <1>5, <1>6 DEF Own, Recovering, RestartSteps, Kept
<1> QED
  BY <1>1, <1>3, <1>7, OwnStepIdle

LEMMA BeginWriteImages ==
  ASSUME Known, WInv', NEW c \in Conn, sqlite3WalBeginWriteTransaction(c)
  PROVE  ImageInv'
<1> DEFINE w == pWal[c]
           v == [w EXCEPT !.txn = nTxn + 1, !.cache = None]
<1>1. /\ w.pc = "reading" /\ w.txn = 0 /\ UNCHANGED <<files, shm>> /\ nTxn' = nTxn + 1
      /\ pWal' = [pWal EXCEPT ![c] = v] /\ aHdr[0] = w.hdr
  BY DEF sqlite3WalBeginWriteTransaction, At
<1>2. /\ w \in WalObject /\ aHdr[0] # None /\ w.mode = "READ" /\ w.readLock \in 0 .. NSlot
  BY <1>1, AtReading, ObjectTypes, Numbers DEF Known, WInv
<1>3. /\ v.hdr = w.hdr /\ v.txn = nTxn + 1 /\ v.cache = None /\ v.changed = w.changed
      /\ v.mode = "READ" /\ v.readLock = w.readLock /\ v.pc = "reading" /\ v.minFrame = w.minFrame
  BY <1>1, <1>2 DEF WalObject
<1> HIDE DEF v
<1>4. ImageOK(c) /\ HeadOK /\ WInv /\ nTxn \in Nat /\ aHdr[0].salt \in Nat
  BY <1>2, Salts, LogWritten DEF Known, ImageInv
<1>5. pWal'[c] = v /\ \A d \in Conn \ {c} : pWal'[d] = pWal[d]
  BY <1>1, ObjectTypes DEF Known, WInv
<1>6. Still(c)
  BY <1>1, <1>3, <1>5 DEF Still, files, shm, Relies
<1>7. Own(c, v)
  <2>1. aHdr[0].salt <= nTxn /\ Indexed(aPgno, wal, aHdr[0].mxFrame)
    BY <1>2, <1>4 DEF HeadOK
  <2>2. w.readLock > 0 => Backfilled(db, wal, w.minFrame - 1, aHdr[0].mxFrame)
    BY <1>1, <1>4 DEF ImageOK, MarkOK, Last
  <2>3. SaltBounded(w.hdr) /\ ~w.changed
    BY <1>2, <1>4 DEF ImageOK, SaltOK, CacheOK
  <2>4. aHdr[0].salt # v.txn /\ v.txn # 0
    BY <1>3, <1>4, <2>1
  <2>5. w.readLock = 0 => Stands(w.hdr, db)
    BY <1>1, <1>4 DEF ImageOK, CacheOK
  <2> QED
    BY <1>1, <1>2, <1>3, <2>1, <2>2, <2>3, <2>4, <2>5 DEF Own, Recovering, RestartSteps, Kept
<1>8. PlanOK(c)' /\ StartOK(c)' /\ aPgno' = aPgno
  BY <1>1, <1>3, <1>5 DEF PlanOK, StartOK, At, Copies, shm
<1>9. ImageOK(c)'
  BY <1>5, <1>6, <1>7, <1>8, OwnKeeps
<1>10. NotEmpty'
  BY <1>1, <1>6, NotEmptyStays DEF shm
<1> QED
  BY <1>6, <1>9, <1>10, StillKeeps

LEMMA WalFramesImages ==
  ASSUME Known, WInv', NEW c \in Conn, NEW p \in Page, NEW commit \in BOOLEAN,
         walFrames(c, p, commit)
  PROVE  ImageInv'
<1> DEFINE w == pWal[c]
           v == [w EXCEPT !.pc = FrameStep(w), !.page = p, !.commit = commit]
<1>1. /\ w.pc = "reading" /\ w.txn # 0 /\ UNCHANGED <<files, aHdr, nBackfill, aPgno, nTxn>>
      /\ pWal' = [pWal EXCEPT ![c] = v]
  BY DEF walFrames, At, shm, bounds
<1>2. w \in WalObject
  BY ObjectTypes DEF Known, WInv
<1>3. /\ v.hdr = w.hdr /\ v.txn = w.txn /\ v.cache = w.cache /\ v.changed = w.changed
      /\ v.mode = w.mode /\ v.readLock = w.readLock /\ v.minFrame = w.minFrame
      /\ v.pc \in {"restart", "header", "frame"} /\ (v.pc = "restart" => w.readLock = 0)
  BY <1>2 DEF WalObject, FrameStep
<1> HIDE DEF v
<1>4. Own(c, v)
  BY <1>1, <1>3, OwnSame DEF Recovering, RestartSteps
<1>5. /\ UNCHANGED <<db, wal, walHdr, nBackfill, aHdr, aPgno, nTxn>>
      /\ walHdrOlder' \subseteq walHdrOlder /\ walTruncated' \subseteq walTruncated
  BY <1>1 DEF files
<1>6. v.pc = "verify" \/ v.readLock > 0 => Relies(c) /\ v.minFrame = w.minFrame
  BY <1>3 DEF Relies
<1> QED
  BY <1>1, <1>3, <1>4, <1>5, <1>6, OwnStep

LEMMA RestartNotPossibleImages ==
  ASSUME Known, WInv', NEW c \in Conn, restart_not_possible(c)
  PROVE  ImageInv'
<1> DEFINE w == pWal[c]
           v == [w EXCEPT !.pc = "rebegin", !.readLock = -1]
<1>1. /\ w.pc = "restart" /\ UNCHANGED <<files, aHdr, nBackfill, aPgno, nTxn>>
      /\ pWal' = [pWal EXCEPT ![c] = v]
  BY DEF restart_not_possible, At, shm, bounds
<1>2. w \in WalObject
  BY ObjectTypes DEF Known, WInv
<1>3. /\ v.hdr = w.hdr /\ v.txn = w.txn /\ v.cache = w.cache /\ v.changed = w.changed
      /\ v.mode = w.mode /\ v.readLock = -1 /\ v.pc = "rebegin"
  BY <1>2 DEF WalObject
<1> HIDE DEF v
<1>4. Own(c, v)
  BY <1>1, <1>3, OwnSame DEF Recovering, RestartSteps
<1> QED
  BY <1>1, <1>3, <1>4, OwnStepIdle


LEMMA RestartMarksImages ==
  ASSUME Known, WInv', NEW c \in Conn, restart_marks(c)
  PROVE  ImageInv'
<1> DEFINE w == pWal[c]
           v == [w EXCEPT !.pc = "rebegin", !.readLock = -1]
<1>1. /\ w.pc = "restart_marks" /\ w.mode = "READ" /\ UNCHANGED <<files, aHdr, nBackfill, aPgno, nTxn>>
      /\ pWal' = [pWal EXCEPT ![c] = v]
  BY DEF restart_marks, RestartMarks, At, bounds
<1>2. w \in WalObject /\ w.hdr = aHdr[0] /\ w.hdr.mxFrame = 0 /\ aHdr[0] # None
  BY <1>1, AtRestart DEF Known, RestartSteps, RestartOK
<1>3. /\ v.hdr = w.hdr /\ v.txn = w.txn /\ v.cache = w.cache /\ v.changed = w.changed
      /\ v.mode = w.mode /\ v.readLock = -1 /\ v.pc = "rebegin"
  BY <1>2 DEF WalObject
<1> HIDE DEF v
<1>4. ImageOK(c)
  BY DEF Known, ImageInv
<1>5. Indexed(aPgno, wal, v.hdr.mxFrame)
  BY <1>2, <1>3 DEF Indexed
<1>6. Own(c, v)
  BY <1>1, <1>2, <1>3, <1>4, <1>5
     DEF Own, ImageOK, CacheOK, SaltOK, Recovering, RestartSteps, Kept
<1> QED
  BY <1>1, <1>3, <1>6, OwnStepIdle

LEMMA SyncImages ==
  ASSUME Known, WInv', NEW c \in Conn, NEW label \in {"frame", "append"},
         pWal[c].pc \in {"sync_header", "sync_frame"}, SyncWal, Goto(c, label),
         UNCHANGED <<shm, bounds>>
  PROVE  ImageInv'
<1> DEFINE w == pWal[c]
           v == [w EXCEPT !.pc = label]
<1>1. pWal' = [pWal EXCEPT ![c] = v]
  BY DEF Goto
<1>2. w \in WalObject
  BY ObjectTypes DEF Known, WInv
<1>3. /\ v.hdr = w.hdr /\ v.txn = w.txn /\ v.cache = w.cache /\ v.changed = w.changed
      /\ v.mode = w.mode /\ v.readLock = w.readLock /\ v.pc = label /\ v.minFrame = w.minFrame
  BY <1>2 DEF WalObject
<1> HIDE DEF v
<1>4. Own(c, v)
  BY <1>3, OwnSame DEF Recovering, RestartSteps
<1>5. /\ UNCHANGED <<db, wal, walHdr, nBackfill, aHdr, aPgno, nTxn>>
      /\ walHdrOlder' \subseteq walHdrOlder /\ walTruncated' \subseteq walTruncated
  BY DEF SyncWal, shm, bounds
<1>6. v.pc = "verify" \/ v.readLock > 0 => Relies(c) /\ v.minFrame = w.minFrame
  BY <1>3 DEF Relies
<1> QED
  BY <1>1, <1>3, <1>4, <1>5, <1>6, OwnStep

-----------------------------------------------------------------------------
(* The steps of checkpointers *)

LEMMA StartStays ==
  ASSUME WInv, NEW c \in Conn, NEW v, pWal' = [pWal EXCEPT ![c] = v], nBackfill' = nBackfill,
         StartOK(c), At(c, "ck_start") \/ Copies(c), v.hdr = pWal[c].hdr, v.readLock = -1,
         v.pc \notin {"verify", "restart_reset"}
  PROVE  StartOK(c)'
<1>1. pWal'[c] = v /\ \A d \in Conn \ {c} : pWal'[d] = pWal[d]
  BY ObjectTypes DEF WInv
<1>2. Restarting' = Restarting
  BY <1>1 DEF Restarting, At, Copies
<1>3. \A e \in Conn : Relies(e)' => Relies(e) /\ pWal'[e] = pWal[e]
  BY <1>1 DEF Relies
<1> QED
  BY <1>1, <1>2, <1>3 DEF StartOK

\* What a checkpointer plans is the newest version of each page that is safe and
\* not in the database yet.
LEMMA PlanIs ==
  ASSUME WInv, HeadOK, NEW c \in Conn, pWal[c].hdr # None, aHdr[0] # None,
         pWal[c].hdr.mxFrame <= aHdr[0].mxFrame, NEW m \in 0 .. pWal[c].hdr.mxFrame
  PROVE  /\ \A k \in Plan(c, m) : k > nBackfill /\ NewestIn(wal, k, pWal[c].hdr.mxFrame)
         /\ \A k \in nBackfill + 1 .. m :
              NewestIn(wal, k, pWal[c].hdr.mxFrame) => k \in Plan(c, m)
<1> DEFINE n == pWal[c].hdr.mxFrame
           S(p) == {0} \cup {k \in nBackfill + 1 .. n : aPgno[k] = p}
<1>1. n \in Nat /\ nBackfill \in Nat /\ aHdr[0].mxFrame \in Nat /\ n <= aHdr[0].mxFrame
  BY ObjectTypes, LogWritten, Numbers DEF WInv, SharedTyped
<1>2. \A k \in 1 .. n : aPgno[k] = wal[k].pgno /\ wal[k].pgno \in Page
  BY <1>1, LogWritten DEF HeadOK, Indexed, Written
<1>3. ASSUME NEW p \in Page
      PROVE  Max(S(p)) \in S(p) /\ \A k \in S(p) : k <= Max(S(p))
  <2>1. S(p) \in SUBSET Nat /\ S(p) # {} /\ \A x \in S(p) : x <= n
    BY <1>1
  <2> HIDE DEF S
  <2> QED
    BY <1>1, <2>1, LeastAndGreatest
<1>4. Plan(c, m) = {k \in {Max(S(p)) : p \in Page} : k > 0 /\ k <= m}
  BY DEF Plan
<1>5. ASSUME NEW k \in Plan(c, m) PROVE k > nBackfill /\ NewestIn(wal, k, n)
  <2>1. PICK p \in Page : k = Max(S(p)) /\ k > 0
    BY <1>4, <1>5
  <2>2. k \in nBackfill + 1 .. n /\ aPgno[k] = p /\ \A j \in S(p) : j <= k
    BY <1>3, <2>1
  <2>3. ASSUME NEW j \in k + 1 .. n PROVE wal[j].pgno # wal[k].pgno
    <3>1. j \in nBackfill + 1 .. n /\ j > k /\ j \in 1 .. n /\ k \in 1 .. n
      BY <1>1, <2>2, <2>3
    <3>2. aPgno[j] # p
      BY <1>1, <2>2, <3>1
    <3> QED
      BY <1>2, <2>2, <3>1, <3>2
  <2> QED
    BY <1>1, <2>2, <2>3 DEF NewestIn
<1>6. ASSUME NEW k \in nBackfill + 1 .. m, NewestIn(wal, k, n) PROVE k \in Plan(c, m)
  <2> DEFINE p == wal[k].pgno
  <2>1. k \in 1 .. n /\ k \in S(p) /\ p \in Page /\ k <= m
    BY <1>1, <1>2, <1>6
  <2>2. Max(S(p)) \in S(p) /\ k <= Max(S(p))
    BY <1>3, <2>1
  <2>3. ~(k < Max(S(p)))
    <3>1. ASSUME k < Max(S(p)) PROVE FALSE
      <4>1. Max(S(p)) \in k + 1 .. n /\ aPgno[Max(S(p))] = p /\ Max(S(p)) \in 1 .. n
        BY <1>1, <2>1, <2>2, <3>1
      <4> QED
        BY <1>2, <1>6, <4>1 DEF NewestIn
    <3> QED
      BY <3>1
  <2>4. k = Max(S(p))
    <3>1. Max(S(p)) \in Nat
      BY <1>1, <2>2
    <3> QED
      BY <1>1, <2>1, <2>2, <2>3, <3>1
  <2>5. \E q \in Page : k = Max(S(q))
    BY <2>1, <2>4
  <2>6. k > 0
    BY <2>1
  <2> HIDE DEF S, p
  <2> QED
    BY <1>4, <2>1, <2>5, <2>6
<1> QED
  BY <1>5, <1>6


LEMMA BeginCheckpointImages ==
  ASSUME Known, WInv', NEW c \in Conn, NEW mode \in Modes, sqlite3WalCheckpoint(c, mode)
  PROVE  ImageInv'
<1> DEFINE w == pWal[c]
           own == mode # "PASSIVE" /\ Unlocked(c, {WRITE})
           v == [w EXCEPT !.pc = "hdr", !.mode = IF own THEN mode ELSE "PASSIVE"]
<1>1. /\ w.pc = "idle" /\ UNCHANGED <<files, aHdr, nBackfill, aPgno, nTxn>>
      /\ pWal' = [pWal EXCEPT ![c] = v]
  BY DEF sqlite3WalCheckpoint, At, shm, bounds
<1>2. w \in WalObject /\ w.txn = 0 /\ w.readLock = -1 /\ w.mode = "READ"
  BY <1>1, AtHdr, ObjectTypes DEF Known, WInv
<1>3. /\ v.hdr = w.hdr /\ v.txn = 0 /\ v.cache = w.cache /\ v.changed = w.changed
      /\ v.readLock = -1 /\ v.pc = "hdr"
  BY <1>2 DEF WalObject
<1> HIDE DEF v
<1>4. ImageOK(c)
  BY DEF Known, ImageInv
<1>5. Own(c, v)
  BY <1>1, <1>2, <1>3, <1>4
     DEF Own, ImageOK, CacheOK, SaltOK, Recovering, RestartSteps, Kept
<1> QED
  BY <1>1, <1>2, <1>3, <1>5, OwnStepIdle

LEMMA CheckpointStartImages ==
  ASSUME Known, WInv', NEW c \in Conn, ck_start(c)
  PROVE  ImageInv'
<1> DEFINE w == pWal[c]
           label == IF nBackfill < w.hdr.mxFrame THEN "ck_slots" ELSE "ck_end"
           v == [w EXCEPT !.pc = label, !.slot = 1, !.mxSafe = w.hdr.mxFrame]
<1>1. /\ w.pc = "ck_start" /\ UNCHANGED <<files, aHdr, nBackfill, aPgno, nTxn>>
      /\ pWal' = [pWal EXCEPT ![c] = v]
  BY DEF ck_start, At, shm, bounds
<1>2. w \in WalObject /\ w.txn = 0 /\ w.readLock = -1
  BY <1>1, AtCheckpoint DEF Known, CheckpointSteps
<1>3. /\ v.hdr = w.hdr /\ v.txn = w.txn /\ v.cache = w.cache /\ v.changed = w.changed
      /\ v.mode = w.mode /\ v.readLock = -1 /\ v.pc \in {"ck_slots", "ck_end"}
  BY <1>2 DEF WalObject
<1> HIDE DEF v
<1>4. Own(c, v)
  BY <1>1, <1>2, <1>3, OwnSame DEF Recovering, RestartSteps
<1>5. PlanOK(c)' /\ StartOK(c)'
  <2>1. StartOK(c) /\ At(c, "ck_start") /\ WInv
    BY <1>1 DEF Known, ImageInv, ImageOK, At
  <2>2. pWal'[c] = v
    BY <1>1, ObjectTypes DEF Known, WInv
  <2> QED
    BY <1>1, <1>3, <2>1, <2>2, StartStays DEF PlanOK
<1> QED
  BY <1>1, <1>2, <1>3, <1>4, <1>5, OwnStepIdle

LEMMA CheckpointSlotImages ==
  ASSUME Known, WInv', NEW c \in Conn, ck_slot(c)
  PROVE  ImageInv'
<1> DEFINE w == pWal[c]
<1>1. w.pc = "ck_slots" /\ UNCHANGED <<files, aHdr, nBackfill, aPgno, nTxn>>
  BY DEF ck_slot, At, bounds
<1> DEFINE below == aReadMark[w.slot] < w.mxSafe
           safe == IF below /\ InUse(c, w.slot) THEN aReadMark[w.slot] ELSE w.mxSafe
           last == w.slot = NSlot
           copies == last /\ nBackfill < safe
           slot == IF last THEN 0 ELSE w.slot + 1
           label == IF ~last THEN w.pc ELSE IF copies THEN "ck_lock" ELSE "ck_end"
           plan == IF copies THEN Plan(c, safe) ELSE {}
           v == [w EXCEPT !.mxSafe = safe, !.slot = slot, !.pc = label, !.plan = plan]
<1>3. pWal' = [pWal EXCEPT ![c] = v]
  <2>1. pWal' = [pWal EXCEPT ![c].mxSafe = safe, ![c].slot = slot, ![c].pc = label,
                             ![c].plan = plan]
    BY DEF ck_slot
  <2> QED
    BY <2>1
<1>2. /\ safe = w.mxSafe \/ (safe = aReadMark[w.slot] /\ safe < w.mxSafe)
      /\ label \in {w.pc, "ck_lock", "ck_end"}
      /\ label = "ck_lock" => w.pc = "ck_lock" \/ plan = Plan(c, safe)
  <2> HIDE DEF plan
  <2>1. copies => plan = Plan(c, safe)
    BY DEF plan
  <2> QED
    BY <2>1
<1>4. /\ w \in WalObject /\ w.txn = 0 /\ w.readLock = -1 /\ w.hdr # None /\ aHdr[0] # None
      /\ w.slot \in Slots /\ w.mxSafe <= w.hdr.mxFrame /\ w.hdr.mxFrame <= aHdr[0].mxFrame
  BY <1>1, AtCheckpoint DEF Known, CheckpointSteps, CheckpointOK, Copies
<1>5. /\ v.hdr = w.hdr /\ v.txn = w.txn /\ v.cache = w.cache /\ v.changed = w.changed
      /\ v.mode = w.mode /\ v.readLock = -1 /\ v.pc = label /\ v.plan = plan /\ v.mxSafe = safe
  <2> HIDE DEF safe, slot, label, plan
  <2> QED
    BY <1>4 DEF WalObject
<1> HIDE DEF v, safe, slot, label, plan
<1>6. Own(c, v)
  BY <1>1, <1>2, <1>4, <1>5, OwnSame DEF Recovering, RestartSteps
<1>7. StartOK(c)'
  <2>1. StartOK(c) /\ Copies(c) /\ WInv
    BY <1>1 DEF Known, ImageInv, ImageOK, Copies
  <2> QED
    BY <1>1, <1>2, <1>3, <1>5, <2>1, StartStays
<1>8. PlanOK(c)'
  <2>1. pWal'[c] = v
    BY <1>3, ObjectTypes DEF Known, WInv
  <2>2. safe \in 0 .. w.hdr.mxFrame
    <3>1. w.mxSafe \in Nat /\ w.hdr.mxFrame \in Nat /\ aReadMark[w.slot] \in Nat
      BY <1>4, ObjectTypes, Numbers DEF Known, WInv, SharedTyped, READMARK_NOT_USED
    <3> QED
      BY <1>2, <1>4, <3>1
  <2>3. /\ \A k \in Plan(c, safe) : k > nBackfill /\ NewestIn(wal, k, w.hdr.mxFrame)
        /\ \A k \in nBackfill + 1 .. safe :
             NewestIn(wal, k, w.hdr.mxFrame) => k \in Plan(c, safe)
    BY <1>4, <2>2, PlanIs DEF Known, ImageInv
  <2>4. UNCHANGED <<db, wal, nBackfill>>
    BY <1>1 DEF files
  <2>5. v.pc = "ck_lock" => v.plan = Plan(c, safe)
    BY <1>1, <1>2, <1>5
  <2>6. v.pc # "ck_copy"
    BY <1>1, <1>2, <1>5
  <2> QED
    BY <1>5, <2>1, <2>3, <2>4, <2>5, <2>6 DEF PlanOK
<1> QED
  BY <1>1, <1>2, <1>3, <1>4, <1>5, <1>6, <1>7, <1>8, OwnStepIdle

LEMMA CheckpointLockImages ==
  ASSUME Known, WInv', NEW c \in Conn, ck_lock(c)
  PROVE  ImageInv'
<1> DEFINE w == pWal[c]
<1>1. /\ w.pc = "ck_lock" /\ UNCHANGED <<db, wal, walHdr, nBackfill, aHdr, aPgno, nTxn>>
      /\ walHdrOlder' \subseteq walHdrOlder /\ walTruncated' \subseteq walTruncated
  BY DEF ck_lock, At, SyncBeforeCopy, SyncWal, files, shm, bounds
<1>2. w \in WalObject /\ w.txn = 0 /\ w.readLock = -1 /\ w.hdr # None /\ aHdr[0] # None
  BY <1>1, AtCheckpoint DEF Known, CheckpointSteps
<1>3. PICK v : /\ pWal' = [pWal EXCEPT ![c] = v]
               /\ v.hdr = w.hdr /\ v.txn = w.txn /\ v.cache = w.cache /\ v.changed = w.changed
               /\ v.mode = w.mode /\ v.readLock = -1
               /\ v.pc = "ck_end" \/ (v.pc = "ck_copy" /\ v.plan = w.plan /\ v.mxSafe = w.mxSafe)
  <2>1. CASE Unlocked(c, {READ_LOCK(0)})
    <3> DEFINE u == [w EXCEPT !.pc = "ck_copy"]
    <3>1. pWal' = [pWal EXCEPT ![c] = u]
      BY <2>1 DEF ck_lock, Goto
    <3>2. /\ u.hdr = w.hdr /\ u.txn = w.txn /\ u.cache = w.cache /\ u.changed = w.changed
          /\ u.mode = w.mode /\ u.readLock = -1
          /\ u.pc = "ck_copy" /\ u.plan = w.plan /\ u.mxSafe = w.mxSafe
      BY <1>2 DEF WalObject
    <3> HIDE DEF u
    <3> QED
      BY <3>1, <3>2
  <2>2. CASE ~Unlocked(c, {READ_LOCK(0)})
    <3> DEFINE u == [w EXCEPT !.pc = "ck_end", !.mxSafe = 0, !.plan = {}]
    <3>1. pWal' = [pWal EXCEPT ![c] = u]
      BY <2>2 DEF ck_lock
    <3>2. /\ u.hdr = w.hdr /\ u.txn = w.txn /\ u.cache = w.cache /\ u.changed = w.changed
          /\ u.mode = w.mode /\ u.readLock = -1 /\ u.pc = "ck_end"
      BY <1>2 DEF WalObject
    <3> HIDE DEF u
    <3> QED
      BY <3>1, <3>2
  <2> QED
    BY <2>1, <2>2
<1>4. Own(c, v)
  BY <1>1, <1>2, <1>3, OwnSame DEF Recovering, RestartSteps
<1>5. StartOK(c)'
  <2>1. StartOK(c) /\ Copies(c) /\ WInv
    BY <1>1 DEF Known, ImageInv, ImageOK, Copies
  <2> QED
    BY <1>1, <1>3, <2>1, StartStays
<1>6. PlanOK(c)'
  <2>1. pWal'[c] = v
    BY <1>3, ObjectTypes DEF Known, WInv
  <2>2. PlanOK(c)
    BY DEF Known, ImageInv, ImageOK
  <2> QED
    BY <1>1, <1>3, <2>1, <2>2 DEF PlanOK
<1>7. v.readLock = -1 /\ ~(v.readLock > 0)
  BY <1>3
<1> QED
  BY <1>1, <1>2, <1>3, <1>4, <1>5, <1>6, <1>7, OwnStep

LEMMA CheckpointReturnImages ==
  ASSUME Known, WInv', NEW c \in Conn, ck_return(c)
  PROVE  ImageInv'
<1> DEFINE w == pWal[c]
           h == HdrAfterCheckpoint(w)
           v == [Closed EXCEPT !.pc = "idle", !.hdr = h, !.nCkpt = w.nCkpt,
                               !.cache = IF h = None THEN None ELSE w.cache]
<1>1. /\ w.pc \in {"ck_return", "ck_end"} /\ UNCHANGED <<files, aHdr, nBackfill, aPgno, nTxn>>
      /\ pWal' = [pWal EXCEPT ![c] = v]
  BY DEF ck_return, At, shm, bounds
<1>2. /\ v.hdr = h /\ v.txn = 0 /\ v.cache = (IF h = None THEN None ELSE w.cache)
      /\ ~v.changed /\ v.mode = "READ" /\ v.readLock = -1 /\ v.pc = "idle"
  BY DEF Closed
<1> HIDE DEF v
<1>3. ImageOK(c)
  BY DEF Known, ImageInv
<1>4. h = (IF w.changed THEN None ELSE w.hdr)
  BY DEF HdrAfterCheckpoint
<1> HIDE DEF h
<1>5. Own(c, v)
  BY <1>1, <1>2, <1>3, <1>4
     DEF Own, ImageOK, CacheOK, SaltOK, SaltBounded, Recovering, RestartSteps, Kept
<1> QED
  BY <1>1, <1>2, <1>5, OwnStepIdle

\* Everybody who is there has nothing in mind.
LEMMA CrashImages ==
  ASSUME Known, WInv', ~RestartCrash, ~TruncateCrash, NEW c \in Conn, Crash(c)
  PROVE  ImageInv'
<1> DEFINE w == pWal[c]
           v == Closed
<1>1. /\ UNCHANGED <<files, shm>> /\ nTxn' = nTxn /\ pWal' = [pWal EXCEPT ![c] = v]
      /\ w.pc # "restart_reset" /\ (w.pc = "restart_publish" => aHdr[0].mxFrame # 0)
  BY DEF Crash, At, Fault
<1>2. /\ v.hdr = None /\ v.txn = 0 /\ v.cache = None /\ ~v.changed /\ v.readLock = -1
      /\ v.pc = "closed"
  BY DEF Closed
<1> HIDE DEF v
<1>3. pWal'[c] = v /\ (\A d \in Conn \ {c} : pWal'[d] = pWal[d]) /\ ~(v.readLock > 0) /\ nTxn \in Nat
  BY <1>1, <1>2, ObjectTypes, Salts DEF Known, WInv
<1>4. Still(c)
  BY <1>1, <1>2, <1>3 DEF Still, files, shm, Relies
<1>5. Own(c, v)
  BY <1>2, <1>3 DEF Own, SaltBounded, Recovering, RestartSteps, Kept
<1>6. PlanOK(c)' /\ StartOK(c)'
  BY <1>2, <1>3 DEF PlanOK, StartOK, At, Copies
<1>7. ImageOK(c)'
  BY <1>2, <1>3, <1>4, <1>5, <1>6, OwnKeeps
<1>8. NotEmpty'
  BY <1>1, <1>4, NotEmptyStays DEF shm
<1> QED
  BY <1>4, <1>7, <1>8, StillKeeps

LEMMA UndoImages ==
  ASSUME Known, WInv', NEW c \in Conn, sqlite3WalUndo(c)
  PROVE  ImageInv'
<1> DEFINE w == pWal[c]
           v == [w EXCEPT !.hdr = aHdr[0], !.txn = 0]
           n == aHdr[0].mxFrame
<1>1. /\ w.pc = "reading" /\ w.txn # 0 /\ pWal' = [pWal EXCEPT ![c] = v]
      /\ UNCHANGED <<files, aHdr, nBackfill, bounds>>
      /\ aPgno' = IF n \in {0, w.hdr.mxFrame} THEN aPgno
                  ELSE [k \in Frames |-> IF k > n THEN None ELSE aPgno[k]]
  BY DEF sqlite3WalUndo, At
<1>2. /\ w \in WalObject /\ aHdr[0] # None /\ w.mode = "READ" /\ w.readLock \in 0 .. NSlot
  BY <1>1, AtReading DEF Known
<1>3. /\ v.hdr = aHdr[0] /\ v.txn = 0 /\ v.cache = w.cache /\ v.changed = w.changed
      /\ v.mode = "READ" /\ v.readLock = w.readLock /\ v.pc = "reading" /\ v.minFrame = w.minFrame
  BY <1>1, <1>2 DEF WalObject
<1> HIDE DEF v
<1>4. ImageOK(c) /\ HeadOK /\ WInv
  BY DEF Known, ImageInv
<1>5. n \in 0 .. MaxFrame /\ MaxFrame \in Nat /\ aHdr[0].salt \in Nat
  BY <1>2, <1>4, LogWritten, Numbers
<1>6. Indexed(aPgno', wal, n)
  <2>1. Indexed(aPgno, wal, n)
    BY <1>2, <1>4 DEF HeadOK
  <2>2. \A k \in 1 .. n : k \in Frames /\ ~(k > n)
    BY <1>5 DEF Frames
  <2> QED
    BY <1>1, <2>1, <2>2 DEF Indexed
<1>7. pWal'[c] = v /\ (\A d \in Conn \ {c} : pWal'[d] = pWal[d]) /\ WRITE \in exclusive[c]
  BY <1>1, <1>4, ObjectTypes, Writing DEF WInv
<1>8. Still(c)
  BY <1>1, <1>3, <1>6, <1>7 DEF Still, files, bounds, Relies
<1>9. Own(c, v)
  <2>1. w.cache = None /\ ~w.changed
    BY <1>1, <1>2, <1>4 DEF ImageOK, CacheOK
  <2>2. SaltBounded(aHdr[0])
    BY <1>2, <1>4 DEF SaltBounded, HeadOK
  <2>3. w.readLock > 0 => Backfilled(db, wal, w.minFrame - 1, n)
    BY <1>1, <1>4 DEF ImageOK, MarkOK, Last
  <2>4. w.readLock = 0 => Stands(aHdr[0], db)
    <3>1. w.readLock = 0 => w.hdr = aHdr[0]
      BY <1>1, <1>4, AtReading DEF WriterOK
    <3> QED
      BY <1>1, <1>4, <3>1 DEF ImageOK, CacheOK
  <2> QED
    BY <1>2, <1>3, <2>1, <2>2, <2>3, <2>4 DEF Own, Recovering, RestartSteps, Kept
<1>10. PlanOK(c)' /\ StartOK(c)'
  BY <1>3, <1>7 DEF PlanOK, StartOK, At, Copies
<1>11. ImageOK(c)'
  BY <1>3, <1>7, <1>8, <1>9, <1>10, OwnKeeps
<1>12. NotEmpty'
  BY <1>1, <1>8, NotEmptyStays
<1> QED
  BY <1>8, <1>11, <1>12, StillKeeps

-----------------------------------------------------------------------------
(* The first process, and the last *)

\* The wal-index is all zeros, and nobody has seen anything of the log.
LEMMA FreshIndex ==
  ASSUME aHdr'[0] = None, FileSaltsOK',
         \A c \in Conn :
           /\ pWal'[c].pc \in {"closed", "idle"} /\ pWal'[c].cache = None /\ pWal'[c].txn = 0
           /\ pWal'[c].readLock = -1 /\ ~pWal'[c].changed /\ SaltBounded(pWal[c].hdr)'
  PROVE  ImageInv'
<1>1. ASSUME NEW c \in Conn PROVE ImageOK(c)'
  <2> DEFINE w == pWal'[c]
  <2>1. w.pc \in {"closed", "idle"} /\ w.cache = None /\ w.txn = 0
        /\ w.readLock = -1 /\ ~(w.readLock > 0) /\ ~w.changed /\ SaltBounded(pWal[c].hdr)'
    OBVIOUS
  <2>2. IndexOK(c)' /\ MarkOK(c)' /\ PlanOK(c)' /\ StartOK(c)' /\ RecoveredOK(c)'
    BY <2>1 DEF IndexOK, MarkOK, PlanOK, StartOK, RecoveredOK, At, Copies
  <2>3. SaltOK(c)' /\ CacheOK(c)'
    BY <2>1 DEF SaltOK, CacheOK, HalfPublished, Kept
  <2> QED
    BY <2>2, <2>3 DEF ImageOK
<1>2. HeadOK' /\ NotEmpty'
  BY DEF HeadOK, NotEmpty
<1> QED
  BY <1>1, <1>2 DEF ImageInv

LEMMA OpenImages ==
  ASSUME Known, WInv', NEW c \in Conn, sqlite3WalOpen(c)
  PROVE  ImageInv'
<1> DEFINE w == pWal[c]
           v == [w EXCEPT !.pc = "idle"]
<1>1. /\ w.pc = "closed" /\ UNCHANGED <<files, nTxn>> /\ pWal' = [pWal EXCEPT ![c] = v]
  BY DEF sqlite3WalOpen, At, Goto, bounds
<1>2. w \in WalObject /\ w.txn = 0 /\ w.readLock = -1
  BY <1>1, AtHdr, ObjectTypes DEF Known, WInv
<1>3. /\ v.hdr = w.hdr /\ v.txn = 0 /\ v.cache = w.cache /\ v.changed = w.changed
      /\ v.mode = w.mode /\ v.readLock = -1 /\ v.pc = "idle"
  BY <1>2 DEF WalObject
<1> HIDE DEF v
<1>4. CASE UNCHANGED shm
  <2>1. Own(c, v)
    BY <1>1, <1>2, <1>3, OwnSame DEF Recovering, RestartSteps
  <2>2. UNCHANGED <<files, aHdr, nBackfill, aPgno, nTxn>>
    BY <1>1, <1>4 DEF shm
  <2> QED
    BY <1>1, <1>2, <1>3, <2>1, <2>2, OwnStepIdle
<1>5. CASE (\A d \in Conn \ {c} : At(d, "closed")) /\ aHdr' = [i \in 0 .. 1 |-> None]
  <2>1. aHdr'[0] = None
    BY <1>5
  <2>2. FileSaltsOK'
    BY <1>1 DEF Known, ImageInv, FileSaltsOK, SaltBounded, files
  <2>3. ASSUME NEW d \in Conn
        PROVE  /\ pWal'[d].pc \in {"closed", "idle"} /\ pWal'[d].cache = None /\ pWal'[d].txn = 0
               /\ pWal'[d].readLock = -1 /\ ~pWal'[d].changed /\ SaltBounded(pWal[d].hdr)'
    <3>1. pWal[d].pc = "closed" /\ ImageOK(d) /\ WInv
      BY <1>1, <1>5 DEF At, Known, ImageInv
    <3>2. pWal[d].txn = 0 /\ pWal[d].readLock = -1 /\ pWal[d].mode = "READ"
      BY <3>1, AtHdr
    <3>3. pWal[d].cache = None /\ ~pWal[d].changed /\ SaltBounded(pWal[d].hdr)
      BY <3>1, <3>2 DEF ImageOK, CacheOK, SaltOK
    <3>4. pWal'[c] = v /\ (d # c => pWal'[d] = pWal[d])
      BY <1>1, <3>1, ObjectTypes DEF WInv
    <3> QED
      BY <1>1, <1>3, <3>1, <3>2, <3>3, <3>4 DEF SaltBounded
  <2> QED
    BY <2>1, <2>2, <2>3, FreshIndex
<1> QED
  BY <1>4, <1>5 DEF sqlite3WalOpen

\* What a power failure brings back are logs and headers of before.
LEMMA LogRemainsSalts ==
  ASSUME FilesTyped, FileSaltsOK, NEW log \in LogRemains
  PROVE  SaltBounded(log.hdr)
<1>1. CASE log \in walTruncated
  BY <1>1 DEF FileSaltsOK
<1>2. CASE log \notin walTruncated
  <2>1. log.hdr \in Remains(walHdr, walHdrOlder, None)
    BY <1>2 DEF LogRemains
  <2>2. log.hdr \in {walHdr} \cup walHdrOlder \/ log.hdr = None
    BY <2>1 DEF Remains
  <2> QED
    BY <2>2 DEF FileSaltsOK, SaltBounded
<1> QED
  BY <1>1, <1>2

LEMMA PowerLossImages ==
  ASSUME Known, WInv', PowerLoss
  PROVE  ImageInv'
<1>1. aHdr'[0] = None /\ nTxn' = nTxn
  BY DEF PowerLoss, Fault
<1>2. FileSaltsOK'
  <2>1. PICK log \in LogRemains : walHdr' = log.hdr
    BY DEF PowerLoss
  <2>2. SaltBounded(walHdr)'
    BY <1>1, <2>1, LogRemainsSalts DEF Known, WInv, ImageInv, SaltBounded
  <2>3. walHdrOlder' = {} /\ walTruncated' = {}
    BY DEF PowerLoss
  <2> QED
    BY <2>2, <2>3 DEF FileSaltsOK
<1>3. ASSUME NEW c \in Conn
      PROVE  /\ pWal'[c].pc \in {"closed", "idle"} /\ pWal'[c].cache = None /\ pWal'[c].txn = 0
             /\ pWal'[c].readLock = -1 /\ ~pWal'[c].changed /\ SaltBounded(pWal[c].hdr)'
  <2>1. pWal'[c] = Closed
    BY DEF PowerLoss
  <2> QED
    BY <2>1 DEF Closed, SaltBounded
<1> QED
  BY <1>1, <1>2, <1>3, FreshIndex

-----------------------------------------------------------------------------
(* The steps of a restart, and of a recovery, until a header is published *)

LEMMA RestartBegins ==
  ASSUME Known, WInv', NEW c \in Conn, NEW salt, RestartHdr(c, salt), UNCHANGED files,
         pWal[c].pc \in {"restart", "ck_end"}, pWal[c].hdr = aHdr[0], aHdr[0] # None,
         nBackfill = aHdr[0].mxFrame, WRITE \in exclusive[c], pWal[c].readLock \in {-1, 0},
         \/ /\ salt = nTxn + 1 /\ nTxn' = nTxn + 1
            /\ pWal[c].txn = 0 /\ pWal[c].mode # "READ"
         \/ /\ salt = pWal[c].txn /\ nTxn' = nTxn
            /\ pWal[c].txn # 0 /\ salt <= nTxn /\ aHdr[0].salt # salt
  PROVE  ImageInv'
<1> DEFINE w == pWal[c]
           h == [w.hdr EXCEPT !.mxFrame = 0, !.salt = salt]
           v == [w EXCEPT !.pc = "restart_publish", !.hdr = h, !.nCkpt = TRUE]
<1>1. /\ pWal' = [pWal EXCEPT ![c] = v] /\ aHdr' = [aHdr EXCEPT ![1] = h]
      /\ UNCHANGED <<nBackfill, aPgno>>
  BY DEF RestartHdr
<1>2. /\ w \in WalObject /\ WInv /\ w.hdr \in Header /\ nTxn \in Nat /\ aHdr[0].salt \in Nat
      /\ ImageOK(c) /\ HeadOK
  BY LogWritten, ObjectTypes, Salts DEF Known, WInv, ImageInv
<1>3. h.salt = salt /\ h # None
  <2>1. salt \in Txn
    <3>1. nTxn \in Txn /\ nTxn' \in Txn /\ w.txn \in Txn
      BY <1>2, ObjectTypes DEF WInv, SharedTyped
    <3> QED
      BY <3>1
  <2>2. h \in Header /\ h.salt = salt
    <3>1. 0 \in 0 .. MaxFrame /\ w.hdr \in Header
      BY <1>2, Numbers
    <3> HIDE DEF w
    <3> QED
      BY <2>1, <3>1 DEF Header
  <2> QED
    BY <2>2, NoneAssumption
<1>4. /\ v.hdr = h /\ v.txn = w.txn /\ v.cache = w.cache /\ v.changed = w.changed
      /\ v.mode = w.mode /\ v.readLock = w.readLock /\ v.pc = "restart_publish"
  BY <1>2 DEF WalObject
<1> HIDE DEF v, h
<1>5. /\ pWal'[c] = v /\ \A d \in Conn \ {c} : pWal'[d] = pWal[d]
      /\ aHdr'[0] = aHdr[0] /\ aHdr'[1] = h
  BY <1>1, <1>2, ObjectTypes DEF WInv, SharedTyped
<1>6. WRITE \in exclusive'[c] /\ ~(v.readLock > 0)
  BY <1>2, <1>4 DEF RestartHdr, LockExclusive, WInv, SharedTyped
<1>7. Still(c)
  BY <1>1, <1>3, <1>4, <1>5, <1>6 DEF Still, files, Relies
<1>8. HeadImage' = HeadImage /\ HeadImage = db /\ db' = db
  BY <1>5, HeadIsDb DEF HeadImage, files
<1>9. SaltOK(c)'
  <2>1. SaltBounded(pWal[c].hdr)'
    BY <1>2, <1>3, <1>4, <1>5 DEF SaltBounded
  <2>2. aHdr[0].salt # salt
    BY <1>2 DEF HeadOK
  <2>3. v.mode = "READ" => v.hdr.salt = v.txn
    BY <1>3, <1>4
  <2> QED
    BY <1>3, <1>4, <1>5, <2>1, <2>2, <2>3 DEF SaltOK, RestartSteps, HalfPublished
<1>10. CacheOK(c)'
  <2>1. w.cache # None /\ ~w.changed => w.cache = db
    <3>1. w.cache # None /\ ~w.changed => Stands(w.hdr, w.cache)
      BY <1>2 DEF ImageOK, CacheOK, Kept, Recovering
    <3> QED
      BY <1>8, <3>1 DEF Stands, FitsHead
  <2>2. /\ w.cache # None => w.txn = 0
        /\ w.changed => w.mode # "READ"
    BY <1>2 DEF ImageOK, CacheOK
  <2> QED
    BY <1>3, <1>4, <1>5, <1>8, <2>1, <2>2 DEF CacheOK, Kept
<1>11. IndexOK(c)' /\ MarkOK(c)' /\ PlanOK(c)' /\ StartOK(c)' /\ RecoveredOK(c)'
  BY <1>4, <1>5, <1>6
     DEF IndexOK, MarkOK, PlanOK, StartOK, RecoveredOK, At, Copies, RestartSteps
<1>12. NotEmpty'
  BY <1>4, <1>5 DEF NotEmpty, At
<1> QED
  BY <1>7, <1>9, <1>10, <1>11, <1>12, StillKeeps DEF ImageOK

LEMMA RestartLogImages ==
  ASSUME Known, WInv', NEW c \in Conn, walRestartLog(c)
  PROVE  ImageInv'
<1> DEFINE w == pWal[c]
<1>1. /\ w.pc = "restart" /\ RestartHdr(c, w.txn) /\ UNCHANGED files /\ nTxn' = nTxn
      /\ nBackfill > 0
  BY DEF walRestartLog, At, bounds
<1>2. w.readLock = 0 /\ w.txn # 0 /\ aHdr[0] # None /\ WriterOK(c) /\ ReaderOK(c) /\ Control(c)
  BY <1>1, AtReading DEF Known
<1>3. w.hdr = aHdr[0]
  BY <1>1, <1>2 DEF WriterOK
<1>4. nBackfill = aHdr[0].mxFrame
  BY <1>1, <1>2, <1>3 DEF ReaderOK
<1>5. WRITE \in exclusive[c]
  BY <1>2, Writing DEF Known
<1>6. w.txn <= nTxn
  BY <1>2, Salts DEF Control, Known
<1>7. aHdr[0].salt # w.txn
  BY <1>1, <1>2 DEF Known, ImageInv, ImageOK, SaltOK
<1> QED
  BY <1>1, <1>2, <1>3, <1>4, <1>5, <1>6, <1>7, RestartBegins

LEMMA TruncateBegins ==
  ASSUME Known, WInv', NEW c \in Conn, ck_truncate(c)
  PROVE  ImageInv'
<1> DEFINE w == pWal[c]
<1>1. /\ w.pc = "ck_end" /\ w.mode = "TRUNCATE" /\ RestartHdr(c, nTxn + 1) /\ UNCHANGED files
      /\ nTxn' = nTxn + 1 /\ nBackfill >= w.hdr.mxFrame /\ NoReaderOfWal(c)
  BY DEF ck_truncate, CanTruncate, At
<1>2. /\ w.readLock = -1 /\ w.txn = 0 /\ aHdr[0] # None /\ Holds(c) /\ w.hdr.mxFrame \in Nat
      /\ aHdr[0].mxFrame \in Nat /\ nBackfill \in Nat
  BY <1>1, AtCheckpoint, Numbers DEF Known, CheckpointSteps
<1>3. w.hdr = aHdr[0]
  BY <1>1 DEF Known, CopyInv, Truncating, CheckpointSteps
<1>4. nBackfill = aHdr[0].mxFrame
  <2>1. NotExclusive(c, READ_LOCK(1)) /\ 1 \in Slots
    BY <1>1, LockNumbers, Numbers DEF NoReaderOfWal, Unlocked, NotExclusive
  <2>2. nBackfill <= aHdr[0].mxFrame
    BY <1>1, <1>2, <2>1, NBackfillNow DEF Known
  <2> QED
    BY <1>1, <1>2, <1>3, <2>2
<1>5. WRITE \in exclusive[c]
  BY <1>1, <1>2 DEF Holds
<1> QED
  BY <1>1, <1>2, <1>3, <1>4, <1>5, RestartBegins

LEMMA RecoverImages ==
  ASSUME Known, WInv', NEW c \in Conn, walIndexRecover(c)
  PROVE  ImageInv'
<1> DEFINE w == pWal[c]
<1>1. /\ w.pc \in {"idle", "hdr"} /\ CanRecover(c) /\ UNCHANGED <<files, nBackfill, bounds>>
      /\ LockExclusive(c, {WRITE, CKPT, RECOVER})
  BY DEF walIndexRecover, Reads, At
<1>2. PICK found \in FoundHdr :
        LET n == CommittedFrames(wal, found)
            h == [mxFrame |-> n, iChange |-> 0,
                  salt |-> IF found = None THEN 0 ELSE found.salt,
                  cksum |-> IF n = 0 THEN 0 ELSE wal[n].by]
        IN /\ pWal' = [pWal EXCEPT ![c].pc = "recover_publish", ![c].hdr = h,
                         ![c].nCkpt = IF found = None THEN @ ELSE found.seq]
           /\ aHdr' = [aHdr EXCEPT ![1] = h]
           /\ aPgno' = IF found = None THEN aPgno
                       ELSE [k \in Frames |-> IF k <= ValidFrames(wal, found)
                                              THEN wal[k].pgno ELSE None]
  BY DEF walIndexRecover
<1> DEFINE n == CommittedFrames(wal, found)
           vf == ValidFrames(wal, found)
           h == [mxFrame |-> n, iChange |-> 0,
                 salt |-> IF found = None THEN 0 ELSE found.salt,
                 cksum |-> IF n = 0 THEN 0 ELSE wal[n].by]
           v == [w EXCEPT !.pc = "recover_publish", !.hdr = h,
                          !.nCkpt = IF found = None THEN w.nCkpt ELSE found.seq]
<1>3. /\ pWal' = [pWal EXCEPT ![c] = v] /\ aHdr' = [aHdr EXCEPT ![1] = h]
      /\ aPgno' = IF found = None THEN aPgno
                  ELSE [k \in Frames |-> IF k <= vf THEN wal[k].pgno ELSE None]
  BY <1>2
<1>4. /\ vf \in 0 .. MaxFrame /\ n \in 0 .. vf /\ (n # 0 => found # None)
      /\ aHdr[0] # None => aHdr[0].mxFrame <= n
  BY FoundFrames DEF Known
<1>5. /\ h.mxFrame = n /\ h.salt = IF found = None THEN 0 ELSE found.salt
  OBVIOUS
<1> HIDE DEF h, n, vf
<1>6. /\ w \in WalObject /\ WInv /\ nTxn \in Nat /\ ImageOK(c) /\ HeadOK /\ FileSaltsOK /\ NotEmpty
      /\ w.txn = 0 /\ w.readLock = -1
  BY <1>1, ObjectTypes, Salts, AtHdr DEF Known, WInv, ImageInv
<1>7. /\ v.hdr = h /\ v.txn = w.txn /\ v.cache = w.cache /\ v.changed = w.changed
      /\ v.mode = w.mode /\ v.readLock = w.readLock /\ v.pc = "recover_publish"
  BY <1>6 DEF WalObject
<1> HIDE DEF v
<1>8. /\ pWal'[c] = v /\ \A d \in Conn \ {c} : pWal'[d] = pWal[d]
      /\ aHdr'[0] = aHdr[0] /\ aHdr'[1] = h
  BY <1>3, <1>6, ObjectTypes DEF WInv, SharedTyped
<1>9. h # None
  BY <1>7, <1>8 DEF WInv, ConnOK, Control, WithoutHdr
<1>10. WRITE \in exclusive'[c]
  BY <1>1, <1>6 DEF LockExclusive, WInv, SharedTyped
<1>11. Indexed(aPgno', wal, n)
  <2>1. ASSUME NEW k \in 1 .. n PROVE aPgno'[k] = wal[k].pgno
    <3>1. found # None /\ k \in Frames /\ k <= vf
      BY <1>4, <2>1, Numbers DEF Frames
    <3> QED
      BY <1>3, <3>1
  <2> QED
    BY <2>1 DEF Indexed
<1>12. aHdr[0] # None => Indexed(aPgno', wal, aHdr[0].mxFrame)
  <2>1. aHdr[0] # None => aHdr[0].mxFrame \in Nat /\ aHdr[0].mxFrame <= n /\ n \in Nat
    BY <1>4, <1>6, LogWritten
  <2> QED
    BY <1>11, <2>1 DEF Indexed
<1>13. Still(c)
  BY <1>1, <1>6, <1>7, <1>8, <1>10, <1>12 DEF Still, files, bounds, Relies
<1>14. ASSUME aHdr[0] # None
       PROVE  walHdr # None /\ found = walHdr /\ \E k \in Frames : wal[k] # None
  <2>1. aHdr[0] # aHdr[1]
    BY <1>1, <1>14 DEF CanRecover, GoodHdr
  <2>2. ASSUME NEW d \in Conn, pWal[d].pc = "restart_publish" PROVE FALSE
    <3>1. WRITE \in exclusive[d]
      BY <1>6, <2>2, Writing DEF RestartSteps
    <3> QED
      BY <1>1, <2>2, <3>1 DEF CanRecover, Unlocked
  <2> QED
    BY <1>6, <1>14, <2>1, <2>2 DEF NotEmpty, At, FoundHdr
<1>15. SaltOK(c)'
  <2>1. found = None \/ found = walHdr
    BY DEF FoundHdr
  <2>2. h.salt <= nTxn
    BY <1>5, <1>6, <2>1 DEF FileSaltsOK, SaltBounded
  <2>3. SaltBounded(pWal[c].hdr)'
    BY <1>1, <1>7, <1>8, <2>2 DEF SaltBounded, bounds
  <2> QED
    BY <1>6, <1>7, <1>8, <2>3 DEF SaltOK, RestartSteps, HalfPublished
<1>16. CacheOK(c)'
  <2>1. /\ w.cache # None => aHdr[0] # None
        /\ w.changed => w.mode # "READ"
    BY <1>6 DEF ImageOK, CacheOK
  <2> QED
    BY <1>6, <1>7, <1>8, <1>9, <2>1 DEF CacheOK, Kept, Recovering
<1>17. IndexOK(c)' /\ MarkOK(c)' /\ PlanOK(c)' /\ StartOK(c)'
  <2>1. IndexOK(c)'
    BY <1>1, <1>5, <1>7, <1>8, <1>11 DEF IndexOK, files
  <2>2. ~(v.readLock > 0)
    BY <1>6, <1>7
  <2> QED
    BY <1>7, <1>8, <2>1, <2>2 DEF MarkOK, PlanOK, StartOK, At, Copies
<1>18. RecoveredOK(c)'
  <2>1. aHdr[0] # None => walHdr # None /\ h.salt = walHdr.salt /\ h.mxFrame = FoundEnd
    BY <1>5, <1>14 DEF FoundEnd, n
  <2>2. FoundEnd' = FoundEnd /\ walHdr' = walHdr
    BY <1>1 DEF FoundEnd, files
  <2> QED
    BY <1>7, <1>8, <2>1, <2>2 DEF RecoveredOK
<1>19. NotEmpty'
  BY <1>1, <1>8, <1>14 DEF NotEmpty, files
<1> QED
  BY <1>13, <1>15, <1>16, <1>17, <1>18, <1>19, StillKeeps DEF ImageOK

-----------------------------------------------------------------------------
(* A header is published *)

\* c publishes header g of a log that is not shorter: what there was is the
\* beginning of it.
Publishing(c, g) ==
  /\ UNCHANGED <<files, nBackfill, aPgno, bounds>>
  /\ aHdr'[0] = g /\ aHdr'[1] = g /\ g # None /\ g.mxFrame \in Nat
  /\ \A d \in Conn \ {c} : pWal'[d] = pWal[d]
  /\ pWal[c].pc \notin RestartSteps /\ pWal'[c].pc \notin RestartSteps
  /\ pWal'[c].txn = 0 /\ WRITE \in exclusive[c]
  /\ g.salt <= nTxn /\ Indexed(aPgno, wal, g.mxFrame)
  /\ pWal[c].pc # "verify" /\ (Relies(c)' => Relies(c) /\ pWal'[c].minFrame = pWal[c].minFrame)
  /\ aHdr[0] # None =>
       /\ aHdr[0].mxFrame <= g.mxFrame
       /\ \/ g.salt = aHdr[0].salt
          \/ /\ aHdr[0].mxFrame = 0 /\ walHdr # None
             /\ g.salt = walHdr.salt /\ g.mxFrame = FoundEnd
          \/ /\ pWal[c].txn # 0 /\ aHdr[0].salt # pWal[c].txn /\ g.salt = pWal[c].txn

\* Nobody is about to begin a log.
LEMMA PublishedOldSalt ==
  ASSUME Known, WInv', NEW c \in Conn, NEW g, Publishing(c, g), NEW h, h.salt <= nTxn
  PROVE  OldSalt(h)'
<1>1. ASSUME NEW d \in Conn PROVE pWal'[d].txn = 0 /\ pWal'[d].pc # "restart_publish"
  <2>1. CASE d = c
    BY <2>1 DEF Publishing, RestartSteps
  <2>2. CASE d # c
    BY <2>2, OneWriter DEF Known, Publishing, RestartSteps
  <2> QED
    BY <2>1, <2>2
<1> QED
  BY <1>1 DEF OldSalt, At, Publishing, bounds

LEMMA PublishedStands ==
  ASSUME Known, WInv', NEW c \in Conn, NEW g, Publishing(c, g), aHdr[0] # None,
         NEW h, h.mxFrame \in Nat, NEW image, Stands(h, image)
  PROVE  Stands(h, image)'
<1> DEFINE n == aHdr[0].mxFrame
<1>1. OldSalt(h)'
  BY PublishedOldSalt DEF Stands, OldSalt
<1>2. /\ HeadImage' = LogImage(db, wal, g.mxFrame) /\ n \in Nat /\ n <= g.mxFrame /\ g.mxFrame \in Nat
      /\ aHdr'[0] = g /\ db' = db /\ wal' = wal /\ walHdr' = walHdr
  BY LogWritten DEF Publishing, HeadImage, files, Known
<1>3. FoundEnd' = FoundEnd /\ FoundImage' = FoundImage
  BY <1>2 DEF FoundEnd, FoundImage
<1>4. FitsHead(h, image)'
  <2>1. CASE g.salt = aHdr[0].salt
    BY <1>2, <2>1 DEF Stands, FitsHead, HeadImage
  <2>2. CASE aHdr[0].mxFrame = 0 /\ walHdr # None /\ g.salt = walHdr.salt /\ g.mxFrame = FoundEnd
    BY <1>2, <2>2 DEF Stands, FitsHead, FitsFile, FoundImage
  <2>3. CASE pWal[c].txn # 0 /\ aHdr[0].salt # pWal[c].txn /\ g.salt = pWal[c].txn
    BY <1>2, <2>3 DEF Stands, OldSalt, FitsHead
  <2> QED
    BY <2>1, <2>2, <2>3 DEF Publishing
<1>5. FitsFile(h, image)'
  BY <1>2, <1>3 DEF Stands, FitsFile
<1> QED
  BY <1>1, <1>4, <1>5 DEF Stands

LEMMA PublishingKeeps ==
  ASSUME Known, WInv', NEW c \in Conn, NEW g, Publishing(c, g), ImageOK(c)'
  PROVE  ImageInv'
<1> DEFINE n == aHdr[0].mxFrame
<1>1. /\ aHdr'[0] = g /\ aHdr'[1] = g /\ g # None /\ g.mxFrame \in Nat /\ UNCHANGED <<db, wal, walHdr>>
      /\ UNCHANGED <<nBackfill, aPgno, nTxn, walHdrOlder, walTruncated>>
      /\ \A d \in Conn \ {c} : pWal'[d] = pWal[d]
  BY DEF Publishing, files, bounds
<1>2. ASSUME aHdr[0] # None PROVE n \in Nat /\ n <= g.mxFrame
  BY <1>2, LogWritten DEF Publishing, Known
<1>3. ~Restarting /\ ~Restarting'
  <2>1. ASSUME NEW d \in Conn PROVE pWal[d].pc # "restart_reset" /\ pWal'[d].pc # "restart_reset"
    <3>1. CASE d = c
      BY <3>1 DEF Publishing, RestartSteps
    <3>2. CASE d # c
      BY <3>2, OneWriter DEF Known, Publishing, RestartSteps
    <3> QED
      BY <3>1, <3>2
  <2> QED
    BY <2>1 DEF Restarting, At
<1>4. HeadOK'
  <2>1. Backfilled(db, wal, nBackfill, g.mxFrame)
    <3>1. CASE aHdr[0] = None
      BY <3>1 DEF Known, WInv, LogOK, Backfilled
    <3>2. CASE aHdr[0] # None
      BY <1>1, <1>2, <1>3, <3>2, BackfilledGrows DEF Known, ImageInv, HeadOK
    <3> QED
      BY <3>1, <3>2
  <2> QED
    BY <1>1, <2>1 DEF HeadOK, Publishing
<1>5. FileSaltsOK' /\ NotEmpty'
  BY <1>1 DEF Known, ImageInv, FileSaltsOK, SaltBounded, NotEmpty
<1>6. ASSUME NEW d \in Conn \ {c} PROVE ImageOK(d)'
  <2> DEFINE w == pWal[d]
  <2>1. pWal'[d] = w /\ ImageOK(d) /\ WInv /\ d \in Conn
    BY <1>1 DEF Known, ImageInv
  <2>2. w.txn = 0 /\ w.pc \notin Recovering \cup RestartSteps \cup FrameSteps
    BY <2>1, OneWriter DEF Publishing
  <2>3. IndexOK(d)' /\ RecoveredOK(d)'
    BY <2>1, <2>2 DEF IndexOK, RecoveredOK, At, Recovering
  <2>4. MarkOK(d)'
    <3>1. ASSUME w.pc = "verify" PROVE Backfilled(db, wal, w.minFrame - 1, g.mxFrame)
      <4>1. aHdr[0] # None
        BY <2>1, <3>1, VerifyFacts
      <4> QED
        BY <1>1, <1>2, <2>1, <3>1, <4>1, BackfilledGrows DEF ImageOK, MarkOK
    <3> QED
      BY <1>1, <2>1, <2>2, <3>1 DEF ImageOK, MarkOK, Last
  <2>5. PlanOK(d)'
    BY <1>1, <2>1 DEF ImageOK, PlanOK
  <2>6. StartOK(d)'
    <3>1. \A e \in Conn : Relies(e)' => Relies(e) /\ pWal'[e].minFrame = pWal[e].minFrame
      BY <1>1 DEF Publishing, Relies
    <3> QED
      BY <1>1, <1>3, <2>1, <3>1 DEF ImageOK, StartOK, At, Copies
  <2>7. SaltOK(d)'
    <3>1. SaltBounded(w.hdr)'
      BY <1>1, <2>1 DEF ImageOK, SaltOK, SaltBounded
    <3> QED
      BY <2>1, <2>2, <3>1 DEF SaltOK, HalfPublished, RestartSteps, FrameSteps, Recovering
  <2>8. CacheOK(d)'
    <3>1. w.hdr # None => w.hdr.mxFrame \in Nat
      BY <2>1, ObjectTypes, Numbers DEF WInv
    <3>2. CacheOK(d)
      BY <2>1 DEF ImageOK
    <3>3. w.pc \in {"reading", "restart"} => w.hdr # None /\ aHdr[0] # None
      BY <2>1, AtReading
    <3>4. ASSUME NEW image, w.hdr # None, aHdr[0] # None, Stands(w.hdr, image)
          PROVE  Stands(w.hdr, image)'
      BY <2>1, <3>1, <3>4, PublishedStands
    <3>5. (Kept(w) => Stands(w.hdr, w.cache))'
      <4>1. Kept(w) => Stands(w.hdr, w.cache) /\ w.hdr # None /\ aHdr[0] # None
        BY <3>2 DEF CacheOK, Kept
      <4>2. Kept(w)' <=> Kept(w)
        BY <2>1 DEF Kept
      <4> QED
        BY <2>1, <3>4, <4>1, <4>2
    <3>6. (w.pc \in {"reading", "restart"} /\ w.readLock = 0 => Stands(w.hdr, db))'
      BY <1>1, <2>1, <3>2, <3>3, <3>4 DEF CacheOK
    <3>7. (w.pc = "reading" /\ w.txn = 0 => OldSalt(w.hdr))'
      <4>1. w.pc = "reading" /\ w.txn = 0 => w.hdr.salt <= nTxn
        BY <3>2 DEF CacheOK, OldSalt
      <4>2. ASSUME w.hdr.salt <= nTxn PROVE OldSalt(w.hdr)'
        BY <2>1, <4>2, PublishedOldSalt
      <4> QED
        BY <2>1, <4>1, <4>2
    <3>8. ReadView(d)' = ReadView(d)
      BY <1>1, <2>1 DEF ReadView
    <3> QED
      BY <1>1, <2>1, <2>2, <3>2, <3>5, <3>6, <3>7, <3>8 DEF CacheOK, RestartSteps
  <2> QED
    BY <2>3, <2>4, <2>5, <2>6, <2>7, <2>8 DEF ImageOK
<1> QED
  BY <1>4, <1>5, <1>6 DEF ImageInv

LEMMA RecoverPublishImages ==
  ASSUME Known, WInv', NEW c \in Conn, recover_publish(c)
  PROVE  ImageInv'
<1> DEFINE w == pWal[c]
           v == [w EXCEPT !.pc = "recover_reset"]
<1>1. /\ w.pc = "recover_publish" /\ pWal' = [pWal EXCEPT ![c] = v]
      /\ aHdr' = [aHdr EXCEPT ![0] = w.hdr] /\ UNCHANGED <<files, nBackfill, aPgno, bounds>>
  BY DEF recover_publish, At, Goto
<1>2. /\ w \in WalObject /\ w.txn = 0 /\ w.readLock = -1 /\ w.hdr # None /\ w.hdr \in Header
      /\ RecoveryOK(c) /\ WRITE \in exclusive[c] /\ WInv /\ ImageOK(c) /\ HeadOK /\ w.hdr.mxFrame \in Nat
  BY <1>1, AtRecovery, ObjectTypes, Numbers DEF Known, Recovering, ImageInv, Header
<1>3. /\ v.hdr = w.hdr /\ v.txn = 0 /\ v.cache = w.cache /\ v.changed = w.changed
      /\ v.mode = w.mode /\ v.readLock = -1 /\ v.pc = "recover_reset"
  BY <1>2 DEF WalObject
<1> HIDE DEF v
<1>4. /\ pWal'[c] = v /\ \A d \in Conn \ {c} : pWal'[d] = pWal[d]
      /\ aHdr'[0] = w.hdr /\ aHdr'[1] = w.hdr
  <2>1. aHdr[1] = w.hdr
    BY <1>1, <1>2 DEF ImageOK, SaltOK, HalfPublished
  <2> QED
    BY <1>1, <1>2, <2>1, ObjectTypes DEF WInv, SharedTyped
<1>5. ASSUME aHdr[0] # None
      PROVE  /\ aHdr[0].mxFrame <= w.hdr.mxFrame
             /\ \/ w.hdr.salt = aHdr[0].salt
                \/ /\ aHdr[0].mxFrame = 0 /\ walHdr # None
                   /\ w.hdr.salt = walHdr.salt /\ w.hdr.mxFrame = FoundEnd
  <2>1. aHdr[0].mxFrame <= w.hdr.mxFrame
    BY <1>1, <1>2, <1>5 DEF RecoveryOK
  <2>2. walHdr # None /\ w.hdr.salt = walHdr.salt /\ w.hdr.mxFrame = FoundEnd
    BY <1>1, <1>2, <1>5 DEF ImageOK, RecoveredOK, At
  <2>3. aHdr[0].mxFrame # 0 => aHdr[0].salt = walHdr.salt
    BY <1>2, <1>5, LogWritten DEF WInv, LogOK, CommitChain, Chain
  <2> QED
    BY <2>1, <2>2, <2>3
<1>6. w.hdr.salt <= nTxn /\ Indexed(aPgno, wal, w.hdr.mxFrame)
  BY <1>1, <1>2 DEF ImageOK, SaltOK, SaltBounded, IndexOK, At
<1>7. ~Relies(c)'
  BY <1>3, <1>4 DEF Relies
<1>8. Publishing(c, w.hdr)
  BY <1>1, <1>2, <1>3, <1>4, <1>5, <1>6, <1>7 DEF Publishing, RestartSteps
<1>9. ImageOK(c)'
  <2>1. IndexOK(c)' /\ MarkOK(c)' /\ PlanOK(c)' /\ StartOK(c)' /\ RecoveredOK(c)'
    <3>1. ~(v.readLock > 0)
      BY <1>3
    <3> QED
      BY <1>3, <1>4, <3>1 DEF IndexOK, MarkOK, PlanOK, StartOK, RecoveredOK, At, Copies
  <2>2. SaltOK(c)'
    <3>1. SaltBounded(pWal[c].hdr)'
      BY <1>1, <1>3, <1>4, <1>6 DEF SaltBounded, bounds
    <3> QED
      BY <1>3, <1>4, <3>1 DEF SaltOK, HalfPublished
  <2>3. CacheOK(c)'
    BY <1>2, <1>3, <1>4 DEF CacheOK, Kept, Recovering, ImageOK
  <2> QED
    BY <2>1, <2>2, <2>3 DEF ImageOK
<1> QED
  BY <1>8, <1>9, PublishingKeeps

LEMMA PublishCommitImages ==
  ASSUME Known, WInv', NEW c \in Conn, publish_commit(c)
  PROVE  ImageInv'
<1> DEFINE w == pWal[c]
           v == [w EXCEPT !.pc = "reading", !.txn = 0, !.page = None, !.commit = FALSE]
<1>1. /\ w.pc = "publish" /\ pWal' = [pWal EXCEPT ![c] = v]
      /\ aHdr' = [aHdr EXCEPT ![0] = w.hdr] /\ UNCHANGED <<files, nBackfill, aPgno, bounds>>
  BY DEF publish_commit, At
<1>2. /\ w \in WalObject /\ w.txn # 0 /\ w.readLock > 0 /\ w.hdr # None /\ w.hdr.mxFrame \in Nat
      /\ aHdr[0] # None /\ WriterOK(c) /\ WRITE \in exclusive[c] /\ w.mode = "READ"
      /\ WInv /\ ImageOK(c) /\ HeadOK /\ aHdr[0].mxFrame \in Nat
  BY <1>1, AtFrame, Numbers DEF Known, FrameSteps, ImageInv
<1>3. /\ v.hdr = w.hdr /\ v.txn = 0 /\ v.cache = w.cache /\ v.changed = w.changed
      /\ v.mode = "READ" /\ v.readLock = w.readLock /\ v.pc = "reading" /\ v.minFrame = w.minFrame
  BY <1>2 DEF WalObject
<1> HIDE DEF v
<1>4. /\ pWal'[c] = v /\ \A d \in Conn \ {c} : pWal'[d] = pWal[d]
      /\ aHdr'[0] = w.hdr /\ aHdr'[1] = w.hdr
  <2>1. aHdr[1] = w.hdr
    BY <1>1, <1>2 DEF ImageOK, SaltOK, HalfPublished
  <2> QED
    BY <1>1, <1>2, <2>1, ObjectTypes DEF WInv, SharedTyped
<1>5. /\ aHdr[0].mxFrame <= w.hdr.mxFrame
      /\ w.hdr.salt = aHdr[0].salt \/ (aHdr[0].salt # w.txn /\ w.hdr.salt = w.txn)
  BY <1>1, <1>2 DEF WriterOK, RestartSteps, ImageOK, SaltOK
<1>6. w.hdr.salt <= nTxn /\ Indexed(aPgno, wal, w.hdr.mxFrame)
  BY <1>1, <1>2 DEF ImageOK, SaltOK, SaltBounded, IndexOK, RestartSteps
<1>7. Relies(c)' => Relies(c) /\ pWal'[c].minFrame = pWal[c].minFrame
  BY <1>2, <1>3, <1>4 DEF Relies
<1>8. Publishing(c, w.hdr)
  BY <1>1, <1>2, <1>3, <1>4, <1>5, <1>6, <1>7 DEF Publishing, RestartSteps
<1>9. ImageOK(c)'
  <2>1. MarkOK(c)'
    <3>1. Backfilled(db, wal, w.minFrame - 1, aHdr[0].mxFrame)
      BY <1>2 DEF ImageOK, MarkOK, Last
    <3>2. Backfilled(db, wal, w.minFrame - 1, w.hdr.mxFrame)
      BY <1>2, <1>5, <3>1, BackfilledGrows
    <3>3. Last(c)' = w.hdr.mxFrame
      BY <1>3, <1>4 DEF Last
    <3> QED
      BY <1>1, <1>3, <1>4, <3>2, <3>3 DEF MarkOK, files
  <2>2. IndexOK(c)' /\ PlanOK(c)' /\ StartOK(c)' /\ RecoveredOK(c)'
    BY <1>3, <1>4 DEF IndexOK, PlanOK, StartOK, RecoveredOK, At, Copies
  <2>3. SaltOK(c)'
    <3>1. SaltBounded(pWal[c].hdr)'
      BY <1>1, <1>3, <1>4, <1>6 DEF SaltBounded, bounds
    <3> QED
      BY <1>3, <1>4, <3>1 DEF SaltOK, HalfPublished
  <2>4. CacheOK(c)'
    <3>1. w.cache = None /\ ~w.changed
      BY <1>2 DEF ImageOK, CacheOK
    <3>2. OldSalt(w.hdr)'
      BY <1>3, <1>4, <1>6, <1>8, PublishedOldSalt
    <3> QED
      BY <1>2, <1>3, <1>4, <3>1, <3>2 DEF CacheOK, Kept
  <2> QED
    BY <2>1, <2>2, <2>3, <2>4 DEF ImageOK
<1> QED
  BY <1>8, <1>9, PublishingKeeps

\* The number of copied frames is cleared.
LEMMA ResetImages ==
  ASSUME Known, WInv', NEW c \in Conn, NEW label, nBackfill' = 0, Goto(c, label),
         UNCHANGED <<files, aHdr, aPgno, nTxn>>,
         \/ pWal[c].pc = "recover_reset" /\ label = "recover_marks"
         \/ pWal[c].pc = "restart_reset" /\ label = "restart_marks"
  PROVE  ImageInv'
<1> DEFINE w == pWal[c]
           v == [w EXCEPT !.pc = label]
<1>1. /\ w \in WalObject /\ WInv /\ HeadOK /\ ImageOK(c) /\ WRITE \in exclusive[c]
      /\ w.pc \in Recovering \cup RestartSteps
  BY ObjectTypes, Writing DEF Known, WInv, ImageInv, Recovering, RestartSteps
<1>2. /\ v.hdr = w.hdr /\ v.txn = w.txn /\ v.cache = w.cache /\ v.changed = w.changed
      /\ v.mode = w.mode /\ v.readLock = w.readLock /\ v.pc = label
  BY <1>1 DEF WalObject
<1>3. pWal'[c] = v /\ \A d \in Conn \ {c} : pWal'[d] = pWal[d]
  BY <1>1, ObjectTypes DEF WInv, Goto
<1> HIDE DEF v
<1>4. /\ UNCHANGED <<db, wal, walHdr, walHdrOlder, walTruncated>>
      /\ HeadImage' = HeadImage /\ FoundEnd' = FoundEnd /\ FoundImage' = FoundImage
  BY DEF files, HeadImage, FoundEnd, FoundImage
<1>5. w.readLock \in {-1, 0} /\ ~(w.readLock > 0)
  BY <1>1, AtRecovery, AtRestart
<1>6. ASSUME NEW h, NEW image, Stands(h, image)
      PROVE  Stands(h, image)'
  <2>1. OldSalt(h)'
    BY <1>2, <1>3, <1>6 DEF Stands, OldSalt, At
  <2> QED
    BY <1>4, <1>6, <2>1 DEF Stands, FitsHead, FitsFile
<1>7. HeadOK' /\ FileSaltsOK' /\ NotEmpty'
  <2>1. HeadOK'
    BY <1>1, <1>4 DEF HeadOK, Backfilled
  <2>2. NotEmpty'
    BY <1>1, <1>2, <1>3, <1>4 DEF Known, ImageInv, NotEmpty, At
  <2> QED
    BY <1>4, <2>1, <2>2 DEF Known, ImageInv, FileSaltsOK, SaltBounded
<1>8. ASSUME NEW d \in Conn \ {c} PROVE ImageOK(d)'
  <2> DEFINE u == pWal[d]
  <2>1. pWal'[d] = u /\ ImageOK(d) /\ d \in Conn
    BY <1>3 DEF Known, ImageInv
  <2>2. u.txn = 0 /\ u.pc \notin Recovering \cup RestartSteps \cup FrameSteps
    BY <1>1, <2>1, OneWriter
  <2>3. ~Copies(d)
    <3>1. ASSUME Copies(d) PROVE FALSE
      <4>1. /\ Holds(d) /\ CheckpointOK(d) /\ u.mode # "READ" /\ u.hdr.mxFrame \in 0 .. MaxFrame
            /\ nBackfill \in 0 .. MaxFrame
        BY <1>1, <3>1, AtCheckpoint DEF Copies, CheckpointSteps
      <4>2. CASE w.pc \in Recovering
        <5>1. CKPT \in exclusive[c] /\ CKPT \in exclusive[d]
          BY <1>1, <4>1, <4>2, AtRecovery DEF Holds
        <5> QED
          BY <1>1, <5>1 DEF WInv, Exclusion
      <4>3. CASE w.pc \in RestartSteps
        <5>1. aHdr[0].mxFrame = 0
          BY <1>1, <4>3, AtRestart DEF RestartOK, Recovering, RestartSteps
        <5> QED
          BY <3>1, <4>1, <5>1, Numbers DEF CheckpointOK
      <4> QED
        BY <1>1, <4>2, <4>3
    <3> QED
      BY <3>1
  <2>4. IndexOK(d)' /\ MarkOK(d)' /\ RecoveredOK(d)'
    BY <1>4, <2>1, <2>2 DEF IndexOK, MarkOK, RecoveredOK, At, Last, ImageOK, Recovering
  <2>5. PlanOK(d)'
    BY <2>1, <2>3 DEF PlanOK, Copies
  <2>6. StartOK(d)'
    <3>1. u.hdr # None => u.hdr.mxFrame \in Nat
      BY <1>1, ObjectTypes, Numbers DEF WInv
    <3>2. At(d, "ck_start") => u.hdr # None
      BY <1>1, AtCheckpoint DEF At, CheckpointSteps
    <3>3. \A e \in Conn : Relies(e)' => Relies(e) /\ pWal'[e] = pWal[e]
      BY <1>2, <1>3, <1>5 DEF Relies
    <3> QED
      BY <2>1, <2>3, <3>1, <3>2, <3>3 DEF ImageOK, StartOK, At, Copies
  <2>7. SaltOK(d)'
    BY <2>1, <2>2 DEF ImageOK, SaltOK, SaltBounded, HalfPublished, Recovering, RestartSteps, FrameSteps
  <2>8. CacheOK(d)'
    <3>1. ReadView(d)' = ReadView(d)
      BY <1>4, <2>1 DEF ReadView
    <3>2. (u.pc = "reading" /\ u.txn = 0 => OldSalt(u.hdr))'
      BY <1>2, <1>3, <2>1 DEF ImageOK, CacheOK, OldSalt, At
    <3>3. (Kept(u) => Stands(u.hdr, u.cache))'
      BY <1>6, <2>1 DEF ImageOK, CacheOK, Kept
    <3>4. (u.pc \in {"reading", "restart"} /\ u.readLock = 0 => Stands(u.hdr, db))'
      BY <1>4, <1>6, <2>1 DEF ImageOK, CacheOK
    <3> QED
      BY <1>4, <2>1, <2>2, <3>1, <3>2, <3>3, <3>4 DEF ImageOK, CacheOK, RestartSteps
  <2> QED
    BY <2>4, <2>5, <2>6, <2>7, <2>8 DEF ImageOK
<1>9. ImageOK(c)'
  <2>1. IndexOK(c)' /\ MarkOK(c)' /\ PlanOK(c)' /\ StartOK(c)' /\ RecoveredOK(c)'
    <3>1. w.pc = "recover_reset" => w.txn = 0
      BY <1>1, AtRecovery DEF Recovering
    <3> QED
      BY <1>2, <1>3, <1>5, <3>1
         DEF IndexOK, MarkOK, PlanOK, StartOK, RecoveredOK, At, Copies, RestartSteps
  <2>2. SaltOK(c)'
    <3>1. w.pc = "recover_reset" => w.txn = 0
      BY <1>1, AtRecovery DEF Recovering
    <3> QED
      BY <1>1, <1>2, <1>3, <3>1 DEF ImageOK, SaltOK, SaltBounded, HalfPublished, RestartSteps
  <2>3. CacheOK(c)'
    <3>1. (Kept(w) => Stands(w.hdr, w.cache))'
      BY <1>1, <1>2, <1>3, <1>6 DEF ImageOK, CacheOK, Kept, Recovering
    <3> QED
      BY <1>1, <1>2, <1>3, <3>1 DEF ImageOK, CacheOK
  <2> QED
    BY <2>1, <2>2, <2>3 DEF ImageOK
<1> QED
  BY <1>7, <1>8, <1>9 DEF ImageInv

\* A header of an empty log stands for the database.
LEMMA EmptyHeader ==
  ASSUME WInv
  PROVE  walHdr # None => 0 <= FoundEnd /\ (FoundEnd = 0 => FoundImage = db)
<1>1. FoundEnd = 0 => FoundImage = db
  BY EmptyLog DEF WInv, FilesTyped, FoundImage, Image
<1>2. walHdr # None => 0 <= FoundEnd
  BY EndFound, Numbers DEF FoundEnd
<1> QED
  BY <1>1, <1>2

\* The published log is in what a recovery finds.
LEMMA HeadFound ==
  ASSUME WInv, aHdr[0] # None, aHdr[0].mxFrame # 0
  PROVE  /\ walHdr # None /\ walHdr.salt = aHdr[0].salt
         /\ FoundEnd \in Nat /\ aHdr[0].mxFrame <= FoundEnd
<1>1. aHdr[0].mxFrame \in 1 .. MaxFrame /\ Written(wal, aHdr[0].mxFrame) /\ CommitChain(aHdr[0])
  BY LogWritten, Numbers DEF WInv, LogOK
<1>2. walHdr # None /\ walHdr.salt = aHdr[0].salt
  BY <1>1 DEF CommitChain, Chain
<1>3. 1 \in Frames /\ wal[1] # None
  BY <1>1, Numbers DEF Written, Frames
<1>4. walHdr \in FoundHdr
  BY <1>3 DEF FoundHdr
<1>5. aHdr[0].mxFrame <= FoundEnd
  BY <1>4, FoundFrames DEF FoundEnd
<1> QED
  BY <1>2, <1>5, EndFound, Numbers DEF FoundEnd

LEMMA RestartPublishImages ==
  ASSUME Known, WInv', NEW c \in Conn, restart_publish(c)
  PROVE  ImageInv'
<1> DEFINE w == pWal[c]
           g == w.hdr
           v == [w EXCEPT !.pc = "restart_reset"]
<1>1. /\ w.pc = "restart_publish" /\ pWal' = [pWal EXCEPT ![c] = v]
      /\ aHdr' = [aHdr EXCEPT ![0] = g] /\ UNCHANGED <<files, nBackfill, aPgno, nTxn>>
  BY DEF restart_publish, At, Goto, bounds
<1>2. /\ w \in WalObject /\ WInv /\ HeadOK /\ ImageOK(c) /\ WRITE \in exclusive[c]
      /\ ReadLocks \subseteq exclusive[c] /\ aHdr[0] # None /\ g # None /\ g.mxFrame = 0
      /\ w.mode = "READ" <=> w.txn # 0
      /\ w.readLock \in {-1, 0} /\ ~(w.readLock > 0)
  BY <1>1, AtRestart DEF Known, ImageInv, RestartSteps
<1>3. /\ v.hdr = g /\ v.txn = w.txn /\ v.cache = w.cache /\ v.changed = w.changed
      /\ v.mode = w.mode /\ v.readLock = w.readLock /\ v.pc = "restart_reset"
  BY <1>2 DEF WalObject
<1> HIDE DEF v
<1>4. /\ pWal'[c] = v /\ \A d \in Conn \ {c} : pWal'[d] = pWal[d]
      /\ aHdr'[0] = g /\ aHdr'[1] = g
  <2>1. aHdr[1] = g
    BY <1>1, <1>2 DEF ImageOK, SaltOK, HalfPublished
  <2> QED
    BY <1>1, <1>2, <2>1, ObjectTypes DEF WInv, SharedTyped
<1>5. /\ UNCHANGED <<db, wal, walHdr, walHdrOlder, walTruncated, nTxn>> /\ db \in Image
      /\ FoundEnd' = FoundEnd /\ FoundImage' = FoundImage
  BY <1>1, <1>2 DEF files, FoundEnd, FoundImage, WInv, FilesTyped
<1>6. /\ g.salt <= nTxn /\ aHdr[0].salt # g.salt /\ (w.mode = "READ" => g.salt = w.txn)
      /\ HeadImage = db
  BY <1>1, <1>2 DEF ImageOK, SaltOK, SaltBounded, CacheOK
<1>7. ASSUME NEW d \in Conn \ {c}
      PROVE  /\ pWal[d].txn = 0 /\ pWal[d].pc \notin Recovering \cup RestartSteps \cup FrameSteps
             /\ ~(pWal[d].readLock > 0) /\ pWal[d].pc # "verify"
             /\ pWal[d].pc # "ck_start" /\ ~Copies(d)
  <2>1. pWal[d].txn = 0 /\ pWal[d].pc \notin Recovering \cup RestartSteps \cup FrameSteps
    BY <1>2, OneWriter
  <2>2. ASSUME NEW i \in Slots PROVE READ_LOCK(i) \notin shared[d]
    BY <1>2, LockNumbers DEF WInv, Exclusion
  <2>3. ~(pWal[d].readLock > 0) /\ pWal[d].pc # "verify"
    BY <1>2, <2>2, ReaderFacts, VerifyFacts
  <2>4. pWal[d].pc # "ck_start" /\ ~Copies(d)
    <3>1. CASE w.mode = "READ"
      BY <1>1, <1>2, <3>1 DEF WInv, RestartAlone, At
    <3>2. CASE w.mode # "READ"
      <4>1. CKPT \in exclusive[c]
        BY <1>2, <3>2 DEF WInv, ConnOK, Holds
      <4>2. pWal[d].pc \in CheckpointSteps => CKPT \in exclusive[d]
        BY <1>2 DEF WInv, ConnOK, Holds, Control
      <4> QED
        BY <1>2, <4>1, <4>2 DEF WInv, Exclusion, CheckpointSteps, Copies
    <3> QED
      BY <3>1, <3>2
  <2> QED
    BY <2>1, <2>3, <2>4
<1>8. ASSUME NEW h, h.salt <= nTxn
      PROVE  OldSalt(h)'
  <2>1. ASSUME NEW d \in Conn
        PROVE  /\ pWal'[d].txn # 0 /\ aHdr'[0].salt # pWal'[d].txn => h.salt # pWal'[d].txn
               /\ pWal'[d].pc # "restart_publish"
    <3>1. CASE d = c
      BY <1>2, <1>3, <1>4, <1>6, <3>1
    <3>2. CASE d # c
      BY <1>4, <1>7, <3>2 DEF RestartSteps
    <3> QED
      BY <3>1, <3>2
  <2> QED
    BY <1>5, <1>8, <2>1 DEF OldSalt, At
<1>9. ASSUME NEW h, h.mxFrame \in Nat, NEW image, Stands(h, image)
      PROVE  Stands(h, image)'
  <2>1. OldSalt(h)'
    BY <1>8, <1>9 DEF Stands, OldSalt
  <2>2. FitsHead(h, image)'
    BY <1>1, <1>4, <1>9 DEF Stands, OldSalt, FitsHead, At
  <2>3. FitsFile(h, image)'
    <3>1. ASSUME walHdr # None, h.salt = walHdr.salt
          PROVE  h.mxFrame <= FoundEnd /\ (h.mxFrame = FoundEnd => image = FoundImage)
      <4>1. CASE aHdr[0].mxFrame = 0
        BY <1>9, <3>1, <4>1 DEF Stands, FitsFile
      <4>2. CASE aHdr[0].mxFrame # 0
        <5>1. walHdr.salt = aHdr[0].salt /\ FoundEnd \in Nat /\ aHdr[0].mxFrame <= FoundEnd
              /\ aHdr[0].mxFrame \in Nat
          BY <1>2, <4>2, HeadFound, LogWritten
        <5>2. h.mxFrame <= aHdr[0].mxFrame /\ (h.mxFrame = aHdr[0].mxFrame => image = HeadImage)
          BY <1>9, <3>1, <5>1 DEF Stands, FitsHead
        <5>3. h.mxFrame = FoundEnd => image = FoundImage
          BY <1>9, <5>1, <5>2 DEF HeadImage, FoundImage
        <5> QED
          BY <1>9, <5>1, <5>2, <5>3
      <4> QED
        BY <4>1, <4>2
    <3> QED
      BY <1>5, <3>1 DEF FitsFile
  <2> QED
    BY <2>1, <2>2, <2>3 DEF Stands
<1>10. HeadOK' /\ FileSaltsOK' /\ NotEmpty'
  <2>1. Restarting'
    BY <1>3, <1>4 DEF Restarting, At
  <2>2. HeadOK'
    BY <1>2, <1>4, <1>5, <1>6, <2>1 DEF HeadOK, Indexed
  <2> QED
    BY <1>4, <1>5, <2>2 DEF Known, ImageInv, FileSaltsOK, SaltBounded, NotEmpty
<1>11. ASSUME NEW d \in Conn \ {c} PROVE ImageOK(d)'
  <2> DEFINE u == pWal[d]
  <2>1. pWal'[d] = u /\ ImageOK(d) /\ d \in Conn
    BY <1>4 DEF Known, ImageInv
  <2>2. u.txn = 0 /\ u.pc \notin Recovering \cup RestartSteps \cup FrameSteps
        /\ ~(u.readLock > 0) /\ u.pc # "verify" /\ u.pc # "ck_start" /\ ~Copies(d)
    BY <1>7
  <2>3. IndexOK(d)' /\ MarkOK(d)' /\ RecoveredOK(d)' /\ PlanOK(d)' /\ StartOK(d)'
    BY <2>1, <2>2 DEF IndexOK, MarkOK, RecoveredOK, At, PlanOK, StartOK, Copies, Recovering
  <2>4. SaltOK(d)'
    BY <1>5, <2>1, <2>2 DEF ImageOK, SaltOK, SaltBounded, HalfPublished, Recovering, RestartSteps, FrameSteps
  <2>5. CacheOK(d)'
    <3>1. u.hdr # None => u.hdr.mxFrame \in Nat
      BY <1>2, ObjectTypes, Numbers DEF WInv
    <3>2. CacheOK(d) /\ (u.pc \in {"reading", "restart"} => u.hdr # None)
      BY <1>2, <2>1, AtReading DEF ImageOK
    <3>3. ReadView(d)' = ReadView(d)
      BY <1>1, <1>5, <2>1 DEF ReadView
    <3>4. (u.pc = "reading" /\ u.txn = 0 => OldSalt(u.hdr))'
      <4>1. u.pc = "reading" => u.hdr.salt <= nTxn
        BY <2>2, <3>2 DEF CacheOK, OldSalt
      <4>2. ASSUME u.hdr.salt <= nTxn PROVE OldSalt(u.hdr)'
        BY <1>8, <2>1, <4>2
      <4> QED
        BY <2>1, <4>1, <4>2
    <3>5. ASSUME NEW image, u.hdr # None, Stands(u.hdr, image)
          PROVE  Stands(u.hdr, image)'
      BY <1>9, <2>1, <3>1, <3>5
    <3>6. (Kept(u) => Stands(u.hdr, u.cache))'
      <4>1. Kept(u) => Stands(u.hdr, u.cache) /\ u.hdr # None
        BY <3>2 DEF CacheOK, Kept
      <4>2. Kept(u)' <=> Kept(u)
        BY <2>1 DEF Kept
      <4> QED
        BY <2>1, <3>5, <4>1, <4>2
    <3>7. (u.pc \in {"reading", "restart"} /\ u.readLock = 0 => Stands(u.hdr, db))'
      BY <1>5, <2>1, <3>2, <3>5 DEF CacheOK
    <3> QED
      BY <1>2, <1>4, <2>1, <2>2, <3>2, <3>3, <3>4, <3>6, <3>7 DEF CacheOK, RestartSteps
  <2> QED
    BY <2>3, <2>4, <2>5 DEF ImageOK
<1>12. ImageOK(c)'
  <2>1. IndexOK(c)' /\ MarkOK(c)' /\ PlanOK(c)' /\ StartOK(c)' /\ RecoveredOK(c)'
    BY <1>2, <1>3, <1>4
       DEF IndexOK, MarkOK, PlanOK, StartOK, RecoveredOK, At, Copies, RestartSteps
  <2>2. SaltOK(c)'
    BY <1>3, <1>4, <1>5, <1>6 DEF SaltOK, SaltBounded, HalfPublished, RestartSteps
  <2>3. CacheOK(c)'
    <3>1. v.cache # None /\ ~v.changed => v.cache = db
      BY <1>1, <1>2, <1>3 DEF ImageOK, CacheOK
    <3>2. Stands(pWal[c].hdr, db)'
      <4>1. OldSalt(pWal[c].hdr)'
        BY <1>3, <1>4, <1>6, <1>8
      <4>2. HeadImage' = db
        BY <1>2, <1>4, <1>5, EmptyLog DEF HeadImage, Image
      <4>3. walHdr # None => 0 <= FoundEnd /\ (FoundEnd = 0 => FoundImage = db)
        BY <1>2, EmptyHeader
      <4> QED
        BY <1>2, <1>3, <1>4, <1>5, <4>1, <4>2, <4>3 DEF Stands, FitsHead, FitsFile
    <3>3. (Kept(pWal[c]) => Stands(pWal[c].hdr, pWal[c].cache))'
      BY <1>4, <1>5, <3>1, <3>2 DEF Kept
    <3> QED
      BY <1>2, <1>3, <1>4, <3>3 DEF ImageOK, CacheOK
  <2> QED
    BY <2>1, <2>2, <2>3 DEF ImageOK
<1> QED
  BY <1>10, <1>11, <1>12 DEF ImageInv

-----------------------------------------------------------------------------
(* The steps that change the log or the database *)

\* A connection that has no part in it keeps what it stands for.
LEMMA ElsewhereKeeps ==
  ASSUME Known, NEW d \in Conn, pWal'[d] = pWal[d], nTxn' = nTxn, pWal[d].txn = 0,
         pWal[d].pc \notin Recovering \cup RestartSteps \cup FrameSteps,
         aHdr[0] # None, aHdr'[0] # None, MarkOK(d)', PlanOK(d)', StartOK(d)',
         OldSalt(pWal[d].hdr) => OldSalt(pWal[d].hdr)',
         \A image : pWal[d].hdr # None /\ Stands(pWal[d].hdr, image)
                      => Stands(pWal[d].hdr, image)',
         pWal[d].pc = "reading" => ReadView(d)' = ReadView(d),
         pWal[d].pc \in {"reading", "restart"} /\ pWal[d].readLock = 0 => db' = db
  PROVE  ImageOK(d)'
<1> DEFINE w == pWal[d]
<1>1. ImageOK(d) /\ WInv
  BY DEF Known, ImageInv
<1>2. IndexOK(d)' /\ RecoveredOK(d)'
  BY DEF IndexOK, RecoveredOK, At, Recovering
<1>3. SaltOK(d)'
  BY <1>1 DEF ImageOK, SaltOK, SaltBounded, HalfPublished, Recovering, RestartSteps, FrameSteps
<1>4. CacheOK(d)'
  <2>1. CacheOK(d) /\ (w.pc \in {"reading", "restart"} => w.hdr # None)
    BY <1>1, AtReading DEF ImageOK
  <2>2. (Kept(w) => Stands(w.hdr, w.cache))'
    <3>1. Kept(w) => Stands(w.hdr, w.cache) /\ w.hdr # None
      BY <2>1 DEF CacheOK, Kept
    <3>2. Kept(w)' <=> Kept(w)
      BY DEF Kept
    <3> QED
      BY <3>1, <3>2
  <2>3. (w.pc \in {"reading", "restart"} /\ w.readLock = 0 => Stands(w.hdr, db))'
    BY <2>1 DEF CacheOK
  <2>4. (w.pc = "reading" /\ w.txn = 0 =>
           OldSalt(w.hdr) /\ (w.cache # None => w.cache = ReadView(d)))'
    BY <2>1 DEF CacheOK
  <2> QED
    BY <2>1, <2>2, <2>3, <2>4 DEF CacheOK, RestartSteps
<1> QED
  BY <1>2, <1>3, <1>4 DEF ImageOK

\* A checkpointer is the only one.
LEMMA OneCheckpointer ==
  ASSUME WInv, NEW c \in Conn, pWal[c].mode # "READ", NEW d \in Conn \ {c}
  PROVE  pWal[d].mode = "READ" /\ pWal[d].pc # "ck_start" /\ ~Copies(d)
<1>1. CKPT \in exclusive[c] /\ CKPT \notin exclusive[d]
  BY DEF WInv, ConnOK, Holds, Exclusion
<1>2. pWal[d].mode = "READ"
  BY <1>1 DEF WInv, ConnOK, Holds
<1> QED
  BY <1>2 DEF WInv, ConnOK, Control, CheckpointSteps, Copies

LEMMA TruncateWalImages ==
  ASSUME Known, WInv', NEW c \in Conn, truncate_wal(c)
  PROVE  ImageInv'
<1> DEFINE w == pWal[c]
           v == [w EXCEPT !.pc = "ck_return"]
<1>1. /\ w.pc = "restart_marks" /\ w.mode # "READ" /\ pWal' = [pWal EXCEPT ![c] = v]
      /\ UNCHANGED <<db, aHdr, nBackfill, aPgno, nTxn>>
      /\ walHdr' = None /\ walHdrOlder' = {} /\ walTruncated' \subseteq LogRemains
  BY DEF truncate_wal, RestartMarks, At, Goto, bounds
<1>2. /\ w \in WalObject /\ WInv /\ HeadOK /\ ImageOK(c) /\ WRITE \in exclusive[c]
      /\ ReadLocks \subseteq exclusive[c] /\ aHdr[0] # None /\ w.hdr = aHdr[0]
      /\ aHdr[0].mxFrame = 0 /\ w.txn = 0 /\ w.readLock = -1 /\ db \in Image
      /\ ~(w.readLock > 0)
  BY <1>1, AtRestart DEF Known, ImageInv, RestartSteps, RestartOK, WInv, FilesTyped
<1>3. /\ v.hdr = w.hdr /\ v.txn = 0 /\ v.cache = w.cache /\ v.changed = w.changed
      /\ v.mode = w.mode /\ v.readLock = -1 /\ v.pc = "ck_return"
  BY <1>2 DEF WalObject
<1> HIDE DEF v
<1>4. pWal'[c] = v /\ \A d \in Conn \ {c} : pWal'[d] = pWal[d]
  BY <1>1, <1>2, ObjectTypes DEF WInv
<1>5. HeadImage' = HeadImage
  BY <1>1, <1>2, EmptyLog DEF HeadImage, Image
<1>6. ASSUME NEW h, OldSalt(h) PROVE OldSalt(h)'
  BY <1>1, <1>3, <1>4, <1>6 DEF OldSalt, At
<1>7. ASSUME NEW h, NEW image, Stands(h, image) PROVE Stands(h, image)'
  BY <1>1, <1>5, <1>6, <1>7 DEF Stands, FitsHead, FitsFile
<1>8. HeadOK' /\ FileSaltsOK' /\ NotEmpty'
  <2>1. HeadOK'
    <3>1. aHdr'[0] # None /\ ~Restarting' => nBackfill <= 0
      BY <1>1, <1>2 DEF WInv, NBackfillInLog
    <3>2. nBackfill \in Nat
      BY <1>2, Numbers DEF WInv, SharedTyped
    <3>3. ~Restarting' => 1 .. nBackfill = {}
      BY <1>1, <1>2, <3>1, <3>2
    <3> QED
      BY <1>1, <1>2, <3>3 DEF HeadOK, Indexed, Backfilled
  <2>2. FileSaltsOK'
    <3>1. ASSUME NEW log \in LogRemains PROVE SaltBounded(log.hdr)'
      <4>1. SaltBounded(log.hdr)
        BY <1>2, LogRemainsSalts DEF Known, ImageInv, WInv
      <4> QED
        BY <1>1, <4>1 DEF SaltBounded
    <3> QED
      BY <1>1, <3>1 DEF FileSaltsOK, SaltBounded
  <2>3. aHdr[1] = aHdr[0]
    BY <1>1, <1>2 DEF ImageOK, SaltOK
  <2> QED
    BY <1>1, <2>1, <2>2, <2>3 DEF NotEmpty
<1>9. ASSUME NEW d \in Conn \ {c} PROVE ImageOK(d)'
  <2> DEFINE u == pWal[d]
  <2>1. pWal'[d] = u /\ u.txn = 0 /\ u.pc \notin Recovering \cup RestartSteps \cup FrameSteps
    BY <1>2, <1>4, OneWriter
  <2>2. u.pc # "ck_start" /\ ~Copies(d)
    BY <1>1, <1>2, OneCheckpointer
  <2>3. ASSUME NEW i \in Slots PROVE READ_LOCK(i) \notin shared[d]
    BY <1>2, LockNumbers DEF WInv, Exclusion
  <2>4. ~(u.readLock > 0) /\ u.pc # "verify"
    BY <1>2, <2>3, ReaderFacts, VerifyFacts
  <2>5. MarkOK(d)' /\ PlanOK(d)' /\ StartOK(d)'
    BY <2>1, <2>2, <2>4 DEF MarkOK, PlanOK, StartOK, At, Copies
  <2>6. u.pc = "reading" => ReadView(d)' = ReadView(d)
    <3>1. u.readLock \in -1 .. NSlot
      BY <1>2, ObjectTypes DEF WInv
    <3>2. u.readLock <= 0
      BY <2>4, <3>1, Numbers
    <3> QED
      BY <1>1, <2>1, <3>2 DEF ReadView
  <2>7. OldSalt(u.hdr) => OldSalt(u.hdr)'
    BY <1>6, <2>1
  <2>8. \A image : Stands(u.hdr, image) => Stands(u.hdr, image)'
    BY <1>7, <2>1
  <2>9. aHdr'[0] # None /\ db' = db /\ nTxn' = nTxn
    BY <1>1, <1>2
  <2> QED
    BY <1>2, <2>1, <2>5, <2>6, <2>7, <2>8, <2>9, ElsewhereKeeps
<1>10. ImageOK(c)'
  <2>1. IndexOK(c)' /\ MarkOK(c)' /\ PlanOK(c)' /\ StartOK(c)' /\ RecoveredOK(c)'
    <3>1. ~(v.readLock > 0)
      BY <1>3
    <3> QED
      BY <1>3, <1>4, <3>1 DEF IndexOK, MarkOK, PlanOK, StartOK, RecoveredOK, At, Copies
  <2>2. SaltOK(c)'
    BY <1>1, <1>2, <1>3, <1>4 DEF ImageOK, SaltOK, SaltBounded, HalfPublished
  <2>3. (Kept(w) => Stands(w.hdr, w.cache))'
    BY <1>1, <1>2, <1>3, <1>4, <1>7 DEF ImageOK, CacheOK, Kept, Recovering
  <2>4. CacheOK(c)'
    BY <1>1, <1>2, <1>3, <1>4, <2>3 DEF ImageOK, CacheOK
  <2> QED
    BY <2>1, <2>2, <2>4 DEF ImageOK
<1> QED
  BY <1>8, <1>9, <1>10 DEF ImageInv

\* The copy of a newest frame takes nothing back.
LEMMA BackfilledCopy ==
  ASSUME NEW T, NEW file \in [Page -> T], NEW f, NEW m \in Nat, NEW n \in Nat, NEW r \in Nat,
         m <= r, NEW k \in 1 .. n, f[k].pgno \in Page, NewestIn(f, k, r),
         Backfilled(file, f, m, n)
  PROVE  Backfilled([file EXCEPT ![f[k].pgno] = f[k].by], f, m, n)
<1> DEFINE new == [file EXCEPT ![f[k].pgno] = f[k].by]
<1>1. ASSUME NEW j \in 1 .. m, NewestIn(f, j, n) PROVE new[f[j].pgno] = f[j].by
  <2>1. CASE f[j].pgno # f[k].pgno
    BY <1>1, <2>1 DEF Backfilled
  <2>2. CASE f[j].pgno = f[k].pgno
    <3>1. ~(j < k)
      <4>1. j < k => k \in j + 1 .. n
        OBVIOUS
      <4> QED
        BY <1>1, <2>2, <4>1 DEF NewestIn
    <3>2. ~(k < j)
      <4>1. k < j => j \in k + 1 .. r
        OBVIOUS
      <4> QED
        BY <2>2, <4>1 DEF NewestIn
    <3>3. j = k
      BY <3>1, <3>2
    <3> QED
      BY <3>3
  <2> QED
    BY <2>1, <2>2
<1> QED
  BY <1>1 DEF Backfilled

\* Who may be there while a checkpointer copies.
LEMMA WhileCopying ==
  ASSUME WInv, NEW c \in Conn, pWal[c].pc = "ck_copy", NEW d \in Conn \ {c}
  PROVE  /\ pWal[d].pc \notin Recovering \cup RestartSteps /\ pWal[d].readLock # 0
         /\ pWal[d].pc # "ck_start" /\ ~Copies(d)
<1>1. /\ CheckpointOK(c) /\ Holds(c) /\ pWal[c].mode # "READ" /\ aHdr[0] # None
      /\ pWal[c].hdr.mxFrame \in 0 .. MaxFrame /\ aHdr[0].mxFrame \in 0 .. MaxFrame
      /\ nBackfill \in 0 .. MaxFrame
  BY AtCheckpoint DEF CheckpointSteps
<1>2. CKPT \in exclusive[c] /\ READ_LOCK(0) \in exclusive[c]
  BY <1>1 DEF Holds
<1>3. CKPT \notin exclusive[d] /\ READ_LOCK(0) \notin shared[d]
  BY <1>2 DEF WInv, Exclusion
<1>4. pWal[d].pc \notin Recovering
  BY <1>3, AtRecovery
<1>5. pWal[d].readLock # 0
  BY <1>3 DEF WInv, ConnOK, Holds
<1>6. pWal[d].pc \notin RestartSteps
  BY <1>3, <1>5, AtRestart DEF Holds
<1> QED
  BY <1>1, <1>4, <1>5, <1>6, OneCheckpointer

LEMMA CopyImages ==
  ASSUME Known, WInv', NEW c \in Conn, NEW k \in pWal[c].plan, ck_copy(c, k)
  PROVE  ImageInv'
<1> DEFINE w == pWal[c]
           n == aHdr[0].mxFrame
           r == w.hdr.mxFrame
           p == wal[k].pgno
           v == [w EXCEPT !.plan = @ \ {k}]
<1>1. /\ w.pc = "ck_copy" /\ db' = [db EXCEPT ![aPgno[k]] = wal[k].by]
      /\ pWal' = [pWal EXCEPT ![c] = v]
      /\ UNCHANGED <<wal, walHdr, walHdrOlder, walTruncated, aHdr, nBackfill, aPgno, nTxn>>
  BY DEF ck_copy, At, shm, bounds
<1>2. /\ w \in WalObject /\ WInv /\ HeadOK /\ ImageOK(c) /\ aHdr[0] # None /\ CheckpointOK(c)
      /\ w.readLock = -1 /\ w.txn = 0 /\ r \in Nat /\ n \in Nat /\ nBackfill \in Nat
      /\ w.mxSafe \in Nat /\ db \in Image /\ db' \in Image /\ ~(w.readLock > 0)
  BY <1>1, AtCheckpoint, ObjectTypes, Numbers
     DEF Known, ImageInv, CheckpointSteps, WInv, FilesTyped
<1>3. /\ k \in 1 .. w.mxSafe /\ w.mxSafe <= r /\ r <= n /\ nBackfill < r
      /\ k \in 1 .. n /\ k > nBackfill /\ NewestIn(wal, k, r) /\ n # 0
  BY <1>1, <1>2 DEF CheckpointOK, Copies, ImageOK, PlanOK
<1>4. p = aPgno[k] /\ p \in Page /\ Written(wal, n) /\ wal[k] # None
  BY <1>2, <1>3, LogWritten DEF HeadOK, Indexed, Written
<1>5. /\ v.hdr = w.hdr /\ v.txn = 0 /\ v.cache = w.cache /\ v.changed = w.changed
      /\ v.mode = w.mode /\ v.readLock = -1 /\ v.pc = "ck_copy" /\ v.plan = w.plan \ {k}
      /\ v.mxSafe = w.mxSafe
  BY <1>1, <1>2 DEF WalObject
<1> HIDE DEF v
<1>6. pWal'[c] = v /\ \A d \in Conn \ {c} : pWal'[d] = pWal[d]
  BY <1>1, <1>2, ObjectTypes DEF WInv
<1>7. db' = [db EXCEPT ![p] = wal[k].by] /\ \A q \in Page : q # p => db'[q] = db[q]
  BY <1>1, <1>2, <1>4 DEF Image
<1>8. ASSUME NEW m \in Nat, m <= r, NEW e \in Nat, k <= e, Backfilled(db, wal, m, e)
      PROVE  Backfilled(db', wal, m, e)
  <2>1. k \in 1 .. e
    BY <1>2, <1>3, <1>8
  <2> QED
    BY <1>2, <1>3, <1>4, <1>7, <1>8, <2>1, BackfilledCopy DEF Image
<1>9. HeadImage' = HeadImage
  <2>1. LogImage(db', wal, n) = LogImage(db, wal, n)
    <3>1. \A q \in Page : db'[q] = db[q] \/ \E j \in 1 .. n : wal[j].pgno = q
      BY <1>3, <1>7
    <3>2. Written(wal, n) /\ n \in Nat /\ \A j \in 1 .. n : wal[j] = wal[j]
      BY <1>2, <1>4
    <3> HIDE DEF n
    <3> QED
      BY <3>1, <3>2, SameImage
  <2> QED
    BY <1>1, <2>1 DEF HeadImage
<1>10. ASSUME NEW h, OldSalt(h) PROVE OldSalt(h)'
  BY <1>1, <1>5, <1>6, <1>10 DEF OldSalt, At
<1>11. ASSUME NEW h, NEW image, Stands(h, image) PROVE Stands(h, image)'
  BY <1>1, <1>3, <1>9, <1>10, <1>11 DEF Stands, FitsHead, FitsFile
<1>12. ~Restarting /\ ~Restarting'
  BY <1>1, <1>2, <1>5, <1>6, WhileCopying DEF Restarting, At, RestartSteps
<1>13. HeadOK' /\ FileSaltsOK' /\ NotEmpty'
  <2>1. HeadOK'
    <3>1. Backfilled(db, wal, nBackfill, n)
      BY <1>2, <1>12 DEF HeadOK
    <3>2. Backfilled(db', wal, nBackfill, n)
      BY <1>2, <1>3, <1>8, <3>1
    <3> QED
      BY <1>1, <1>2, <3>2 DEF HeadOK
  <2>2. NotEmpty'
    BY <1>1, <1>5, <1>6 DEF Known, ImageInv, NotEmpty, At
  <2> QED
    BY <1>1, <2>1, <2>2 DEF Known, ImageInv, FileSaltsOK, SaltBounded
<1>14. ASSUME NEW d \in Conn \ {c} PROVE ImageOK(d)'
  <2> DEFINE u == pWal[d]
  <2>1. pWal'[d] = u /\ ImageOK(d) /\ d \in Conn
    BY <1>6 DEF Known, ImageInv
  <2>2. /\ u.pc \notin Recovering \cup RestartSteps /\ u.readLock # 0
        /\ u.pc # "ck_start" /\ ~Copies(d)
    BY <1>1, <1>2, WhileCopying
  <2>3. IndexOK(d)' /\ RecoveredOK(d)' /\ PlanOK(d)' /\ StartOK(d)'
    BY <1>1, <2>1, <2>2
       DEF IndexOK, RecoveredOK, PlanOK, StartOK, At, Copies, ImageOK, Recovering
  <2>4. MarkOK(d)'
    <3>1. Relies(d) => u.minFrame - 1 <= r
      BY <1>1, <1>2 DEF ImageOK, StartOK, Copies
    <3>2. ASSUME u.pc = "verify" PROVE Backfilled(db', wal, u.minFrame - 1, n)
      <4>1. u.minFrame - 1 \in Nat
        BY <1>2, <3>2, VerifyFacts
      <4>2. Backfilled(db, wal, u.minFrame - 1, n)
        BY <2>1, <3>2 DEF ImageOK, MarkOK
      <4> QED
        BY <1>2, <1>3, <1>8, <3>1, <3>2, <4>1, <4>2 DEF Relies
    <3>3. ASSUME u.readLock > 0 PROVE Backfilled(db', wal, u.minFrame - 1, Last(d))
      <4>1. u.minFrame - 1 \in Nat /\ Last(d) \in Nat
        BY <1>2, <3>3, ReaderFacts
      <4>2. Backfilled(db, wal, u.minFrame - 1, Last(d))
        BY <2>1, <3>3 DEF ImageOK, MarkOK
      <4>3. k <= Last(d)
        BY <1>1, <1>2, <1>3, <3>3, <4>1, CopiedInSnapshots
      <4> QED
        BY <1>8, <3>1, <3>3, <4>1, <4>2, <4>3 DEF Relies
    <3>4. Last(d)' = Last(d)
      BY <1>1, <2>1 DEF Last
    <3> QED
      BY <1>1, <2>1, <3>2, <3>3, <3>4 DEF MarkOK
  <2>5. SaltOK(d)'
    BY <1>1, <2>1, <2>2 DEF ImageOK, SaltOK, SaltBounded, RestartSteps
  <2>6. CacheOK(d)'
    <3>1. CacheOK(d)
      BY <2>1 DEF ImageOK
    <3>2. (Kept(u) => Stands(u.hdr, u.cache))'
      BY <1>11, <2>1, <3>1 DEF CacheOK, Kept
    <3>3. (u.pc = "reading" /\ u.txn = 0 => OldSalt(u.hdr))'
      BY <1>10, <2>1, <3>1 DEF CacheOK
    <3>4. ASSUME u.pc = "reading", u.txn = 0 PROVE ReadView(d)' = ReadView(d)
      <4>1. u.readLock > 0
        BY <1>2, <2>1, <2>2, <3>4, AtReading
      <4>2. u.hdr.mxFrame \in Nat /\ u.hdr.mxFrame <= n /\ Last(d) = u.hdr.mxFrame
        BY <1>2, <2>1, <3>4, <4>1, ReaderImage DEF ImageOK, Last
      <4>3. k \in 1 .. u.hdr.mxFrame
        BY <1>1, <1>2, <1>3, <4>1, <4>2, CopiedInSnapshots
      <4>4. Indexed(aPgno', wal', u.hdr.mxFrame)
        BY <1>1, <1>2, <4>2 DEF HeadOK, Indexed
      <4>5. Backfilled(db', wal', u.minFrame - 1, u.hdr.mxFrame)
        BY <1>1, <2>1, <2>4, <3>4, <4>1 DEF MarkOK, Last
      <4>6. \A q \in Page : db'[q] = db[q] \/ \E j \in 1 .. u.hdr.mxFrame : wal[j].pgno = q
        BY <1>7, <4>3
      <4> QED
        BY <1>1, <1>2, <2>1, <3>4, <4>1, <4>4, <4>5, <4>6, ViewStays DEF ImageOK
    <3> QED
      BY <1>1, <2>1, <2>2, <3>1, <3>2, <3>3, <3>4 DEF CacheOK, RestartSteps
  <2> QED
    BY <2>3, <2>4, <2>5, <2>6 DEF ImageOK
<1>15. ImageOK(c)'
  <2>1. IndexOK(c)' /\ MarkOK(c)' /\ RecoveredOK(c)'
    BY <1>2, <1>5, <1>6 DEF IndexOK, MarkOK, RecoveredOK, At
  <2>2. PlanOK(c)'
    <3>1. PlanOK(c)
      BY <1>2 DEF ImageOK
    <3>2. ASSUME NEW j \in nBackfill + 1 .. w.mxSafe, NewestIn(wal, j, r)
          PROVE  j \in w.plan \ {k} \/ db'[wal[j].pgno] = wal[j].by
      <4>1. j \in w.plan \/ db[wal[j].pgno] = wal[j].by
        BY <1>1, <3>1, <3>2 DEF PlanOK
      <4>2. j \in 1 .. n /\ wal[j].pgno \in Page
        BY <1>2, <1>3, <1>4 DEF Written
      <4>3. CASE j = k
        BY <1>2, <1>4, <1>7, <4>3 DEF Image
      <4>4. CASE j # k
        <5>1. wal[j].pgno # p
          <6>1. j < k => k \in j + 1 .. r
            BY <1>2, <1>3
          <6>2. k < j => j \in k + 1 .. r
            BY <1>2, <1>3
          <6>3. j < k \/ k < j
            BY <1>2, <1>3, <4>4
          <6> QED
            BY <1>3, <3>2, <6>1, <6>2, <6>3 DEF NewestIn
        <5> QED
          BY <1>7, <4>1, <4>2, <4>4, <5>1
      <4> QED
        BY <4>3, <4>4
    <3> QED
      BY <1>1, <1>5, <1>6, <3>1, <3>2 DEF PlanOK
  <2>3. StartOK(c)'
    <3>1. StartOK(c) /\ Copies(c)
      BY <1>1, <1>2 DEF ImageOK, Copies
    <3>2. \A e \in Conn : Relies(e)' => Relies(e) /\ pWal'[e] = pWal[e]
      BY <1>5, <1>6 DEF Relies
    <3> QED
      BY <1>1, <1>5, <1>6, <1>12, <3>1, <3>2 DEF StartOK
  <2>4. SaltOK(c)'
    BY <1>1, <1>2, <1>5, <1>6 DEF ImageOK, SaltOK, SaltBounded, HalfPublished
  <2>5. CacheOK(c)'
    <3>1. (Kept(w) => Stands(w.hdr, w.cache))'
      BY <1>1, <1>2, <1>5, <1>6, <1>11 DEF ImageOK, CacheOK, Kept
    <3> QED
      BY <1>1, <1>2, <1>5, <1>6, <3>1 DEF ImageOK, CacheOK
  <2> QED
    BY <2>1, <2>2, <2>3, <2>4, <2>5 DEF ImageOK
<1> QED
  BY <1>13, <1>14, <1>15 DEF ImageInv

LEMMA CopiedImages ==
  ASSUME Known, WInv', NEW c \in Conn, ck_done(c)
  PROVE  ImageInv'
<1> DEFINE w == pWal[c]
           n == aHdr[0].mxFrame
           r == w.hdr.mxFrame
           v == [w EXCEPT !.pc = "ck_end", !.mxSafe = 0]
<1>1. /\ w.pc = "ck_copy" /\ w.plan = {} /\ nBackfill' = w.mxSafe
      /\ pWal' = [pWal EXCEPT ![c] = v]
      /\ UNCHANGED <<db, wal, walHdr, walHdrOlder, walTruncated, aHdr, aPgno, nTxn>>
  BY DEF ck_done, At, bounds
<1>2. /\ w \in WalObject /\ WInv /\ HeadOK /\ ImageOK(c) /\ aHdr[0] # None /\ CheckpointOK(c)
      /\ w.readLock = -1 /\ w.txn = 0 /\ r \in Nat /\ n \in Nat /\ nBackfill \in Nat
      /\ w.mxSafe \in Nat /\ ~(w.readLock > 0)
  BY <1>1, AtCheckpoint, ObjectTypes, Numbers DEF Known, ImageInv, CheckpointSteps
<1>3. w.mxSafe <= r /\ r <= n /\ nBackfill < r
  BY <1>1, <1>2 DEF CheckpointOK, Copies
<1>4. /\ v.hdr = w.hdr /\ v.txn = 0 /\ v.cache = w.cache /\ v.changed = w.changed
      /\ v.mode = w.mode /\ v.readLock = -1 /\ v.pc = "ck_end"
  BY <1>1, <1>2 DEF WalObject
<1> HIDE DEF v
<1>5. pWal'[c] = v /\ \A d \in Conn \ {c} : pWal'[d] = pWal[d]
  BY <1>1, <1>2, ObjectTypes DEF WInv
<1>6. /\ HeadImage' = HeadImage /\ FoundEnd' = FoundEnd /\ FoundImage' = FoundImage
  BY <1>1 DEF HeadImage, FoundEnd, FoundImage
<1>7. ASSUME NEW h, OldSalt(h) PROVE OldSalt(h)'
  BY <1>1, <1>4, <1>5, <1>7 DEF OldSalt, At
<1>8. ASSUME NEW h, NEW image, Stands(h, image) PROVE Stands(h, image)'
  BY <1>1, <1>6, <1>7, <1>8 DEF Stands, FitsHead, FitsFile
<1>9. ~Restarting
  BY <1>1, <1>2, WhileCopying DEF Restarting, At, RestartSteps
<1>10. Backfilled(db, wal, w.mxSafe, n)
  <2>1. ASSUME NEW k \in 1 .. w.mxSafe, NewestIn(wal, k, n) PROVE db[wal[k].pgno] = wal[k].by
    <3>1. CASE k <= nBackfill
      <4>1. k \in 1 .. nBackfill
        BY <1>2, <3>1
      <4> QED
        BY <1>2, <1>9, <2>1, <4>1 DEF HeadOK, Backfilled
    <3>2. CASE k > nBackfill
      <4>1. k \in nBackfill + 1 .. w.mxSafe
        BY <1>2, <3>2
      <4>2. NewestIn(wal, k, r)
        BY <1>2, <1>3, <2>1 DEF NewestIn
      <4> QED
        BY <1>1, <1>2, <4>1, <4>2 DEF ImageOK, PlanOK
    <3> QED
      BY <1>2, <3>1, <3>2
  <2> QED
    BY <2>1 DEF Backfilled
<1>11. HeadOK' /\ FileSaltsOK' /\ NotEmpty'
  <2>1. HeadOK'
    BY <1>1, <1>2, <1>10 DEF HeadOK
  <2>2. NotEmpty'
    BY <1>1, <1>4, <1>5 DEF Known, ImageInv, NotEmpty, At
  <2> QED
    BY <1>1, <2>1, <2>2 DEF Known, ImageInv, FileSaltsOK, SaltBounded
<1>12. ASSUME NEW d \in Conn \ {c} PROVE ImageOK(d)'
  <2> DEFINE u == pWal[d]
  <2>1. pWal'[d] = u /\ ImageOK(d) /\ d \in Conn
    BY <1>5 DEF Known, ImageInv
  <2>2. /\ u.pc \notin Recovering \cup RestartSteps /\ u.readLock # 0
        /\ u.pc # "ck_start" /\ ~Copies(d)
    BY <1>1, <1>2, WhileCopying
  <2>3. IndexOK(d)' /\ RecoveredOK(d)' /\ PlanOK(d)' /\ StartOK(d)'
    BY <1>1, <2>1, <2>2
       DEF IndexOK, RecoveredOK, PlanOK, StartOK, At, Copies, ImageOK, Recovering
  <2>4. MarkOK(d)'
    BY <1>1, <2>1 DEF ImageOK, MarkOK, Last
  <2>5. SaltOK(d)'
    BY <1>1, <2>1, <2>2 DEF ImageOK, SaltOK, SaltBounded, RestartSteps
  <2>6. CacheOK(d)'
    <3>1. CacheOK(d)
      BY <2>1 DEF ImageOK
    <3>2. (Kept(u) => Stands(u.hdr, u.cache))'
      BY <1>8, <2>1, <3>1 DEF CacheOK, Kept
    <3>3. (u.pc = "reading" /\ u.txn = 0 => OldSalt(u.hdr))'
      BY <1>7, <2>1, <3>1 DEF CacheOK
    <3>4. ReadView(d)' = ReadView(d)
      BY <1>1, <2>1 DEF ReadView
    <3> QED
      BY <1>1, <2>1, <2>2, <3>1, <3>2, <3>3, <3>4 DEF CacheOK, RestartSteps
  <2> QED
    BY <2>3, <2>4, <2>5, <2>6 DEF ImageOK
<1>13. ImageOK(c)'
  <2>1. IndexOK(c)' /\ MarkOK(c)' /\ RecoveredOK(c)' /\ PlanOK(c)' /\ StartOK(c)'
    BY <1>2, <1>4, <1>5 DEF IndexOK, MarkOK, RecoveredOK, PlanOK, StartOK, At, Copies
  <2>2. SaltOK(c)'
    BY <1>1, <1>2, <1>4, <1>5 DEF ImageOK, SaltOK, SaltBounded, HalfPublished
  <2>3. CacheOK(c)'
    <3>1. (Kept(w) => Stands(w.hdr, w.cache))'
      BY <1>1, <1>2, <1>4, <1>5, <1>8 DEF ImageOK, CacheOK, Kept, Recovering
    <3> QED
      BY <1>1, <1>2, <1>4, <1>5, <3>1 DEF ImageOK, CacheOK
  <2> QED
    BY <2>1, <2>2, <2>3 DEF ImageOK
<1> QED
  BY <1>11, <1>12, <1>13 DEF ImageInv

\* A step of a writer that may change the log behind what is published.
Appending(c) ==
  /\ UNCHANGED <<db, aHdr, nBackfill, nTxn>> /\ aHdr[0] # None
  /\ pWal[c].pc \in FrameSteps /\ pWal'[c].pc \notin RestartSteps
  /\ pWal'[c].txn = pWal[c].txn
  /\ pWal'[c].readLock = pWal[c].readLock /\ pWal'[c].minFrame = pWal[c].minFrame
  /\ pWal'[c].cache = pWal[c].cache /\ pWal'[c].changed = pWal[c].changed
  /\ pWal'[c].pc \notin {"verify", "recover_publish", "ck_start", "publish"} /\ ~Copies(c)'
  /\ \A d \in Conn \ {c} : pWal'[d] = pWal[d]
  /\ \A k \in 1 .. aHdr[0].mxFrame : wal'[k] = wal[k]
  /\ \A k \in Frames : wal[k] # None => wal'[k] # None
  /\ Indexed(aPgno', wal', aHdr[0].mxFrame)
  /\ walHdr' # None /\ walHdr'.salt \in {aHdr[0].salt, pWal[c].txn}

LEMMA AppendingStands ==
  ASSUME Known, WInv', NEW c \in Conn, Appending(c), NEW h, h.mxFrame \in Nat,
         NEW image, Stands(h, image)
  PROVE  Stands(h, image)'
<1> DEFINE n == aHdr[0].mxFrame
<1>1. n \in Nat /\ Written(wal, n) /\ db \in Image
  BY LogWritten DEF Appending, Known
<1>2. HeadImage' = HeadImage
  <2>1. \A p \in Page : db'[p] = db[p] \/ \E k \in 1 .. n : wal[k].pgno = p
    BY DEF Appending
  <2>2. \A k \in 1 .. n : wal'[k] = wal[k]
    BY DEF Appending
  <2>3. LogImage(db', wal', n) = LogImage(db, wal, n)
    <3> HIDE DEF n
    <3> QED
      BY <1>1, <2>1, <2>2, SameImage
  <2> QED
    BY <2>3 DEF HeadImage, Appending
<1>3. OldSalt(h)'
  <2>1. \A d \in Conn : pWal'[d].txn = pWal[d].txn
    BY DEF Appending
  <2>2. \A d \in Conn : pWal'[d].pc = "restart_publish" => pWal'[d] = pWal[d]
    BY DEF Appending, RestartSteps
  <2> QED
    BY <2>1, <2>2 DEF Appending, Stands, OldSalt, At
<1>4. FitsHead(h, image)'
  BY <1>2 DEF Appending, Stands, FitsHead
<1>5. FitsFile(h, image)'
  <2>1. ASSUME n = 0, h.salt = walHdr'.salt
        PROVE  h.mxFrame <= FoundEnd' /\ (h.mxFrame = FoundEnd' => image = FoundImage')
    <3>1. h.salt = aHdr[0].salt
      <4>1. pWal[c].txn # 0
        BY AtFrame DEF Known, Appending
      <4> QED
        BY <2>1, <4>1 DEF Appending, Stands, OldSalt
    <3>2. h.mxFrame = 0 /\ image = HeadImage
      BY <2>1, <3>1 DEF Stands, FitsHead
    <3>3. HeadImage = db
      BY <1>1, <2>1, EmptyLog DEF HeadImage, Image
    <3>4. FoundEnd' \in 0 .. MaxFrame
      BY EndFound DEF FoundEnd, Appending
    <3>5. FoundEnd' = 0 => FoundImage' = db
      BY <1>1, EmptyLog DEF FoundImage, Image, Appending
    <3> QED
      BY <3>2, <3>3, <3>4, <3>5, Numbers
  <2> QED
    BY <2>1 DEF Appending, FitsFile
<1> QED
  BY <1>3, <1>4, <1>5 DEF Stands

LEMMA AppendingKeeps ==
  ASSUME Known, WInv', NEW c \in Conn, Appending(c), FileSaltsOK', IndexOK(c)', SaltOK(c)'
  PROVE  ImageInv'
<1> DEFINE w == pWal[c]
           n == aHdr[0].mxFrame
<1>1. /\ UNCHANGED <<db, aHdr, nBackfill, nTxn>> /\ aHdr[0] # None /\ WInv /\ ImageOK(c)
      /\ \A d \in Conn \ {c} : pWal'[d] = pWal[d]
      /\ \A k \in 1 .. n : wal'[k] = wal[k]
      /\ Indexed(aPgno', wal', n) /\ HeadOK /\ db \in Image /\ nBackfill \in Nat
  BY Numbers DEF Appending, Known, ImageInv, WInv, FilesTyped, SharedTyped
<1>2. /\ w.txn # 0 /\ w.readLock > 0 /\ WRITE \in exclusive[c] /\ n \in Nat /\ w.mode = "READ"
      /\ w.hdr # None
  BY AtFrame, Numbers DEF Known, Appending
<1>3. ASSUME NEW m \in Nat, NEW e \in Nat, m <= e, e <= n, Backfilled(db, wal, m, e)
      PROVE  Backfilled(db', wal', m, e)
  <2>1. \A k \in 1 .. e : wal'[k] = wal[k]
    BY <1>1, <1>2, <1>3
  <2> QED
    BY <1>1, <1>3, <2>1, BackfilledSame
<1>4. \A d \in Conn \ {c} : pWal[d].txn = 0 /\ pWal[d].pc \notin Recovering \cup RestartSteps \cup FrameSteps
  BY <1>1, <1>2, OneWriter
<1>5. ~Restarting /\ ~Restarting'
  <2>1. \A d \in Conn : pWal[d].pc # "restart_reset" /\ pWal'[d].pc # "restart_reset"
    BY <1>1, <1>4 DEF Appending, RestartSteps, FrameSteps
  <2> QED
    BY <2>1 DEF Restarting, At
<1>6. HeadOK' /\ NotEmpty'
  <2>1. Backfilled(db', wal', nBackfill, n)
    <3>1. nBackfill <= n
      BY <1>1, <1>5 DEF WInv, NBackfillInLog
    <3> QED
      BY <1>1, <1>2, <1>3, <1>5, <3>1 DEF HeadOK
  <2>2. NotEmpty'
    <3>1. \A d \in Conn : ~At(d, "restart_publish")
      BY <1>4 DEF Appending, At, RestartSteps, FrameSteps
    <3> QED
      BY <1>1, <3>1 DEF Known, ImageInv, NotEmpty, Appending
  <2> QED
    BY <1>1, <2>1, <2>2 DEF HeadOK
<1>7. ASSUME NEW d \in Conn \ {c} PROVE ImageOK(d)'
  <2> DEFINE u == pWal[d]
  <2>1. /\ pWal'[d] = u /\ ImageOK(d) /\ d \in Conn /\ u.txn = 0
        /\ u.pc \notin Recovering \cup RestartSteps \cup FrameSteps
    BY <1>1, <1>4 DEF Known, ImageInv
  <2>2. MarkOK(d)'
    <3>1. ASSUME u.pc = "verify" PROVE Backfilled(db', wal', u.minFrame - 1, n)
      <4>1. u.minFrame - 1 \in Nat /\ u.minFrame - 1 <= n
        BY <1>1, <1>2, <3>1, VerifyFacts
      <4> QED
        BY <1>2, <1>3, <2>1, <3>1, <4>1 DEF ImageOK, MarkOK
    <3>2. ASSUME u.readLock > 0 PROVE Backfilled(db', wal', u.minFrame - 1, Last(d))
      <4>1. u.minFrame - 1 \in Nat /\ u.minFrame - 1 <= Last(d) /\ Last(d) \in Nat /\ Last(d) <= n
        BY <1>1, <1>2, <3>2, ReaderFacts
      <4> QED
        BY <1>3, <2>1, <3>2, <4>1 DEF ImageOK, MarkOK
    <3>3. Last(d)' = Last(d)
      BY <1>1, <2>1 DEF Last
    <3> QED
      BY <1>1, <2>1, <3>1, <3>2, <3>3 DEF MarkOK
  <2>3. PlanOK(d)'
    <3>1. ASSUME u.pc \in {"ck_lock", "ck_copy"}
          PROVE  /\ \A k \in u.plan : k \in 1 .. u.hdr.mxFrame
                 /\ u.mxSafe <= u.hdr.mxFrame /\ u.hdr.mxFrame <= n /\ u.mxSafe \in Nat
                 /\ u.hdr.mxFrame \in Nat
      BY <1>1, <3>1, AtCheckpoint, ObjectTypes, Numbers DEF CheckpointSteps, CheckpointOK, Copies, WInv
    <3>2. ASSUME u.pc \in {"ck_lock", "ck_copy"}, NEW k \in 1 .. u.hdr.mxFrame
          PROVE  /\ wal'[k] = wal[k]
                 /\ NewestIn(wal', k, u.hdr.mxFrame) <=> NewestIn(wal, k, u.hdr.mxFrame)
      <4>1. \A j \in 1 .. u.hdr.mxFrame : wal'[j] = wal[j]
        BY <1>1, <1>2, <3>1, <3>2
      <4>2. \A j \in k + 1 .. u.hdr.mxFrame : wal'[j] = wal[j]
        BY <3>1, <3>2, <4>1
      <4> QED
        BY <4>1, <4>2 DEF NewestIn
    <3>3. ASSUME u.pc \in {"ck_lock", "ck_copy"}
          PROVE  /\ \A k \in u.plan : k > nBackfill /\ NewestIn(wal', k, u.hdr.mxFrame)
                 /\ \A k \in nBackfill + 1 .. u.mxSafe : NewestIn(wal', k, u.hdr.mxFrame)
                      => k \in u.plan \/ db[wal'[k].pgno] = wal'[k].by
      <4>1. \A k \in nBackfill + 1 .. u.mxSafe : k \in 1 .. u.hdr.mxFrame
        BY <1>1, <3>1, <3>3
      <4> QED
        BY <2>1, <3>1, <3>2, <3>3, <4>1 DEF ImageOK, PlanOK
    <3> QED
      BY <1>1, <2>1, <3>3 DEF PlanOK
  <2>4. StartOK(d)'
    <3>1. \A e \in Conn : Relies(e)' => Relies(e) /\ pWal'[e].minFrame = pWal[e].minFrame
      BY <1>1, <1>2 DEF Relies, Appending
    <3> QED
      BY <1>1, <1>5, <2>1, <3>1 DEF ImageOK, StartOK, At, Copies
  <2>5. u.hdr # None => u.hdr.mxFrame \in Nat
    BY <1>1, ObjectTypes, Numbers DEF WInv
  <2>6. \A image : u.hdr # None /\ Stands(u.hdr, image) => Stands(u.hdr, image)'
    BY <2>1, <2>5, AppendingStands
  <2>7. OldSalt(u.hdr) => OldSalt(u.hdr)'
    <3>1. \A e \in Conn : pWal'[e].txn = pWal[e].txn /\ pWal'[e].pc # "restart_publish"
      BY <1>1, <1>4 DEF Appending, RestartSteps
    <3> QED
      BY <1>1, <2>1, <3>1 DEF OldSalt, At
  <2>8. u.pc = "reading" => ReadView(d)' = ReadView(d)
    <3> SUFFICES ASSUME u.pc = "reading" PROVE ReadView(d)' = ReadView(d)
      OBVIOUS
    <3>1. u.readLock \in 0 .. NSlot
      BY <1>1, <2>1, AtReading
    <3>2. CASE u.readLock = 0
      BY <1>1, <2>1, <3>2 DEF ReadView
    <3>3. CASE u.readLock > 0
      <4> DEFINE e == u.hdr.mxFrame
      <4>1. e \in Nat /\ e <= n /\ Last(d) = e
        BY <1>1, <2>1, <3>3, ReaderImage DEF ImageOK, Last
      <4>2. (\A k \in 1 .. e : wal'[k] = wal[k]) /\ Indexed(aPgno', wal', e)
        BY <1>1, <1>2, <4>1 DEF Indexed
      <4>3. Backfilled(db', wal', u.minFrame - 1, e)
        BY <1>1, <2>1, <2>2, <3>3 DEF MarkOK, Last
      <4> QED
        BY <1>1, <2>1, <3>3, <4>2, <4>3, ViewStays DEF ImageOK
    <3> QED
      BY <3>1, <3>2, <3>3
  <2>9. aHdr'[0] # None /\ db' = db /\ nTxn' = nTxn
    BY <1>1
  <2> QED
    BY <1>1, <2>1, <2>2, <2>3, <2>4, <2>6, <2>7, <2>8, <2>9, ElsewhereKeeps
<1>8. ImageOK(c)'
  <2>1. MarkOK(c)'
    <3>1. Last(c) = n /\ Last(c)' = n
      BY <1>1, <1>2 DEF Last, Appending
    <3>2. w.minFrame - 1 \in Nat /\ w.minFrame - 1 <= n
      BY <1>1, <1>2, <3>1, ReaderFacts
    <3>3. Backfilled(db', wal', w.minFrame - 1, n)
      BY <1>1, <1>2, <1>3, <3>1, <3>2 DEF ImageOK, MarkOK
    <3> QED
      BY <3>1, <3>3 DEF MarkOK, Appending
  <2>2. PlanOK(c)' /\ StartOK(c)' /\ RecoveredOK(c)'
    BY DEF PlanOK, StartOK, RecoveredOK, At, Copies, Appending
  <2>3. CacheOK(c)'
    <3>1. w.cache = None /\ ~w.changed
      BY <1>1, <1>2 DEF ImageOK, CacheOK
    <3> QED
      BY <1>2, <3>1 DEF CacheOK, Kept, Appending, RestartSteps
  <2> QED
    BY <2>1, <2>2, <2>3 DEF ImageOK
<1> QED
  BY <1>6, <1>7, <1>8 DEF ImageInv


LEMMA WriteHeaderImages ==
  ASSUME Known, WInv', NEW c \in Conn, write_wal_header(c)
  PROVE  ImageInv'
<1> DEFINE w == pWal[c]
           salt == IF w.nCkpt THEN w.hdr.salt ELSE w.txn
           v == [w EXCEPT !.pc = "sync_header", !.hdr.salt = salt, !.hdr.cksum = 0]
<1>1. /\ w.pc = "header" /\ walHdr' = [salt |-> salt, seq |-> w.nCkpt]
      /\ pWal' = [pWal EXCEPT ![c] = v] /\ walHdrOlder' = Unsynced(walHdrOlder, walHdr)
      /\ UNCHANGED <<db, wal, walTruncated, aHdr, nBackfill, aPgno, nTxn>>
  BY DEF write_wal_header, At, shm, bounds
<1>2. /\ w \in WalObject /\ w.hdr # None /\ w.hdr \in Header /\ w.txn # 0 /\ w.readLock > 0
      /\ w.txn = nTxn /\ nTxn \in Nat /\ aHdr[0] # None /\ WInv /\ ImageOK(c) /\ HeadOK
      /\ FileSaltsOK
  BY <1>1, AtFrame DEF Known, ImageInv, FrameSteps
<1>3. /\ v.pc = "sync_header" /\ v.hdr.salt = salt /\ v.hdr.mxFrame = w.hdr.mxFrame
      /\ v.hdr # None /\ v.txn = w.txn /\ v.readLock = w.readLock /\ v.minFrame = w.minFrame
      /\ v.cache = w.cache /\ v.changed = w.changed
  <2>1. v.hdr = [w.hdr EXCEPT !.salt = salt, !.cksum = 0]
    BY <1>2 DEF WalObject
  <2>2. salt \in Txn /\ 0 \in Txn
    <3>1. w.txn \in Txn /\ w.hdr.salt \in Txn
      BY <1>2 DEF WalObject, Header
    <3> QED
      BY <3>1, Numbers DEF Txn
  <2>3. v.hdr \in Header
    <3> HIDE DEF salt, v
    <3> QED
      BY <1>2, <2>1, <2>2 DEF Header
  <2>4. v.hdr.salt = salt /\ v.hdr.mxFrame = w.hdr.mxFrame
    BY <1>2, <2>1 DEF Header
  <2> QED
    BY <1>2, <2>3, <2>4, NoneAssumption DEF WalObject
<1> HIDE DEF v
<1>4. pWal'[c] = v /\ \A d \in Conn \ {c} : pWal'[d] = pWal[d]
  BY <1>1, <1>2, ObjectTypes DEF WInv
<1>5. salt \in {aHdr[0].salt, w.txn} /\ salt <= nTxn
  BY <1>1, <1>2 DEF ImageOK, SaltOK, SaltBounded, RestartSteps
<1> HIDE DEF salt
<1>6. walHdr' # None /\ walHdr'.salt = salt
  <2>1. walHdr' \in WalHdr
    <3>1. salt \in Txn /\ w.nCkpt \in BOOLEAN
      BY <1>2 DEF salt, Header, WalObject
    <3> QED
      BY <1>1, <3>1 DEF WalHdr
  <2> QED
    BY <1>1, <2>1, NoneAssumption
<1>7. Appending(c)
  BY <1>1, <1>2, <1>3, <1>4, <1>5, <1>6
     DEF Appending, FrameSteps, RestartSteps, Copies, HeadOK
<1>8. FileSaltsOK'
  <2>1. walHdrOlder' \subseteq walHdrOlder \cup {walHdr}
    BY <1>1 DEF Unsynced
  <2>2. SaltBounded(walHdr)'
    BY <1>1, <1>5, <1>6 DEF SaltBounded
  <2> QED
    BY <1>1, <1>2, <2>1, <2>2 DEF FileSaltsOK, SaltBounded
<1>9. IndexOK(c)'
  BY <1>1, <1>2, <1>3, <1>4 DEF ImageOK, IndexOK, RestartSteps, At
<1>10. SaltOK(c)'
  BY <1>1, <1>2, <1>3, <1>4, <1>5 DEF SaltOK, SaltBounded, HalfPublished, RestartSteps
<1> QED
  BY <1>7, <1>8, <1>9, <1>10, AppendingKeeps

\* The index has the frame that it is appended to, and those before it.
LEMMA AppendIndexed ==
  ASSUME WInv, NEW c \in Conn, pWal[c].pc \in {"frame", "append"}, NEW f,
         walIndexAppend(c, NextFrame(c), pWal[c].page),
         Indexed(aPgno, f, pWal[c].hdr.mxFrame), f[NextFrame(c)].pgno = pWal[c].page
  PROVE  /\ Indexed(aPgno', f, NextFrame(c))
         /\ \A k \in 1 .. pWal[c].hdr.mxFrame : aPgno'[k] = aPgno[k]
<1> DEFINE k == NextFrame(c)
           last == pWal[c].hdr.mxFrame
<1>1. last \in Nat /\ k = last + 1 /\ k \in Frames
  <2>1. pWal[c].pc \in FrameSteps \ {"publish"}
    BY DEF FrameSteps
  <2>2. k \in Frames
    BY <2>1, RoomForFrame
  <2>3. last \in 0 .. MaxFrame
    BY AtFrame DEF FrameSteps
  <2> QED
    BY <2>2, <2>3 DEF NextFrame
<1>2. aPgno'[k] = pWal[c].page
  BY <1>1 DEF walIndexAppend
<1>3. ASSUME NEW j \in 1 .. last PROVE aPgno'[j] = aPgno[j]
  <2>1. j \in Frames /\ j # k /\ k # 1 /\ ~(j > last)
    BY <1>1, Numbers DEF Frames
  <2> QED
    BY <2>1 DEF walIndexAppend
<1>4. \A j \in 1 .. k : j \in 1 .. last \/ j = k
  BY <1>1
<1> QED
  BY <1>2, <1>3, <1>4 DEF Indexed

\* What the next frame does to the log.
LEMMA FrameAppends ==
  ASSUME Known, NEW c \in Conn, pWal[c].pc = "frame", WriteNextFrame(c), nTxn' = nTxn
  PROVE  /\ wal'[NextFrame(c)] # None /\ wal'[NextFrame(c)].pgno = pWal[c].page
         /\ \A j \in 1 .. pWal[c].hdr.mxFrame : wal'[j] = wal[j]
         /\ \A j \in Frames : wal[j] # None => wal'[j] # None
         /\ UNCHANGED <<db, walHdr, walHdrOlder, walTruncated>>
         /\ aHdr[0].mxFrame <= pWal[c].hdr.mxFrame
         /\ walHdr # None /\ walHdr.salt = pWal[c].hdr.salt
         /\ Indexed(aPgno, wal', pWal[c].hdr.mxFrame)
         /\ pWal[c].hdr.salt \in {aHdr[0].salt, pWal[c].txn}
<1> DEFINE w == pWal[c]
           frame == [pgno |-> w.page, by |-> w.txn, commit |-> w.commit,
                     salt |-> w.hdr.salt, after |-> w.hdr.cksum]
<1>1. /\ w \in WalObject /\ w.hdr \in Header /\ w.page \in Page /\ w.txn # 0
      /\ WInv /\ ImageOK(c) /\ WriterOK(c)
  BY AtFrame DEF Known, ImageInv, FrameSteps
<1>2. frame \in Frame /\ frame # None
  <2>1. frame \in Frame
    BY <1>1 DEF Frame, Header, WalObject
  <2> QED
    BY <2>1, NoneAssumption
<1>3. /\ wal'[NextFrame(c)] = frame
      /\ \A j \in 1 .. w.hdr.mxFrame : wal'[j] = wal[j]
  BY <1>1, FrameWritten
<1>4. /\ wal' = [wal EXCEPT ![NextFrame(c)] = frame]
      /\ UNCHANGED <<db, walHdr, walHdrOlder, walTruncated>>
  BY DEF WriteNextFrame, WriteFrame
<1>5. \A j \in Frames : wal[j] # None => wal'[j] # None
  BY <1>1, <1>2, <1>4 DEF WInv, FilesTyped, LogTyped
<1>6. aHdr[0].mxFrame <= w.hdr.mxFrame
  BY <1>1, RoomForFrame DEF FrameSteps
<1>7. walHdr # None /\ walHdr.salt = w.hdr.salt
  BY <1>1 DEF WriterOK, HeadWritten
<1>8. Indexed(aPgno, wal', w.hdr.mxFrame)
  BY <1>1, <1>3 DEF ImageOK, IndexOK, Indexed, RestartSteps
<1>9. w.hdr.salt \in {aHdr[0].salt, w.txn}
  BY <1>1 DEF ImageOK, SaltOK, RestartSteps
<1> QED
  BY <1>2, <1>3, <1>4, <1>5, <1>6, <1>7, <1>8, <1>9


LEMMA SpillImages ==
  ASSUME Known, WInv', NEW c \in Conn, spill_frame(c)
  PROVE  ImageInv'
<1> DEFINE w == pWal[c]
           k == NextFrame(c)
           v == [w EXCEPT !.pc = "reading", !.page = None, !.hdr.mxFrame = k, !.hdr.cksum = w.txn]
<1>1. /\ w.pc = "frame" /\ WriteNextFrame(c) /\ walIndexAppend(c, k, w.page)
      /\ pWal' = [pWal EXCEPT ![c] = v] /\ UNCHANGED <<aHdr, nBackfill, nTxn>>
  BY DEF spill_frame, At, bounds
<1>2. /\ w \in WalObject /\ w.hdr # None /\ w.hdr \in Header /\ w.hdr.mxFrame \in Nat
      /\ w.txn # 0 /\ w.readLock > 0
      /\ aHdr[0] # None /\ aHdr[0].mxFrame \in Nat /\ WInv /\ ImageOK(c) /\ FileSaltsOK
  BY <1>1, AtFrame, Numbers DEF Known, ImageInv, FrameSteps
<1>3. k \in Frames /\ k \in 0 .. MaxFrame /\ k = w.hdr.mxFrame + 1
  <2>1. k \in Frames
    BY <1>1, <1>2, RoomForFrame DEF FrameSteps
  <2> QED
    BY <2>1, Numbers DEF Frames, NextFrame
<1>4. /\ v.pc = "reading" /\ v.hdr.salt = w.hdr.salt /\ v.hdr.mxFrame = k
      /\ v.hdr # None /\ v.txn = w.txn /\ v.readLock = w.readLock /\ v.minFrame = w.minFrame
      /\ v.cache = w.cache /\ v.changed = w.changed
  <2>1. v.hdr = [w.hdr EXCEPT !.mxFrame = k, !.cksum = w.txn]
    BY <1>2 DEF WalObject
  <2>2. w.txn \in Txn
    BY <1>2 DEF WalObject
  <2>3. v.hdr \in Header /\ v.hdr.mxFrame = k /\ v.hdr.salt = w.hdr.salt
    <3> HIDE DEF k, v
    <3> QED
      BY <1>2, <1>3, <2>1, <2>2 DEF Header
  <2> QED
    BY <1>2, <2>3, NoneAssumption DEF WalObject
<1> HIDE DEF v
<1>5. pWal'[c] = v /\ \A d \in Conn \ {c} : pWal'[d] = pWal[d]
  BY <1>1, <1>2, ObjectTypes DEF WInv
<1>6. /\ wal'[k].pgno = w.page
      /\ \A j \in 1 .. w.hdr.mxFrame : wal'[j] = wal[j]
      /\ \A j \in Frames : wal[j] # None => wal'[j] # None
      /\ UNCHANGED <<db, walHdr, walHdrOlder, walTruncated>>
      /\ aHdr[0].mxFrame <= w.hdr.mxFrame
      /\ walHdr # None /\ walHdr.salt = w.hdr.salt
      /\ Indexed(aPgno, wal', w.hdr.mxFrame) /\ w.hdr.salt \in {aHdr[0].salt, w.txn}
  BY <1>1, FrameAppends
<1>7. Indexed(aPgno', wal', k)
  BY <1>1, <1>2, <1>6, AppendIndexed
<1>8. Appending(c)
  <2>1. Indexed(aPgno', wal', aHdr[0].mxFrame)
    <3> HIDE DEF k
    <3> QED
      BY <1>2, <1>3, <1>6, <1>7 DEF Indexed
  <2> QED
    BY <1>1, <1>2, <1>4, <1>5, <1>6, <2>1 DEF Appending, FrameSteps, RestartSteps, Copies
<1>9. FileSaltsOK'
  BY <1>1, <1>2, <1>6 DEF FileSaltsOK, SaltBounded
<1>10. IndexOK(c)'
  BY <1>4, <1>5, <1>7 DEF IndexOK
<1>11. SaltOK(c)'
  BY <1>1, <1>2, <1>4, <1>5, <1>6
     DEF ImageOK, SaltOK, SaltBounded, HalfPublished, RestartSteps
<1> QED
  BY <1>8, <1>9, <1>10, <1>11, AppendingKeeps

LEMMA CommitFrameImages ==
  ASSUME Known, WInv', NEW c \in Conn, commit_frame(c)
  PROVE  ImageInv'
<1> DEFINE w == pWal[c]
           label == IF fullSync THEN "sync_frame" ELSE "append"
           v == [w EXCEPT !.pc = label]
<1>1. /\ w.pc = "frame" /\ WriteNextFrame(c)
      /\ pWal' = [pWal EXCEPT ![c] = v] /\ UNCHANGED <<aHdr, nBackfill, aPgno, nTxn>>
  BY DEF commit_frame, At, Goto, shm, bounds
<1>2. /\ w \in WalObject /\ w.hdr # None /\ w.hdr.mxFrame \in Nat /\ w.txn # 0 /\ w.readLock > 0
      /\ aHdr[0] # None /\ aHdr[0].mxFrame \in Nat /\ WInv /\ ImageOK(c) /\ FileSaltsOK
  BY <1>1, AtFrame, Numbers DEF Known, ImageInv, FrameSteps
<1>3. label \in {"sync_frame", "append"}
  OBVIOUS
<1> HIDE DEF label
<1>4. /\ v.pc = label /\ v.hdr = w.hdr /\ v.txn = w.txn /\ v.readLock = w.readLock
      /\ v.minFrame = w.minFrame /\ v.cache = w.cache /\ v.changed = w.changed
  BY <1>2 DEF WalObject
<1> HIDE DEF v
<1>5. pWal'[c] = v /\ \A d \in Conn \ {c} : pWal'[d] = pWal[d]
  BY <1>1, <1>2, ObjectTypes DEF WInv
<1>6. /\ \A j \in 1 .. w.hdr.mxFrame : wal'[j] = wal[j]
      /\ \A j \in Frames : wal[j] # None => wal'[j] # None
      /\ UNCHANGED <<db, walHdr, walHdrOlder, walTruncated>>
      /\ aHdr[0].mxFrame <= w.hdr.mxFrame
      /\ walHdr # None /\ walHdr.salt = w.hdr.salt
      /\ Indexed(aPgno, wal', w.hdr.mxFrame) /\ w.hdr.salt \in {aHdr[0].salt, w.txn}
  BY <1>1, FrameAppends
<1>7. Appending(c)
  <2>1. Indexed(aPgno', wal', aHdr[0].mxFrame)
    BY <1>1, <1>2, <1>6 DEF Indexed
  <2> QED
    BY <1>1, <1>2, <1>3, <1>4, <1>5, <1>6, <2>1 DEF Appending, FrameSteps, RestartSteps, Copies
<1>8. FileSaltsOK'
  BY <1>1, <1>2, <1>6 DEF FileSaltsOK, SaltBounded
<1>9. IndexOK(c)'
  BY <1>1, <1>4, <1>5, <1>6 DEF IndexOK
<1>10. SaltOK(c)'
  BY <1>1, <1>2, <1>3, <1>4, <1>5, <1>6
     DEF ImageOK, SaltOK, SaltBounded, HalfPublished, RestartSteps
<1> QED
  BY <1>7, <1>8, <1>9, <1>10, AppendingKeeps

LEMMA AppendCommitImages ==
  ASSUME Known, WInv', NEW c \in Conn, append_commit(c)
  PROVE  ImageInv'
<1> DEFINE w == pWal[c]
           k == NextFrame(c)
           h == [w.hdr EXCEPT !.mxFrame = k, !.iChange = @ + 1, !.cksum = w.txn]
           v == [w EXCEPT !.pc = "publish", !.hdr = h]
<1>1. /\ w.pc = "append" /\ walIndexAppend(c, k, w.page) /\ aHdr' = [aHdr EXCEPT ![1] = h]
      /\ pWal' = [pWal EXCEPT ![c] = v]
      /\ UNCHANGED <<db, wal, walHdr, walHdrOlder, walTruncated, nBackfill, exclusive, nTxn>>
  BY DEF append_commit, At, files, locks, bounds
<1>2. /\ w \in WalObject /\ w.hdr # None /\ w.hdr \in Header /\ w.hdr.mxFrame \in Nat
      /\ w.txn # 0 /\ w.readLock > 0 /\ WriterOK(c) /\ WRITE \in exclusive[c] /\ w.page \in Page
      /\ aHdr[0] # None /\ aHdr[0].mxFrame \in Nat /\ WInv /\ ImageOK(c) /\ FileSaltsOK
      /\ HeadOK
  BY <1>1, AtFrame, Numbers DEF Known, ImageInv, FrameSteps
<1>3. k \in Frames /\ k \in Nat /\ k = w.hdr.mxFrame + 1 /\ aHdr[0].mxFrame <= w.hdr.mxFrame
  <2>1. k \in Frames /\ aHdr[0].mxFrame <= w.hdr.mxFrame
    BY <1>1, <1>2, RoomForFrame DEF FrameSteps
  <2> QED
    BY <2>1, Numbers DEF Frames, NextFrame
<1>4. HeadWritten(w.hdr) /\ NextWritten(c)
  BY <1>1, <1>2 DEF WriterOK
<1>5. wal[k].pgno = w.page /\ wal[k] # None
  <2>1. wal[k].pgno = w.page
    BY <1>4 DEF NextWritten
  <2>2. wal[k] # None
    <3> DEFINE frame == [pgno |-> w.page, by |-> w.txn, commit |-> TRUE,
                         salt |-> w.hdr.salt, after |-> w.hdr.cksum]
    <3>1. frame \in Frame
      BY <1>2 DEF Frame, Header, WalObject
    <3> QED
      BY <1>4, <3>1, NoneAssumption DEF NextWritten
  <2> QED
    BY <2>1, <2>2
<1>6. h.salt = w.hdr.salt /\ h.mxFrame = k
  <2> HIDE DEF k
  <2> QED
    BY <1>2 DEF Header
<1> HIDE DEF h
<1>7. /\ v.pc = "publish" /\ v.hdr = h /\ v.txn = w.txn /\ v.readLock = w.readLock
      /\ v.minFrame = w.minFrame /\ v.cache = w.cache /\ v.changed = w.changed
  BY <1>2 DEF WalObject
<1> HIDE DEF v
<1>8. pWal'[c] = v /\ \A d \in Conn \ {c} : pWal'[d] = pWal[d]
  BY <1>1, <1>2, ObjectTypes DEF WInv
<1>9. aHdr'[0] = aHdr[0] /\ aHdr'[1] = h
  BY <1>1, <1>2 DEF WInv, SharedTyped
<1>10. Indexed(aPgno, wal, w.hdr.mxFrame)
  BY <1>1, <1>2 DEF ImageOK, IndexOK, RestartSteps
<1>11. Indexed(aPgno', wal, k)
  BY <1>1, <1>2, <1>5, <1>10, AppendIndexed
<1>12. Still(c)
  <2>1. Indexed(aPgno', wal, aHdr[0].mxFrame)
    <3> HIDE DEF k
    <3> QED
      BY <1>2, <1>3, <1>11 DEF Indexed
  <2> QED
    BY <1>1, <1>2, <1>7, <1>8, <1>9, <2>1 DEF Still, Relies
<1>13. NotEmpty'
  BY <1>1, <1>3, <1>4, <1>5 DEF NotEmpty, HeadWritten
<1>14. ImageOK(c)'
  <2>1. IndexOK(c)' /\ RecoveredOK(c)' /\ PlanOK(c)' /\ StartOK(c)'
    BY <1>1, <1>6, <1>7, <1>8, <1>11 DEF IndexOK, RecoveredOK, PlanOK, StartOK, At, Copies
  <2>2. MarkOK(c)'
    BY <1>1, <1>2, <1>7, <1>8, <1>9 DEF ImageOK, MarkOK, Last
  <2>3. SaltOK(c)'
    <3>1. h # None
      BY <1>7, <1>8, <1>9 DEF WInv, ConnOK, Control, WithoutHdr
    <3> QED
      BY <1>1, <1>2, <1>6, <1>7, <1>8, <1>9
         DEF ImageOK, SaltOK, SaltBounded, RestartSteps
  <2>4. CacheOK(c)'
    <3>1. w.cache = None /\ ~w.changed
      BY <1>2, AtFrame, <1>1 DEF ImageOK, CacheOK, FrameSteps
    <3> QED
      BY <1>2, <1>7, <1>8, <3>1 DEF CacheOK, Kept
  <2> QED
    BY <2>1, <2>2, <2>3, <2>4 DEF ImageOK
<1> QED
  BY <1>12, <1>13, <1>14, StillKeeps


-----------------------------------------------------------------------------
(* The invariant *)

LEMMA ImageInvInit ==
  ASSUME Init
  PROVE  ImageInv
<1>1. aHdr[0] = None /\ walHdr = None /\ walHdrOlder = {} /\ walTruncated = {}
  BY DEF Init
<1>2. HeadOK /\ FileSaltsOK /\ NotEmpty
  BY <1>1 DEF HeadOK, FileSaltsOK, NotEmpty, SaltBounded
<1>3. ASSUME NEW c \in Conn PROVE ImageOK(c)
  <2>1. /\ pWal[c].pc = "closed" /\ pWal[c].hdr = None /\ pWal[c].txn = 0
        /\ pWal[c].readLock = -1 /\ pWal[c].cache = None /\ ~pWal[c].changed
    BY DEF Init, Closed
  <2>2. IndexOK(c) /\ MarkOK(c) /\ PlanOK(c) /\ StartOK(c) /\ RecoveredOK(c)
    BY <2>1 DEF IndexOK, MarkOK, PlanOK, StartOK, RecoveredOK, At, Copies
  <2>3. SaltOK(c) /\ CacheOK(c)
    BY <2>1 DEF SaltOK, CacheOK, SaltBounded, HalfPublished, Kept
  <2> QED
    BY <2>2, <2>3 DEF ImageOK
<1> QED
  BY <1>2, <1>3 DEF ImageInv

LEMMA SameImages ==
  ASSUME ImageInv, UNCHANGED vars
  PROVE  ImageInv'
<1>1. UNCHANGED <<db, wal, walHdr, walHdrOlder, walTruncated, aHdr, nBackfill, aPgno, pWal, nTxn>>
  BY DEF vars, files, shm, bounds
<1>2. HeadImage' = HeadImage /\ FoundEnd' = FoundEnd /\ FoundImage' = FoundImage
  BY <1>1 DEF HeadImage, FoundEnd, FoundImage
<1>3. HeadOK' /\ FileSaltsOK' /\ NotEmpty'
  BY <1>1 DEF ImageInv, HeadOK, FileSaltsOK, NotEmpty, SaltBounded, Restarting, At
<1>4. ASSUME NEW c \in Conn PROVE ImageOK(c)'
  <2>1. IndexOK(c)' /\ MarkOK(c)' /\ PlanOK(c)'
    BY <1>1 DEF ImageInv, ImageOK, IndexOK, MarkOK, PlanOK, At, Last
  <2>2. StartOK(c)' /\ RecoveredOK(c)' /\ SaltOK(c)'
    BY <1>1, <1>2 DEF ImageInv, ImageOK, StartOK, RecoveredOK, SaltOK, SaltBounded, HalfPublished,
                      At, Copies, Relies, Restarting
  <2>3. ASSUME NEW h, NEW image, Stands(h, image) PROVE Stands(h, image)'
    BY <1>1, <1>2, <2>3 DEF Stands, OldSalt, FitsHead, FitsFile, At
  <2>4. CacheOK(c)'
    <3>1. ReadView(c)' = ReadView(c)
      BY <1>1 DEF ReadView
    <3>2. OldSalt(pWal[c].hdr) => OldSalt(pWal[c].hdr)'
      BY <1>1 DEF OldSalt, At
    <3> QED
      BY <1>1, <1>2, <2>3, <3>1, <3>2 DEF ImageInv, ImageOK, CacheOK, Kept
  <2> QED
    BY <2>1, <2>2, <2>4 DEF ImageOK
<1> QED
  BY <1>3, <1>4 DEF ImageInv

LEMMA ImageInvNext ==
  ASSUME Known, WInv', ~RestartCrash, ~TruncateCrash, [Next]_vars
  PROVE  ImageInv'
<1>1. CASE UNCHANGED vars
  BY <1>1, SameImages DEF Known
<1>2. CASE PowerLoss
  BY <1>2, PowerLossImages
<1>3. ASSUME NEW c \in Conn, sqlite3WalOpen(c) \/ Crash(c) PROVE ImageInv'
  BY <1>3, OpenImages, CrashImages
<1>4. ASSUME NEW c \in Conn, ReadHdr(c) PROVE ImageInv'
  <2>1. CASE read_hdr(c) \/ hdr_busy(c) \/ walIndexRecover(c)
    BY <2>1, ReadHdrImages, HdrBusyImages, RecoverImages
  <2>2. CASE recover_publish(c) \/ recover_marks(c)
    BY <2>2, RecoverPublishImages, RecoverMarksImages
  <2>3. CASE recover_reset(c)
    BY <2>3, ResetImages DEF recover_reset, At, bounds
  <2> QED
    BY <1>4, <2>1, <2>2, <2>3 DEF ReadHdr
<1>5. ASSUME NEW c \in Conn, Read(c) PROVE ImageInv'
  BY <1>5, ReadWithoutWalImages, ChooseMarkImages, LockSlotImages, VerifySlotImages,
     EndReadImages DEF Read
<1>6. ASSUME NEW c \in Conn, Restart(c) PROVE ImageInv'
  <2>1. CASE walRestartLog(c) \/ restart_not_possible(c)
    BY <2>1, RestartLogImages, RestartNotPossibleImages
  <2>2. CASE restart_publish(c) \/ restart_marks(c)
    BY <2>2, RestartPublishImages, RestartMarksImages
  <2>3. CASE restart_reset(c)
    BY <2>3, ResetImages DEF restart_reset, At, bounds
  <2> QED
    BY <1>6, <2>1, <2>2, <2>3 DEF Restart
<1>7. ASSUME NEW c \in Conn, Write(c) PROVE ImageInv'
  <2>1. CASE sqlite3WalBeginWriteTransaction(c)
    BY <2>1, BeginWriteImages
  <2>2. CASE \E p \in Page, commit \in BOOLEAN : walFrames(c, p, commit)
    BY <2>2, WalFramesImages
  <2>3. CASE sync_wal_header(c)
    BY <2>3, SyncImages DEF sync_wal_header, At
  <2>4. CASE sync_frame(c)
    BY <2>4, SyncImages DEF sync_frame, At
  <2>5. CASE write_wal_header(c) \/ spill_frame(c) \/ commit_frame(c)
    BY <2>5, WriteHeaderImages, SpillImages, CommitFrameImages
  <2>6. CASE append_commit(c) \/ publish_commit(c) \/ sqlite3WalUndo(c)
    BY <2>6, AppendCommitImages, PublishCommitImages, UndoImages
  <2> QED
    BY <1>7, <2>1, <2>2, <2>3, <2>4, <2>5, <2>6 DEF Write
<1>8. ASSUME NEW c \in Conn, Checkpoint(c) PROVE ImageInv'
  <2>1. CASE \E mode \in Modes : sqlite3WalCheckpoint(c, mode)
    BY <2>1, BeginCheckpointImages
  <2>2. CASE ck_start(c) \/ ck_slot(c) \/ ck_lock(c)
    BY <2>2, CheckpointStartImages, CheckpointSlotImages, CheckpointLockImages
  <2>3. CASE ck_done(c) \/ \E k \in pWal[c].plan : ck_copy(c, k)
    BY <2>3, CopiedImages, CopyImages
  <2>4. CASE ck_truncate(c) \/ truncate_wal(c) \/ ck_return(c)
    BY <2>4, TruncateBegins, TruncateWalImages, CheckpointReturnImages
  <2> QED
    BY <1>8, <2>1, <2>2, <2>3, <2>4 DEF Checkpoint
<1> QED
  BY <1>1, <1>2, <1>3, <1>4, <1>5, <1>6, <1>7, <1>8 DEF Next

LEMMA KnownAlways ==
  ASSUME ~StaleCheckpoints, ~RestartCrash, ~TruncateCrash
  PROVE  Spec => []Known
<1>1. Init => Known
  BY InitInv, CopyInvInit, ImageInvInit DEF Known
<1>2. Known /\ [Next]_vars => Known'
  BY NextInv, CopyInvNext, ImageInvNext DEF Known
<1> QED
  BY <1>1, <1>2, PTL DEF Spec

\* A page that a connection keeps in its cache from one transaction to the next,
\* because it finds the header of the wal-index unchanged (walIndexTryHdr), is
\* the page of the snapshot that it then reads: whatever the others have written,
\* copied back, restarted or truncated in between, and whichever of them have died
\* or been recovered from, the deaths of RestartCrash and TruncateCrash excepted.
THEOREM CachesStayFresh ==
  ASSUME ~StaleCheckpoints, ~RestartCrash, ~TruncateCrash
  PROVE  Spec => []CacheIsFresh
<1>1. Known => CacheIsFresh
  BY DEF Known, ImageInv, ImageOK, CacheOK, CacheIsFresh, At
<1> QED
  BY <1>1, KnownAlways, PTL
==============================================================================
