----------------------------- MODULE WalSafety ------------------------------
(***************************************************************************)
(* The inductive invariant of Wal, and its proof.                          *)
(***************************************************************************)
EXTENDS Wal, FiniteSetTheorems, WellFoundedInduction, TLAPS

Labels ==
  {"closed", "idle", "hdr", "recover_publish", "recover_reset", "recover_marks", "try",
   "slot", "verify", "reading", "restart", "restart_publish", "restart_reset",
   "restart_marks", "rebegin", "header", "sync_header", "frame", "sync_frame", "append",
   "publish", "ck_start", "ck_slots", "ck_lock", "ck_copy", "ck_end", "ck_return"}

Recovering == {"recover_publish", "recover_reset", "recover_marks"}
RestartSteps == {"restart_publish", "restart_reset", "restart_marks"}
FrameSteps == {"header", "sync_header", "frame", "sync_frame", "append", "publish"}
CheckpointSteps == {"ck_start", "ck_slots", "ck_lock", "ck_copy", "ck_end", "ck_return"}
WithoutHdr == {"closed", "idle", "hdr", "ck_return"}

Image == [Page -> 0 .. MaxTxn + 1]

WalObject ==
  [pc : Labels, hdr : Header \cup {None}, readLock : -1 .. NSlot,
   minFrame : 0 .. MaxFrame + 1, changed : BOOLEAN, nCkpt : BOOLEAN,
   cache : Image \cup {None}, txn : Txn, page : Page \cup {None}, commit : BOOLEAN,
   mode : {"READ", "PASSIVE", "FULL", "TRUNCATE"}, slot : 0 .. NSlot,
   mark : 0 .. MaxFrame, mxSafe : 0 .. MaxFrame, plan : SUBSET Frames]

-----------------------------------------------------------------------------
(* The parts of the invariant *)

\* The frames that place k of the log may hold: a transaction writes each page
\* at most once.
MayHold(k) == {None} \cup {f \in Frame : f.by <= nTxn /\ k <= f.by * Cardinality(Page)}

LogTyped(f) == f \in [Frames -> Frame \cup {None}] /\ \A k \in Frames : f[k] \in MayHold(k)

FilesTyped ==
  /\ db \in Image /\ dbOlder \in [Page -> SUBSET (0 .. MaxTxn + 1)]
  /\ LogTyped(wal)
  /\ walOlder \in [Frames -> SUBSET (Frame \cup {None})]
  /\ \A k \in Frames : walOlder[k] \subseteq MayHold(k)
  /\ walHdr \in WalHdr \cup {None} /\ walHdrOlder \subseteq WalHdr \cup {None}
  /\ \A log \in walTruncated : LogTyped(log.wal) /\ log.hdr \in WalHdr \cup {None}

HdrBounded(h) == h # None => h.mxFrame <= nTxn * Cardinality(Page) /\ h.iChange <= nTxn

SharedTyped ==
  /\ aHdr \in [0 .. 1 -> Header \cup {None}] /\ HdrBounded(aHdr[0])
  /\ nBackfill \in 0 .. MaxFrame
  /\ aReadMark \in [Slots -> 0 .. READMARK_NOT_USED]
  /\ aPgno \in [Frames -> Page \cup {None}]
  /\ nTxn \in Txn /\ nFault \in 0 .. MaxFault
  /\ shared \in [Conn -> SUBSET {READ_LOCK(i) : i \in 0 .. NSlot}]
  /\ exclusive \in [Conn -> SUBSET (0 .. 3 + NSlot)]
  /\ pWal \in [Conn -> WalObject]

Exclusion ==
  \A c \in Conn : \A d \in Conn \ {c} : exclusive[c] \cap (shared[d] \cup exclusive[d]) = {}

\* The locks that a Wal object says it holds.
Holds(c) ==
  LET w == pWal[c] IN
  /\ w.txn # 0 \/ w.pc \in Recovering \/ w.mode \in {"FULL", "TRUNCATE"} => WRITE \in exclusive[c]
  /\ w.mode # "READ" \/ w.pc \in Recovering => CKPT \in exclusive[c]
  /\ w.pc \in RestartSteps => ReadLocks \subseteq exclusive[c]
  /\ w.pc = "ck_copy" => READ_LOCK(0) \in exclusive[c]
  /\ w.readLock >= 0 => READ_LOCK(w.readLock) \in shared[c]
  /\ w.pc = "verify" => READ_LOCK(w.slot) \in shared[c]

\* Which fields are set where.
Control(c) ==
  LET w == pWal[c] IN
  /\ w.mode # "READ" =>
       /\ w.pc \in {"hdr"} \cup Recovering \cup CheckpointSteps \cup RestartSteps
       /\ w.txn = 0
       /\ w.pc \in RestartSteps => w.mode = "TRUNCATE"
       /\ w.mode = "TRUNCATE" => nTxn < MaxTxn \/ w.pc \in RestartSteps \cup {"ck_return"}
  /\ w.pc \in CheckpointSteps => w.mode # "READ"
  /\ w.txn # 0 =>
       /\ w.txn = nTxn
       /\ w.pc \in {"reading", "restart", "rebegin", "slot", "verify"} \cup RestartSteps \cup FrameSteps
  /\ w.pc \in {"restart", "rebegin"} \cup FrameSteps => w.txn # 0
  /\ w.pc \in RestartSteps /\ w.mode = "READ" => w.txn # 0
  /\ w.readLock >= 0 <=>
       \/ w.pc \in {"reading", "restart"} \cup FrameSteps
       \/ w.pc \in RestartSteps /\ w.mode = "READ"
  /\ w.pc \in FrameSteps => w.readLock > 0
  /\ w.pc \in {"restart"} \cup RestartSteps => w.readLock <= 0
  /\ w.page # None <=> w.txn # 0 /\ w.pc # "reading"
  /\ w.pc \in {"sync_frame", "append", "publish"} => w.commit
  /\ w.pc \in {"slot", "verify"} => w.slot \in Slots /\ w.mark <= w.hdr.mxFrame
  /\ w.pc \notin WithoutHdr => w.hdr # None
  /\ w.pc \notin WithoutHdr \cup {"recover_publish"} => aHdr[0] # None
  /\ HdrBounded(w.hdr)

\* The frames up to the end of header h are a chain of valid ones.
Chain(h) ==
  /\ \A k \in 1 .. h.mxFrame : ValidFrame(wal, h, k)
  /\ h.mxFrame > 0 => walHdr # None /\ walHdr.salt = h.salt /\ wal[h.mxFrame].by = h.cksum

CommitChain(h) == Chain(h) /\ (h.mxFrame > 0 => wal[h.mxFrame].commit)

\* What the next frame is computed from.
HeadWritten(h) ==
  /\ walHdr # None /\ walHdr.salt = h.salt
  /\ h.mxFrame = 0 => h.cksum = 0

NextWritten(c) ==
  wal[NextFrame(c)] = [pgno |-> pWal[c].page, by |-> pWal[c].txn, commit |-> TRUE,
                       salt |-> pWal[c].hdr.salt, after |-> pWal[c].hdr.cksum]

\* What a recovery would find is not shorter than what is committed.
LogOK ==
  /\ aHdr[0] # None => CommitChain(aHdr[0])
  /\ aHdr[0] = None => nBackfill = 0

WriterOK(c) ==
  LET w == pWal[c] IN
  w.txn # 0 =>
    /\ w.pc \notin RestartSteps => Chain(w.hdr) /\ aHdr[0].mxFrame <= w.hdr.mxFrame
    /\ w.pc \notin RestartSteps \cup {"publish"} =>
         /\ Spilled(c) \subseteq Page
         /\ Cardinality(Spilled(c)) = w.hdr.mxFrame - aHdr[0].mxFrame
         /\ w.page \notin Spilled(c)
    /\ w.pc # "publish" => w.hdr.iChange = aHdr[0].iChange
    /\ aHdr[0].mxFrame <= (nTxn - 1) * Cardinality(Page) /\ aHdr[0].iChange <= nTxn - 1
    /\ w.pc \in {"reading", "restart"} /\ w.readLock = 0 => w.hdr = aHdr[0]
    /\ w.pc = "header" => w.hdr.mxFrame = 0
    /\ w.pc \in {"frame", "sync_header", "sync_frame", "append"} => HeadWritten(w.hdr)
    /\ w.pc \in {"sync_frame", "append"} => NextWritten(c)
    /\ w.pc = "publish" => CommitChain(w.hdr)

RecoveryOK(c) ==
  LET w == pWal[c] IN
  /\ w.pc = "recover_publish" =>
       CommitChain(w.hdr) /\ (aHdr[0] # None => aHdr[0].mxFrame <= w.hdr.mxFrame)
  /\ w.pc \in {"recover_reset", "recover_marks"} => w.hdr = aHdr[0]

RestartOK(c) ==
  LET w == pWal[c] IN
  /\ w.pc \in RestartSteps => w.hdr.mxFrame = 0
  /\ w.pc \in {"restart_reset", "restart_marks"} => w.hdr = aHdr[0]
  /\ w.pc = "restart_publish" /\ w.mode = "READ" => aHdr[1] = w.hdr /\ aHdr[0].mxFrame > 0

\* A checkpointer that has found frames to copy.
Copies(c) == pWal[c].pc \in {"ck_slots", "ck_lock", "ck_copy"}

CheckpointOK(c) ==
  LET w == pWal[c] IN
  /\ w.pc = "ck_start" => w.hdr.mxFrame <= aHdr[0].mxFrame
  /\ Copies(c) => nBackfill < w.hdr.mxFrame /\ w.hdr.mxFrame <= aHdr[0].mxFrame
                  /\ w.mxSafe <= w.hdr.mxFrame
  /\ w.pc \in {"ck_lock", "ck_copy"} => w.plan \subseteq 1 .. w.mxSafe
  /\ w.pc = "ck_slots" => w.slot \in Slots

\* The last frame of the snapshot of a reader, or of that a writer began with.
Last(c) == IF pWal[c].txn = 0 THEN pWal[c].hdr.mxFrame ELSE aHdr[0].mxFrame

ReaderOK(c) ==
  LET w == pWal[c] IN
  /\ w.pc = "verify" => w.minFrame - 1 \in 0 .. aHdr[0].mxFrame
  /\ w.readLock > 0 =>
       /\ Last(c) <= aHdr[0].mxFrame /\ Last(c) <= w.hdr.mxFrame
       /\ {aReadMark[w.readLock], w.minFrame - 1, nBackfill} \subseteq 0 .. Last(c)
  /\ w.readLock = 0 /\ w.pc \in {"reading", "restart"} => nBackfill \in {0, w.hdr.mxFrame}

ConnOK(c) ==
  /\ Holds(c) /\ Control(c) /\ WriterOK(c) /\ RecoveryOK(c) /\ RestartOK(c)
  /\ CheckpointOK(c) /\ ReaderOK(c)

\* Nobody has the old log in mind when a writer starts it anew.
RestartAlone ==
  \A c, d \in Conn :
    At(c, "restart_publish") /\ pWal[c].mode = "READ" => ~At(d, "ck_start") /\ ~Copies(d)

\* A checkpointer that has passed the slot of a reader, and how far it goes.
Passed(d, i) ==
  \/ pWal[d].pc = "ck_slots" /\ i < pWal[d].slot
  \/ pWal[d].pc \in {"ck_lock", "ck_copy"}

ReadersRespected ==
  \A c, d \in Conn :
    pWal[c].readLock > 0 /\ Passed(d, pWal[c].readLock) => pWal[d].mxSafe <= Last(c)

WInv ==
  /\ FilesTyped /\ SharedTyped /\ Exclusion /\ LogOK /\ NBackfillInLog
  /\ (\A c \in Conn : ConnOK(c)) /\ RestartAlone /\ ReadersRespected

-----------------------------------------------------------------------------
(* The steps of other connections *)

\* What a step of c may do to the parts of the state that are shared.
Effect(c) ==
  /\ \A d \in Conn \ {c} :
       pWal'[d] = pWal[d] /\ shared'[d] = shared[d] /\ exclusive'[d] = exclusive[d]
  /\ \/ aHdr'[0] = aHdr[0]
     \/ /\ aHdr'[0] # None /\ WRITE \in exclusive[c]
        /\ \/ aHdr[0] = None
           \/ aHdr[0].mxFrame <= aHdr'[0].mxFrame
           \/ /\ ReadLocks \subseteq exclusive[c]
              /\ \A d \in Conn \ {c} : ~At(d, "ck_start") /\ ~Copies(d)
  /\ aHdr'[1] = aHdr[1] \/ WRITE \in exclusive'[c]
  /\ UNCHANGED <<wal, walHdr>> \/ WRITE \in exclusive[c]
  /\ \/ nBackfill' = nBackfill
     \/ nBackfill' = 0
     \/ /\ {CKPT, READ_LOCK(0)} \subseteq exclusive[c]
        /\ \A d \in Conn \ {c} : pWal[d].readLock > 0 => nBackfill' <= Last(d)
  /\ \A i \in Slots : aReadMark'[i] = aReadMark[i] \/ Unlocked(c, {READ_LOCK(i)})
  /\ nTxn' = nTxn \/ (nTxn' = nTxn + 1 /\ WRITE \in exclusive'[c])

LEMMA LockNumbers ==
  /\ \A i \in 0 .. NSlot : READ_LOCK(i) \notin {WRITE, CKPT, RECOVER}
  /\ \A i \in Slots : READ_LOCK(i) \in ReadLocks /\ READ_LOCK(i) # READ_LOCK(0) /\ i \in 0 .. NSlot
  /\ \A i, j \in 0 .. NSlot : READ_LOCK(i) = READ_LOCK(j) => i = j
  /\ ReadLocks \subseteq {READ_LOCK(i) : i \in 0 .. NSlot}
  /\ WRITE # CKPT /\ 0 \in 0 .. NSlot
BY WalAssumption DEF READ_LOCK, WRITE, CKPT, RECOVER, ReadLocks, Slots

LEMMA ObjectTypes ==
  ASSUME SharedTyped, NEW c \in Conn
  PROVE  /\ pWal[c] \in WalObject /\ DOMAIN pWal = Conn
         /\ pWal[c].pc \in Labels /\ pWal[c].hdr \in Header \cup {None}
         /\ pWal[c].readLock \in -1 .. NSlot /\ pWal[c].minFrame \in 0 .. MaxFrame + 1
         /\ pWal[c].txn \in Txn /\ pWal[c].slot \in 0 .. NSlot /\ pWal[c].mark \in 0 .. MaxFrame
         /\ pWal[c].mxSafe \in 0 .. MaxFrame /\ pWal[c].plan \subseteq Frames
         /\ pWal[c].mode \in {"READ", "PASSIVE", "FULL", "TRUNCATE"}
         /\ (pWal[c].hdr # None => pWal[c].hdr \in Header /\ pWal[c].hdr.mxFrame \in 0 .. MaxFrame)
BY DEF SharedTyped, WalObject, Header

LEMMA Numbers ==
  /\ MaxTxn \in Nat /\ Cardinality(Page) \in Nat /\ MaxFrame \in Nat
  /\ NSlot \in Nat /\ NSlot > 0 /\ 1 \in Slots
BY WalAssumption, FS_CardinalityType DEF MaxFrame, Slots

LEMMA FirstOf ==
  ASSUME NEW S \in SUBSET Nat, S # {}
  PROVE  \E x \in S : \A y \in S : x <= y
<1> DEFINE R == OpToRel(<, Nat)
<1>1. IsWellFoundedOn(R, Nat)
  BY NatLessThanWellFounded
<1>2. \A x, y \in Nat : y < x => <<y, x>> \in R
  BY DEF OpToRel
<1> HIDE DEF R
<1>3. PICK x \in S : \A y \in S : ~ (<<y, x>> \in R)
  BY <1>1, WFMin
<1>4. ASSUME NEW y \in S PROVE x <= y
  <2>1. x \in Nat /\ y \in Nat
    OBVIOUS
  <2>2. ~(y < x)
    BY <1>2, <1>3, <2>1
  <2> QED
    BY <2>1, <2>2
<1> QED
  BY <1>4

LEMMA LastOf ==
  ASSUME NEW S \in SUBSET Nat, NEW m \in Nat, S # {}, \A x \in S : x <= m
  PROVE  \E x \in S : \A y \in S : y <= x
<1> DEFINE T == {m - x : x \in S}
<1>1. T \in SUBSET Nat /\ T # {}
  <2>1. \A x \in S : m - x \in Nat
    OBVIOUS
  <2> QED
    BY <2>1
<1>2. PICK t \in T : \A u \in T : t <= u
  BY <1>1, FirstOf
<1>3. PICK x \in S : t = m - x
  OBVIOUS
<1>4. ASSUME NEW y \in S PROVE y <= x
  <2>1. x \in Nat /\ y \in Nat /\ m - x <= m - y
    BY <1>2, <1>3
  <2> QED
    BY <2>1
<1> QED
  BY <1>4

LEMMA LeastAndGreatest ==
  ASSUME NEW S \in SUBSET Nat, NEW m \in Nat, S # {}, \A x \in S : x <= m
  PROVE  /\ Min(S) \in S /\ \A x \in S : Min(S) <= x
         /\ Max(S) \in S /\ \A x \in S : x <= Max(S)
<1>1. PICK x \in S : \A y \in S : x <= y
  BY FirstOf
<1>2. PICK z \in S : \A y \in S : z >= y
  BY LastOf
<1>3. Min(S) \in S /\ \A y \in S : Min(S) <= y
  BY <1>1 DEF Min
<1>4. Max(S) \in S /\ \A y \in S : Max(S) >= y
  BY <1>2 DEF Max
<1> QED
  BY <1>3, <1>4

\* A step of c leaves what holds of the other connections alone.
LEMMA OthersKeep ==
  ASSUME WInv, SharedTyped', Exclusion', NEW c \in Conn, NEW d \in Conn \ {c}, Effect(c)
  PROVE  ConnOK(d)'
<1> USE DEF WInv, At
<1> DEFINE w == pWal[d]
<1>1. /\ pWal'[d] = w /\ shared'[d] = shared[d] /\ exclusive'[d] = exclusive[d]
      /\ d \in Conn /\ ConnOK(d)
  BY DEF Effect
<1>2. /\ exclusive[c] \cap (shared[d] \cup exclusive[d]) = {}
      /\ exclusive'[c] \cap (shared[d] \cup exclusive[d]) = {}
      /\ exclusive[d] \cap (shared[c] \cup exclusive[c]) = {}
  BY <1>1 DEF Exclusion
<1>3. ASSUME WRITE \in exclusive[d]
      PROVE  UNCHANGED <<aHdr[0], aHdr[1], wal, walHdr, nTxn>>
  BY <1>2, <1>3 DEF Effect
<1>4. aHdr[0] # None => aHdr'[0] # None
  BY DEF Effect
<1>5. /\ aHdr[0] # None => aHdr[0] \in Header /\ aHdr[0].mxFrame \in 0 .. MaxFrame
      /\ aHdr'[0] # None => aHdr'[0] \in Header /\ aHdr'[0].mxFrame \in 0 .. MaxFrame
      /\ nTxn \in Nat /\ nTxn' \in Nat /\ nTxn <= nTxn' /\ Cardinality(Page) \in Nat
  <2>1. nTxn \in Nat /\ nTxn' \in Nat /\ nTxn <= nTxn' /\ Cardinality(Page) \in Nat
    BY Numbers DEF SharedTyped, Txn, Effect
  <2> QED
    BY <2>1 DEF SharedTyped, Header
<1>6. Holds(d)'
  BY <1>1 DEF ConnOK, Holds
<1>7. Control(d)'
  <2>1. w.txn # 0 \/ w.mode = "TRUNCATE" => nTxn' = nTxn
    BY <1>1, <1>3 DEF ConnOK, Holds
  <2>2. HdrBounded(w.hdr)'
    <3>1. nTxn * Cardinality(Page) <= nTxn' * Cardinality(Page)
      BY <1>5
    <3>2. w.hdr # None => w.hdr.mxFrame \in Nat /\ w.hdr.iChange \in Nat
      BY <1>1, ObjectTypes DEF Header, Txn
    <3>3. nTxn * Cardinality(Page) \in Nat /\ nTxn' * Cardinality(Page) \in Nat
      BY <1>5
    <3> QED
      BY <1>1, <1>5, <3>1, <3>2, <3>3 DEF ConnOK, Control, HdrBounded
  <2> QED
    BY <1>1, <1>4, <2>1, <2>2 DEF ConnOK, Control
<1>8. WriterOK(d)'
  <2> SUFFICES ASSUME w.txn # 0 PROVE WriterOK(d)'
    BY <1>1 DEF WriterOK
  <2>1. UNCHANGED <<aHdr[0], aHdr[1], wal, walHdr, nTxn>>
    BY <1>1, <1>3 DEF ConnOK, Holds
  <2>2. Chain(w.hdr)' <=> Chain(w.hdr)
    BY <1>1, <2>1 DEF Chain, ValidFrame
  <2>3. CommitChain(w.hdr)' <=> CommitChain(w.hdr)
    BY <1>1, <2>1, <2>2 DEF CommitChain
  <2>4. HeadWritten(w.hdr)' <=> HeadWritten(w.hdr)
    BY <1>1, <2>1 DEF HeadWritten
  <2>5. (NextWritten(d)' <=> NextWritten(d)) /\ Spilled(d)' = Spilled(d)
    BY <1>1, <2>1 DEF NextWritten, NextFrame, Spilled
  <2> QED
    BY <1>1, <2>1, <2>2, <2>3, <2>4, <2>5 DEF ConnOK, WriterOK
<1>9. RecoveryOK(d)'
  <2> SUFFICES ASSUME w.pc \in Recovering PROVE RecoveryOK(d)'
    BY <1>1 DEF RecoveryOK, Recovering
  <2>1. UNCHANGED <<aHdr[0], aHdr[1], wal, walHdr, nTxn>>
    BY <1>1, <1>3 DEF ConnOK, Holds
  <2> QED
    BY <1>1, <2>1 DEF ConnOK, RecoveryOK, Chain, CommitChain, ValidFrame
<1>10. RestartOK(d)'
  <2> SUFFICES ASSUME w.pc \in RestartSteps PROVE RestartOK(d)'
    BY <1>1 DEF RestartOK, RestartSteps
  <2>1. UNCHANGED <<aHdr[0], aHdr[1], wal, walHdr, nTxn>>
    BY <1>1, <1>3 DEF ConnOK, Holds, Control
  <2> QED
    BY <1>1, <2>1 DEF ConnOK, RestartOK
<1>11. CheckpointOK(d)'
  <2> SUFFICES ASSUME w.pc = "ck_start" \/ Copies(d) PROVE CheckpointOK(d)'
    BY <1>1 DEF CheckpointOK, Copies
  <2>1. aHdr[0] # None /\ w.hdr # None /\ w.mode # "READ" /\ CKPT \in exclusive[d]
    BY <1>1 DEF ConnOK, Holds, Control, Copies, CheckpointSteps, WithoutHdr
  <2>2. aHdr[0].mxFrame <= aHdr'[0].mxFrame
    BY <1>5, <2>1 DEF Effect
  <2>3. nBackfill' <= nBackfill /\ nBackfill \in Nat /\ nBackfill' \in Nat
    BY <1>2, <2>1 DEF Effect, SharedTyped
  <2>4. w.hdr.mxFrame \in Nat
    BY <1>1, <2>1, ObjectTypes
  <2> QED
    BY <1>1, <1>4, <1>5, <2>1, <2>2, <2>3, <2>4 DEF ConnOK, CheckpointOK, Copies
<1>12. ReaderOK(d)'
  <2>1. ASSUME NEW i \in Slots, READ_LOCK(i) \in shared[d]
        PROVE  aReadMark'[i] = aReadMark[i] /\ ~(ReadLocks \subseteq exclusive[c])
    <3>1. ~Unlocked(c, {READ_LOCK(i)})
      BY <2>1 DEF Unlocked
    <3>2. READ_LOCK(i) \in ReadLocks
      BY LockNumbers
    <3> QED
      BY <1>2, <2>1, <3>1, <3>2 DEF Effect
  <2>2. CASE w.pc = "verify"
    <3>1. aHdr[0] # None /\ w.readLock = -1 /\ w.slot \in Slots /\ READ_LOCK(w.slot) \in shared[d]
      BY <1>1, <2>2, ObjectTypes DEF ConnOK, Holds, Control, WithoutHdr, RestartSteps, FrameSteps
    <3>2. aHdr[0].mxFrame <= aHdr'[0].mxFrame
      BY <1>5, <2>1, <3>1 DEF Effect
    <3>3. w.minFrame \in Nat
      BY <1>1, ObjectTypes
    <3> QED
      BY <1>1, <1>4, <1>5, <2>2, <3>1, <3>2, <3>3 DEF ConnOK, ReaderOK
  <2>3. CASE w.readLock > 0
    <3>1. aHdr[0] # None /\ w.hdr # None /\ w.pc # "verify" /\ w.readLock \in Slots
          /\ READ_LOCK(w.readLock) \in shared[d]
      BY <1>1, <2>3, ObjectTypes DEF ConnOK, Holds, Control, WithoutHdr, RestartSteps, FrameSteps, Slots
    <3>2. aHdr[0].mxFrame <= aHdr'[0].mxFrame /\ aReadMark'[w.readLock] = aReadMark[w.readLock]
      BY <1>5, <2>1, <3>1 DEF Effect
    <3>3. w.txn # 0 => aHdr'[0] = aHdr[0]
      BY <1>1, <1>3 DEF ConnOK, Holds
    <3>4. Last(d)' = Last(d)
      BY <1>1, <3>3 DEF Last
    <3>5. Last(d) \in Nat /\ w.hdr.mxFrame \in Nat
      BY <1>1, <1>5, <3>1, ObjectTypes DEF Last
    <3>6. {aReadMark[w.readLock], w.minFrame - 1, nBackfill} \subseteq 0 .. Last(d)
          /\ Last(d) <= aHdr[0].mxFrame /\ Last(d) <= w.hdr.mxFrame
      BY <1>1, <2>3 DEF ConnOK, ReaderOK
    <3>7. nBackfill' \in 0 .. Last(d)
      BY <2>3, <3>5, <3>6 DEF Effect, SharedTyped
    <3>8. Last(d) <= aHdr'[0].mxFrame
      BY <1>4, <1>5, <3>1, <3>2, <3>5, <3>6
    <3> QED
      BY <1>1, <2>3, <3>1, <3>2, <3>4, <3>6, <3>7, <3>8 DEF ReaderOK
  <2>4. CASE w.readLock = 0 /\ w.pc \in {"reading", "restart"}
    <3>1. READ_LOCK(0) \in shared[d]
      BY <1>1, <2>4 DEF ConnOK, Holds
    <3>2. nBackfill' \in {nBackfill, 0}
      BY <1>2, <3>1 DEF Effect
    <3> QED
      BY <1>1, <2>4, <3>2 DEF ConnOK, ReaderOK
  <2> QED
    BY <1>1, <2>2, <2>3, <2>4 DEF ReaderOK
<1> QED
  BY <1>6, <1>7, <1>8, <1>9, <1>10, <1>11, <1>12 DEF ConnOK

LEMMA LastSame ==
  ASSUME WInv, Exclusion', NEW c \in Conn, NEW d \in Conn \ {c}, Effect(c)
  PROVE  Last(d)' = Last(d)
<1>1. pWal'[d] = pWal[d] /\ exclusive'[d] = exclusive[d]
  BY DEF Effect
<1>2. pWal[d].txn # 0 => WRITE \in exclusive[d]
  BY DEF WInv, ConnOK, Holds
<1>3. pWal[d].txn # 0 => WRITE \notin exclusive[c]
  BY <1>2 DEF WInv, Exclusion
<1> QED
  BY <1>1, <1>3 DEF Effect, Last

\* A step of c after which c neither begins a restart nor a copy, and reads no
\* other snapshot than before.
Quiet(c) ==
  /\ pWal'[c].pc \notin {"restart_publish", "ck_start", "ck_slots", "ck_lock", "ck_copy"}
  /\ pWal'[c].readLock > 0 => pWal'[c].readLock = pWal[c].readLock /\ Last(c) <= Last(c)'

LEMMA LastTypes ==
  ASSUME WInv, NEW c \in Conn, pWal[c].readLock > 0
  PROVE  Last(c) \in Nat
<1>1. pWal[c].hdr # None /\ aHdr[0] # None
  BY ObjectTypes DEF WInv, ConnOK, Control, WithoutHdr, FrameSteps, RestartSteps
<1> QED
  BY <1>1, ObjectTypes DEF WInv, Last, SharedTyped, Header

LEMMA NextLastTypes ==
  ASSUME SharedTyped', NEW c \in Conn, Control(c)', pWal'[c].readLock > 0
  PROVE  Last(c)' \in Nat
<1>1. pWal'[c] \in WalObject
  BY DEF SharedTyped
<1>2. pWal'[c].hdr # None /\ aHdr'[0] # None
  <2>1. pWal'[c].readLock \in Int /\ pWal'[c].readLock >= 0
    BY <1>1 DEF WalObject
  <2> QED
    BY <2>1 DEF Control, WithoutHdr, FrameSteps, RestartSteps
<1>3. pWal'[c].hdr \in Header
  BY <1>1, <1>2 DEF WalObject
<1> QED
  BY <1>2, <1>3 DEF Last, SharedTyped, Header

LEMMA QuietPairs ==
  ASSUME WInv, SharedTyped', Exclusion', NEW c \in Conn, Effect(c), Quiet(c), Control(c)'
  PROVE  RestartAlone' /\ ReadersRespected'
<1>1. \A d \in Conn \ {c} : pWal'[d] = pWal[d]
  BY DEF Effect
<1>2. RestartAlone'
  BY <1>1 DEF RestartAlone, WInv, Quiet, At, Copies
<1>3. ASSUME NEW a \in Conn, NEW d \in Conn, pWal'[a].readLock > 0,
             Passed(d, pWal[a].readLock)'
      PROVE  pWal'[d].mxSafe <= Last(a)'
  <2>1. d # c
    BY <1>3 DEF Quiet, Passed
  <2>2. pWal'[d] = pWal[d]
    BY <1>1, <2>1
  <2>3. pWal[a].readLock = pWal'[a].readLock /\ (Last(a) = Last(a)' \/ Last(a) <= Last(a)')
    <3>1. CASE a = c
      BY <1>3, <3>1 DEF Quiet
    <3>2. CASE a # c
      BY <1>1, <3>2, LastSame
    <3> QED
      BY <3>1, <3>2
  <2>4. pWal[d].mxSafe <= Last(a)
    <3>1. Passed(d, pWal[a].readLock) /\ pWal[a].readLock > 0
      BY <1>3, <2>2, <2>3 DEF Passed
    <3> QED
      BY <3>1 DEF WInv, ReadersRespected
  <2>5. Last(a) \in Nat /\ pWal[d].mxSafe \in Nat
    BY <1>3, <2>3, LastTypes, ObjectTypes DEF WInv
  <2>6. Last(a)' \in Nat
    <3>1. CASE a = c
      BY <1>3, <3>1, NextLastTypes
    <3>2. CASE a # c
      BY <2>3, <2>5, <3>2, LastSame
    <3> QED
      BY <3>1, <3>2
  <2> QED
    BY <2>2, <2>3, <2>4, <2>5, <2>6
<1> QED
  BY <1>2, <1>3 DEF ReadersRespected

\* The step of c is a step of the invariant when it keeps what concerns c and
\* the parts that are shared.
LEMMA StepKeeps ==
  ASSUME WInv, NEW c \in Conn, Effect(c), FilesTyped', SharedTyped', Exclusion', LogOK',
         NBackfillInLog', ConnOK(c)', RestartAlone', ReadersRespected'
  PROVE  WInv'
<1>1. ASSUME NEW d \in Conn PROVE ConnOK(d)'
  <2>1. CASE d = c
    BY <2>1
  <2>2. CASE d # c
    BY <2>2, OthersKeep
  <2> QED
    BY <2>1, <2>2
<1> QED
  BY <1>1 DEF WInv

\* A step of c: the other objects stay, and so do their locks.
StepOf(c) ==
  /\ pWal' = [pWal EXCEPT ![c] = pWal'[c]]
  /\ shared' = [shared EXCEPT ![c] = shared'[c]]
  /\ exclusive' = [exclusive EXCEPT ![c] = exclusive'[c]]

LEMMA StepOthers ==
  ASSUME SharedTyped, NEW c \in Conn, StepOf(c)
  PROVE  \A d \in Conn \ {c} :
           pWal'[d] = pWal[d] /\ shared'[d] = shared[d] /\ exclusive'[d] = exclusive[d]
BY DEF SharedTyped, StepOf

\* Locks are taken when no other connection is in the way.
Granted(c) ==
  /\ Unlocked(c, exclusive'[c] \ exclusive[c])
  /\ \A l \in shared'[c] \ shared[c] : NotExclusive(c, l)

LEMMA ExclusionKept ==
  ASSUME SharedTyped, Exclusion, NEW c \in Conn, StepOf(c), Granted(c)
  PROVE  Exclusion'
<1>1. \A d \in Conn \ {c} : shared'[d] = shared[d] /\ exclusive'[d] = exclusive[d]
  BY StepOthers
<1>2. ASSUME NEW a \in Conn, NEW d \in Conn \ {a}, NEW l \in exclusive'[a],
             l \in shared'[d] \cup exclusive'[d]
      PROVE  FALSE
  <2>1. CASE a = c
    <3>1. shared'[d] = shared[d] /\ exclusive'[d] = exclusive[d]
      BY <1>1, <2>1
    <3>2. l \notin exclusive[c]
      BY <1>2, <2>1, <3>1 DEF Exclusion
    <3> QED
      BY <1>2, <2>1, <3>1, <3>2 DEF Granted, Unlocked
  <2>2. CASE a # c /\ d = c
    <3>1. l \in exclusive[a]
      BY <1>1, <1>2, <2>2
    <3>2. l \notin exclusive[c] /\ l \notin shared[c]
      BY <2>2, <3>1 DEF Exclusion
    <3> QED
      BY <1>2, <2>2, <3>1, <3>2 DEF Granted, Unlocked, NotExclusive
  <2>3. CASE a # c /\ d # c
    BY <1>1, <1>2, <2>3 DEF Exclusion
  <2> QED
    BY <2>1, <2>2, <2>3
<1> QED
  BY <1>2 DEF Exclusion

LEMMA BoundsGrow ==
  ASSUME NEW n \in Nat, NEW m \in Nat, n <= m
  PROVE  /\ n * Cardinality(Page) \in Nat /\ m * Cardinality(Page) \in Nat
         /\ n * Cardinality(Page) <= m * Cardinality(Page)
<1> DEFINE b == Cardinality(Page)
<1>1. b \in Nat
  BY Numbers
<1> HIDE DEF b
<1>2. n * b \in Nat /\ m * b \in Nat /\ n * b <= m * b
  BY <1>1
<1> QED
  BY <1>2 DEF b

LEMMA HdrStaysBounded ==
  ASSUME NEW h \in Header \cup {None}, HdrBounded(h), nTxn \in Nat, nTxn' \in Nat, nTxn <= nTxn'
  PROVE  HdrBounded(h)'
<1>1. /\ nTxn * Cardinality(Page) \in Nat /\ nTxn' * Cardinality(Page) \in Nat
      /\ nTxn * Cardinality(Page) <= nTxn' * Cardinality(Page)
  BY BoundsGrow
<1>2. h # None => h.mxFrame \in Nat /\ h.iChange \in Nat
  BY DEF Header, Txn
<1> QED
  BY <1>1, <1>2 DEF HdrBounded

\* The types of what c changes, when the wal-index stays as it is.
OwnTypes(c) ==
  /\ pWal'[c] \in WalObject
  /\ shared'[c] \subseteq {READ_LOCK(i) : i \in 0 .. NSlot}
  /\ exclusive'[c] \subseteq 0 .. 3 + NSlot

\* Transactions are counted.
Counted == nTxn' \in Txn /\ (nTxn' = nTxn \/ nTxn' = nTxn + 1) /\ nFault' \in 0 .. MaxFault

LEMMA SharedKept ==
  ASSUME SharedTyped, NEW c \in Conn, StepOf(c), OwnTypes(c), Counted,
         aHdr' \in [0 .. 1 -> Header \cup {None}], HdrBounded(aHdr[0])',
         nBackfill' \in 0 .. MaxFrame, aReadMark' \in [Slots -> 0 .. READMARK_NOT_USED],
         aPgno' \in [Frames -> Page \cup {None}]
  PROVE  SharedTyped'
BY DEF SharedTyped, StepOf, OwnTypes, Counted

LEMMA SharedSame ==
  ASSUME SharedTyped, NEW c \in Conn, StepOf(c), OwnTypes(c), Counted, UNCHANGED shm
  PROVE  SharedTyped'
<1>1. nTxn \in Nat /\ nTxn' \in Nat /\ nTxn <= nTxn'
  BY DEF SharedTyped, Counted, Txn
<1>2. HdrBounded(aHdr[0])'
  <2>1. aHdr[0] \in Header \cup {None} /\ HdrBounded(aHdr[0])
    BY DEF SharedTyped
  <2>2. aHdr'[0] = aHdr[0]
    BY DEF shm
  <2>3. HdrBounded(aHdr[0])' <=> (aHdr'[0] # None => /\ aHdr'[0].mxFrame <= nTxn' * Cardinality(Page)
                                                     /\ aHdr'[0].iChange <= nTxn')
    BY DEF HdrBounded
  <2>4. /\ nTxn * Cardinality(Page) \in Nat /\ nTxn' * Cardinality(Page) \in Nat
        /\ nTxn * Cardinality(Page) <= nTxn' * Cardinality(Page)
    BY <1>1, BoundsGrow
  <2>5. aHdr[0] # None => aHdr[0].mxFrame \in Nat /\ aHdr[0].iChange \in Nat
    BY <2>1 DEF Header, Txn
  <2> QED
    BY <1>1, <2>1, <2>2, <2>3, <2>4, <2>5 DEF HdrBounded
<1> QED
  BY <1>2, SharedKept DEF SharedTyped, shm

LEMMA MayHoldGrows ==
  ASSUME nTxn \in Txn, Counted, NEW k \in Frames
  PROVE  MayHold(k) \subseteq MayHold(k)'
BY DEF MayHold, Counted, Txn, Frame

LEMMA FilesSame ==
  ASSUME FilesTyped, nTxn \in Txn, Counted, UNCHANGED files
  PROVE  FilesTyped'
<1>1. \A k \in Frames : MayHold(k) \subseteq MayHold(k)'
  BY MayHoldGrows
<1>2. \A f : LogTyped(f) => LogTyped(f)'
  BY <1>1 DEF LogTyped
<1> QED
  BY <1>1, <1>2 DEF FilesTyped, files

\* A step of c in its own object, and in the locks.
Private(c) ==
  /\ StepOf(c) /\ OwnTypes(c) /\ Granted(c)
  /\ Counted /\ (nTxn' = nTxn \/ WRITE \in exclusive'[c])
  /\ pWal[c].pc # "restart_reset"

LEMMA LogSame ==
  ASSUME LogOK, UNCHANGED <<wal, walHdr, aHdr[0], nBackfill>>
  PROVE  LogOK'
BY DEF LogOK, CommitChain, Chain, ValidFrame

LEMMA NBackfillSame ==
  ASSUME WInv, NEW c \in Conn, StepOf(c), UNCHANGED <<aHdr[0], nBackfill>>,
         pWal[c].pc # "restart_reset"
  PROVE  NBackfillInLog'
<1>1. Restarting => Restarting'
  <2>1. \A d \in Conn \ {c} : pWal'[d] = pWal[d]
    BY StepOthers DEF WInv
  <2> QED
    BY <2>1 DEF Restarting, At
<1> QED
  BY <1>1 DEF WInv, NBackfillInLog

LEMMA PrivateEffect ==
  ASSUME WInv, NEW c \in Conn, Private(c), UNCHANGED <<files, shm>>
  PROVE  /\ Effect(c) /\ FilesTyped' /\ SharedTyped' /\ Exclusion' /\ LogOK'
         /\ NBackfillInLog'
<1>1. /\ UNCHANGED <<aHdr, nBackfill, aReadMark, wal, walHdr>>
  BY DEF shm, files
<1>2. Effect(c)
  BY <1>1, StepOthers DEF Effect, Private, Counted, WInv
<1>3. FilesTyped'
  BY FilesSame DEF Private, WInv, SharedTyped
<1>4. SharedTyped' /\ Exclusion'
  BY SharedSame, ExclusionKept DEF Private, WInv
<1>5. LogOK'
  BY <1>1, LogSame DEF WInv
<1>6. NBackfillInLog'
  BY <1>1, NBackfillSame DEF Private
<1> QED
  BY <1>2, <1>3, <1>4, <1>5, <1>6

LEMMA PrivateKeeps ==
  ASSUME WInv, NEW c \in Conn, Private(c), UNCHANGED <<files, shm>>, ConnOK(c)', Quiet(c)
  PROVE  WInv'
<1>1. /\ Effect(c) /\ FilesTyped' /\ SharedTyped' /\ Exclusion' /\ LogOK'
      /\ NBackfillInLog'
  BY PrivateEffect
<1>2. RestartAlone' /\ ReadersRespected'
  BY <1>1, QuietPairs DEF ConnOK
<1> QED
  BY <1>1, <1>2, StepKeeps

\* A step after which c reads nothing and writes nothing.
Rests(c) ==
  /\ pWal'[c].pc \in {"closed", "idle", "hdr", "try", "ck_end", "ck_return"}
  /\ pWal'[c].txn = 0 /\ pWal'[c].readLock = -1 /\ pWal'[c].page = None

LEMMA RestingOK ==
  ASSUME NEW c \in Conn, Rests(c), Holds(c)', Control(c)'
  PROVE  ConnOK(c)' /\ Quiet(c)
BY DEF Rests, ConnOK, WriterOK, RecoveryOK, RestartOK, CheckpointOK, Copies, ReaderOK,
       RestartSteps, Quiet

-----------------------------------------------------------------------------
(* Locks *)

LocksOf(c) ==
  /\ shared' = [shared EXCEPT ![c] = shared'[c]]
  /\ exclusive' = [exclusive EXCEPT ![c] = exclusive'[c]]
  /\ shared'[c] \subseteq {READ_LOCK(i) : i \in 0 .. NSlot}
  /\ exclusive'[c] \subseteq 0 .. 3 + NSlot
  /\ Granted(c)

LEMMA SameLocks ==
  ASSUME SharedTyped, NEW c \in Conn, UNCHANGED locks
  PROVE  LocksOf(c) /\ shared'[c] = shared[c] /\ exclusive'[c] = exclusive[c]
BY DEF SharedTyped, locks, LocksOf, Granted, Unlocked

LEMMA TakesExclusive ==
  ASSUME SharedTyped, NEW c \in Conn, NEW ls \in SUBSET (0 .. 3 + NSlot),
         Unlocked(c, ls), LockExclusive(c, ls)
  PROVE  LocksOf(c) /\ shared'[c] = shared[c] /\ exclusive'[c] = exclusive[c] \cup ls
<1>1. /\ exclusive' = [exclusive EXCEPT ![c] = exclusive[c] \cup ls] /\ shared' = shared
      /\ exclusive'[c] = exclusive[c] \cup ls /\ exclusive[c] \subseteq 0 .. 3 + NSlot
      /\ shared[c] \subseteq {READ_LOCK(i) : i \in 0 .. NSlot}
  BY DEF SharedTyped, LockExclusive
<1>2. Granted(c)
  BY <1>1 DEF Granted, Unlocked
<1> QED
  BY <1>1, <1>2 DEF LocksOf, SharedTyped

LEMMA FreesExclusive ==
  ASSUME SharedTyped, NEW c \in Conn, NEW ls, UnlockExclusive(c, ls)
  PROVE  LocksOf(c) /\ shared'[c] = shared[c] /\ exclusive'[c] = exclusive[c] \ ls
<1>1. /\ exclusive' = [exclusive EXCEPT ![c] = exclusive[c] \ ls] /\ shared' = shared
      /\ exclusive'[c] = exclusive[c] \ ls /\ exclusive[c] \subseteq 0 .. 3 + NSlot
      /\ shared[c] \subseteq {READ_LOCK(i) : i \in 0 .. NSlot}
  BY DEF SharedTyped, UnlockExclusive
<1>2. Granted(c)
  BY <1>1 DEF Granted, Unlocked
<1> QED
  BY <1>1, <1>2 DEF LocksOf, SharedTyped

LEMMA TakesShared ==
  ASSUME SharedTyped, NEW c \in Conn, NEW i \in 0 .. NSlot, NotExclusive(c, READ_LOCK(i)),
         LockShared(c, READ_LOCK(i))
  PROVE  LocksOf(c) /\ shared'[c] = shared[c] \cup {READ_LOCK(i)} /\ exclusive'[c] = exclusive[c]
<1> DEFINE l == READ_LOCK(i)
<1>0. l \in {READ_LOCK(j) : j \in 0 .. NSlot}
  OBVIOUS
<1> HIDE DEF l
<1>1. /\ shared' = [shared EXCEPT ![c] = shared[c] \cup {l}] /\ exclusive' = exclusive
      /\ shared'[c] = shared[c] \cup {l} /\ exclusive[c] \subseteq 0 .. 3 + NSlot
      /\ shared[c] \subseteq {READ_LOCK(j) : j \in 0 .. NSlot}
  BY DEF SharedTyped, LockShared, l
<1>2. Granted(c)
  BY <1>1 DEF Granted, Unlocked, l
<1> QED
  BY <1>0, <1>1, <1>2 DEF LocksOf, SharedTyped, l

LEMMA FreesShared ==
  ASSUME SharedTyped, NEW c \in Conn, NEW l, UnlockShared(c, l)
  PROVE  LocksOf(c) /\ shared'[c] = shared[c] \ {l} /\ exclusive'[c] = exclusive[c]
<1>1. /\ shared' = [shared EXCEPT ![c] = shared[c] \ {l}] /\ exclusive' = exclusive
      /\ shared'[c] = shared[c] \ {l} /\ exclusive[c] \subseteq 0 .. 3 + NSlot
      /\ shared[c] \subseteq {READ_LOCK(j) : j \in 0 .. NSlot}
  BY DEF SharedTyped, UnlockShared
<1>2. Granted(c)
  BY <1>1 DEF Granted, Unlocked
<1> QED
  BY <1>1, <1>2 DEF LocksOf, SharedTyped

LEMMA SameBounds ==
  ASSUME SharedTyped, UNCHANGED bounds
  PROVE  Counted /\ nTxn' = nTxn
BY DEF SharedTyped, bounds, Counted

\* The step of c is private when its object has a new value of the right type.
LEMMA PrivateStep ==
  ASSUME SharedTyped, NEW c \in Conn, NEW w \in WalObject, pWal' = [pWal EXCEPT ![c] = w],
         LocksOf(c), UNCHANGED bounds, pWal[c].pc # "restart_reset"
  PROVE  Private(c) /\ pWal'[c] = w
<1>1. pWal'[c] = w /\ pWal' = [pWal EXCEPT ![c] = pWal'[c]]
  BY DEF SharedTyped
<1> QED
  BY <1>1, SameBounds DEF Private, StepOf, OwnTypes, LocksOf

-----------------------------------------------------------------------------
(* Reading the header *)

\* A connection that reads the header holds no lock for reading.
LEMMA AtHdr ==
  ASSUME WInv, NEW c \in Conn, pWal[c].pc \in {"closed", "idle", "hdr", "try"}
  PROVE  /\ pWal[c].txn = 0 /\ pWal[c].readLock = -1 /\ pWal[c].page = None
         /\ pWal[c].pc # "hdr" => pWal[c].mode = "READ"
         /\ Holds(c) /\ Control(c)
<1>1. Holds(c) /\ Control(c) /\ pWal[c].readLock \in -1 .. NSlot
  BY ObjectTypes DEF WInv, ConnOK
<1> QED
  BY <1>1 DEF Control, RestartSteps, FrameSteps, CheckpointSteps, Recovering

LEMMA WithHdrFacts ==
  ASSUME NEW w \in WalObject, NEW h \in Header, NEW label \in Labels
  PROVE  LET v == [WithHdr(w, h) EXCEPT !.pc = label]
         IN  /\ v \in WalObject /\ v.pc = label /\ v.hdr = h
             /\ v.readLock = w.readLock /\ v.minFrame = w.minFrame /\ v.txn = w.txn
             /\ v.page = w.page /\ v.mode = w.mode /\ v.slot = w.slot /\ v.mark = w.mark
             /\ v.mxSafe = w.mxSafe /\ v.plan = w.plan /\ v.commit = w.commit
BY DEF WithHdr, Changed, WalObject

LEMMA ReadHdrKeeps ==
  ASSUME WInv, NEW c \in Conn, read_hdr(c)
  PROVE  WInv'
<1> DEFINE w == [WithHdr(pWal[c], aHdr[0]) EXCEPT !.pc = AfterHdr(c)]
<1>1. /\ pWal' = [pWal EXCEPT ![c] = w] /\ UNCHANGED <<files, shm, locks, bounds>>
      /\ aHdr[0] # None /\ aHdr[0] = aHdr[1] /\ pWal[c].pc \in {"idle", "hdr"}
  BY DEF read_hdr, walIndexTryHdr, GoodHdr, Reads, At
<1>2. /\ pWal[c].txn = 0 /\ pWal[c].readLock = -1 /\ pWal[c].page = None
      /\ Holds(c) /\ Control(c)
  BY <1>1, AtHdr
<1>3. aHdr[0] \in Header /\ HdrBounded(aHdr[0]) /\ SharedTyped /\ pWal[c] \in WalObject
  BY <1>1, ObjectTypes DEF WInv, SharedTyped
<1>4. AfterHdr(c) = (IF pWal[c].mode = "READ" THEN "try" ELSE "ck_start") /\ AfterHdr(c) \in Labels
  BY DEF AfterHdr, Labels
<1>5. /\ w \in WalObject /\ w.pc = AfterHdr(c) /\ w.hdr = aHdr[0] /\ w.readLock = -1
      /\ w.txn = 0 /\ w.page = None /\ w.mode = pWal[c].mode
  BY <1>2, <1>3, <1>4, WithHdrFacts
<1> HIDE DEF w
<1>6. LocksOf(c) /\ shared'[c] = shared[c] /\ exclusive'[c] = exclusive[c]
  BY <1>1, <1>3, SameLocks
<1>7. Private(c) /\ pWal'[c] = w
  BY <1>1, <1>3, <1>5, <1>6, PrivateStep
<1>8. aHdr' = aHdr /\ nTxn' = nTxn /\ nBackfill' = nBackfill
  BY <1>1 DEF shm, bounds
<1>9. Holds(c)'
  BY <1>1, <1>2, <1>4, <1>5, <1>6, <1>7 DEF Holds, Recovering, RestartSteps
<1>10. Control(c)'
  BY <1>1, <1>2, <1>3, <1>4, <1>5, <1>7, <1>8
     DEF Control, Recovering, RestartSteps, CheckpointSteps, FrameSteps, WithoutHdr, HdrBounded
<1>11. CASE pWal[c].mode = "READ"
  <2>1. Rests(c)
    BY <1>4, <1>5, <1>7, <1>11 DEF Rests
  <2> QED
    BY <1>1, <1>7, <1>9, <1>10, <2>1, RestingOK, PrivateKeeps
<1>12. CASE pWal[c].mode # "READ"
  <2>1. ConnOK(c)'
    <3>1. aHdr[0].mxFrame <= aHdr[0].mxFrame
      BY <1>3 DEF Header
    <3> QED
      BY <1>4, <1>5, <1>7, <1>8, <1>9, <1>10, <1>12, <3>1
         DEF ConnOK, WriterOK, RecoveryOK, RestartOK, CheckpointOK, Copies, ReaderOK, RestartSteps
  <2>2. Effect(c) /\ FilesTyped' /\ SharedTyped' /\ Exclusion' /\ LogOK' /\ NBackfillInLog'
    BY <1>1, <1>7, PrivateEffect
  <2>3. \A d \in Conn \ {c} : pWal'[d] = pWal[d]
    BY <2>2 DEF Effect
  <2>4. RestartAlone'
    <3>1. ASSUME NEW a \in Conn, pWal'[a].pc = "restart_publish", pWal'[a].mode = "READ"
          PROVE  FALSE
      <4>1. a # c
        BY <1>4, <1>5, <1>7, <1>12, <3>1
      <4>2. pWal[a].pc = "restart_publish" /\ pWal[a].mode = "READ"
        BY <2>3, <3>1, <4>1
      <4>3. aHdr[1] = pWal[a].hdr /\ aHdr[0].mxFrame > 0 /\ pWal[a].hdr.mxFrame = 0
        BY <4>2 DEF WInv, ConnOK, RestartOK, RestartSteps
      <4> QED
        BY <1>1, <1>3, <4>3 DEF Header
    <3> QED
      BY <3>1 DEF RestartAlone, At
  <2>5. ReadersRespected'
    <3>1. ASSUME NEW a \in Conn, NEW d \in Conn, pWal'[a].readLock > 0,
                 Passed(d, pWal[a].readLock)'
          PROVE  pWal'[d].mxSafe <= Last(a)'
      <4>1. d # c /\ a # c
        BY <1>4, <1>5, <1>7, <1>12, <3>1 DEF Passed
      <4>2. pWal'[d] = pWal[d] /\ pWal'[a] = pWal[a] /\ Last(a)' = Last(a)
        BY <1>8, <2>3, <4>1 DEF Last
      <4> QED
        BY <3>1, <4>2 DEF WInv, ReadersRespected, Passed
    <3> QED
      BY <3>1 DEF ReadersRespected
  <2> QED
    BY <2>1, <2>2, <2>4, <2>5, StepKeeps
<1> QED
  BY <1>11, <1>12

LEMMA HdrBusyKeeps ==
  ASSUME WInv, NEW c \in Conn, hdr_busy(c)
  PROVE  WInv'
<1> DEFINE w == [pWal[c] EXCEPT !.pc = "ck_return"]
<1>1. /\ pWal' = [pWal EXCEPT ![c] = w] /\ UNCHANGED <<files, shm, locks, bounds>>
      /\ pWal[c].pc = "hdr" /\ pWal[c].mode # "READ"
  BY DEF hdr_busy, Goto, At
<1>2. /\ pWal[c].txn = 0 /\ pWal[c].readLock = -1 /\ pWal[c].page = None
      /\ Holds(c) /\ Control(c)
  BY <1>1, AtHdr
<1>3. SharedTyped /\ pWal[c] \in WalObject
  BY ObjectTypes DEF WInv
<1>4. /\ w \in WalObject /\ w.pc = "ck_return" /\ w.hdr = pWal[c].hdr /\ w.readLock = -1
      /\ w.txn = 0 /\ w.page = None /\ w.mode = pWal[c].mode
  BY <1>2, <1>3 DEF WalObject, Labels
<1> HIDE DEF w
<1>5. LocksOf(c) /\ shared'[c] = shared[c] /\ exclusive'[c] = exclusive[c]
  BY <1>1, <1>3, SameLocks
<1>6. Private(c) /\ pWal'[c] = w
  BY <1>1, <1>3, <1>4, <1>5, PrivateStep
<1>7. aHdr' = aHdr /\ nTxn' = nTxn
  BY <1>1 DEF shm, bounds
<1>8. Holds(c)'
  BY <1>1, <1>2, <1>4, <1>5, <1>6 DEF Holds, Recovering, RestartSteps
<1>9. Control(c)'
  BY <1>1, <1>2, <1>4, <1>6, <1>7
     DEF Control, Recovering, RestartSteps, CheckpointSteps, FrameSteps, WithoutHdr, HdrBounded
<1> QED
  BY <1>1, <1>4, <1>6, <1>8, <1>9, RestingOK, PrivateKeeps DEF Rests

-----------------------------------------------------------------------------
(* Read transactions *)

\* A writer that goes on with the same frames behind it.
LEMMA WriterSame ==
  ASSUME NEW c \in Conn, WriterOK(c), UNCHANGED <<wal, walHdr, aHdr, nTxn>>,
         pWal[c].txn # 0, pWal'[c].txn = pWal[c].txn, pWal'[c].hdr = pWal[c].hdr,
         pWal[c].pc \notin RestartSteps \cup {"publish"},
         pWal'[c].pc \notin RestartSteps \cup {"publish", "sync_frame", "append"},
         pWal'[c].page \in {pWal[c].page, None} \/ pWal'[c].page \notin Spilled(c),
         None \notin Spilled(c),
         pWal'[c].pc \in {"reading", "restart"} /\ pWal'[c].readLock = 0 => pWal[c].hdr = aHdr[0],
         pWal'[c].pc = "header" => pWal[c].hdr.mxFrame = 0,
         pWal'[c].pc \in {"frame", "sync_header"} => HeadWritten(pWal[c].hdr)
  PROVE  WriterOK(c)'
<1>1. Spilled(c)' = Spilled(c)
  BY DEF Spilled
<1>2. \A h : Chain(h) => Chain(h)'
  BY DEF Chain, ValidFrame
<1>3. \A h : HeadWritten(h) => HeadWritten(h)'
  BY DEF HeadWritten
<1> QED
  BY <1>1, <1>2, <1>3 DEF WriterOK

\* What holds of a connection between the choice of a slot and the look at it.
LEMMA AtSlot ==
  ASSUME WInv, NEW c \in Conn, pWal[c].pc \in {"try", "slot", "verify", "rebegin"}
  PROVE  /\ pWal[c].readLock = -1 /\ pWal[c].mode = "READ" /\ pWal[c].hdr # None
         /\ aHdr[0] # None /\ pWal[c].hdr \in Header /\ pWal[c].hdr.mxFrame \in 0 .. MaxFrame
         /\ aHdr[0] \in Header /\ aHdr[0].mxFrame \in 0 .. MaxFrame
         /\ (pWal[c].txn = 0 <=> pWal[c].page = None)
         /\ Holds(c) /\ Control(c) /\ WriterOK(c)
         /\ pWal[c].pc \in {"slot", "verify"} => pWal[c].slot \in Slots
<1>1. Holds(c) /\ Control(c) /\ WriterOK(c) /\ pWal[c].readLock \in -1 .. NSlot
  BY ObjectTypes DEF WInv, ConnOK
<1>2. /\ pWal[c].readLock = -1 /\ pWal[c].mode = "READ" /\ pWal[c].hdr # None /\ aHdr[0] # None
      /\ (pWal[c].txn = 0 <=> pWal[c].page = None)
      /\ pWal[c].pc \in {"slot", "verify"} => pWal[c].slot \in Slots
  BY <1>1 DEF Control, RestartSteps, FrameSteps, CheckpointSteps, Recovering, WithoutHdr
<1>3. pWal[c].hdr \in Header /\ aHdr[0] \in Header
  BY <1>2, ObjectTypes DEF WInv, SharedTyped
<1> QED
  BY <1>1, <1>2, <1>3 DEF Header

LEMMA SpilledPages ==
  ASSUME WInv, NEW c \in Conn, pWal[c].txn # 0, pWal[c].pc \notin RestartSteps \cup {"publish"}
  PROVE  Spilled(c) \subseteq Page /\ None \notin Spilled(c)
BY NoneAssumption DEF WInv, ConnOK, WriterOK

LEMMA RetryKeeps ==
  ASSUME WInv, NEW c \in Conn, pWal[c].pc \in {"try", "slot", "verify"}, Retry(c),
         LocksOf(c), exclusive'[c] = exclusive[c], UNCHANGED <<files, shm, bounds>>
  PROVE  WInv'
<1> DEFINE label == IF pWal[c].txn # 0 THEN "rebegin" ELSE "hdr"
           w == [pWal[c] EXCEPT !.pc = label, !.minFrame = 0, !.slot = 0, !.mark = 0]
<1>1. pWal' = [pWal EXCEPT ![c] = w]
  BY DEF Retry
<1>2. /\ pWal[c].readLock = -1 /\ pWal[c].mode = "READ" /\ pWal[c].hdr # None
      /\ aHdr[0] # None
      /\ (pWal[c].txn = 0 <=> pWal[c].page = None)
      /\ Holds(c) /\ Control(c) /\ WriterOK(c)
  BY AtSlot
<1>3. SharedTyped /\ pWal[c] \in WalObject
  BY ObjectTypes DEF WInv
<1>4. /\ w \in WalObject /\ w.pc = label /\ w.hdr = pWal[c].hdr /\ w.readLock = -1
      /\ w.txn = pWal[c].txn /\ w.page = pWal[c].page /\ w.mode = "READ"
  <2>1. label \in Labels
    BY DEF Labels
  <2>2. 0 \in 0 .. MaxFrame + 1 /\ 0 \in 0 .. NSlot /\ 0 \in 0 .. MaxFrame
    BY Numbers
  <2> HIDE DEF label
  <2> QED
    BY <1>2, <1>3, <2>1, <2>2 DEF WalObject
<1> HIDE DEF w
<1>5. Private(c) /\ pWal'[c] = w
  BY <1>1, <1>3, <1>4, PrivateStep
<1>6. aHdr' = aHdr /\ nTxn' = nTxn /\ wal' = wal /\ walHdr' = walHdr
  BY DEF shm, bounds, files
<1>7. Holds(c)'
  BY <1>2, <1>4, <1>5 DEF Holds, Recovering, RestartSteps
<1>8. Control(c)'
  BY <1>2, <1>4, <1>5, <1>6
     DEF Control, Recovering, RestartSteps, CheckpointSteps, FrameSteps, WithoutHdr, HdrBounded
<1>9. CASE pWal[c].txn = 0
  BY <1>2, <1>4, <1>5, <1>7, <1>8, <1>9, RestingOK, PrivateKeeps DEF Rests
<1>10. CASE pWal[c].txn # 0
  <2>1. WriterOK(c)'
    BY <1>2, <1>4, <1>5, <1>6, <1>10, WriterSame, SpilledPages DEF RestartSteps
  <2>2. ConnOK(c)' /\ Quiet(c)
    BY <1>4, <1>5, <1>7, <1>8, <1>10, <2>1
       DEF ConnOK, RecoveryOK, RestartOK, CheckpointOK, Copies, ReaderOK, RestartSteps, Quiet
  <2> QED
    BY <1>5, <2>2, PrivateKeeps
<1> QED
  BY <1>9, <1>10

LEMMA ReadWithoutWalKeeps ==
  ASSUME WInv, NEW c \in Conn, read_without_wal(c)
  PROVE  WInv'
<1>1. /\ pWal[c].pc = "try" /\ nBackfill = pWal[c].hdr.mxFrame /\ NotExclusive(c, READ_LOCK(0))
      /\ UNCHANGED <<files, shm, bounds>>
  BY DEF read_without_wal, At, AllBackfilled
<1>2. /\ pWal[c].readLock = -1 /\ pWal[c].mode = "READ" /\ pWal[c].hdr # None
      /\ aHdr[0] # None /\ pWal[c].txn = 0 /\ pWal[c].page = None
      /\ Holds(c) /\ Control(c)
  BY <1>1, AtSlot, AtHdr
<1>3. SharedTyped /\ pWal[c] \in WalObject
  BY ObjectTypes DEF WInv
<1>4. CASE ~(aHdr[0] = pWal[c].hdr)
  <2>1. Retry(c) /\ UNCHANGED locks
    BY <1>4 DEF read_without_wal
  <2> QED
    BY <1>1, <1>3, <2>1, RetryKeeps, SameLocks
<1>5. CASE aHdr[0] = pWal[c].hdr
  <2> DEFINE w == Begun(pWal[c], 0)
  <2>1. pWal' = [pWal EXCEPT ![c] = w] /\ LockShared(c, READ_LOCK(0))
    BY <1>5 DEF read_without_wal
  <2>2. /\ w \in WalObject /\ w.pc = "reading" /\ w.hdr = pWal[c].hdr /\ w.readLock = 0
        /\ w.txn = 0 /\ w.page = None /\ w.mode = "READ"
    <3>1. 0 \in 0 .. MaxFrame + 1 /\ 0 \in 0 .. NSlot /\ 0 \in 0 .. MaxFrame /\ 0 \in -1 .. NSlot
      BY Numbers
    <3>2. "reading" \in Labels
      BY DEF Labels
    <3> DEFINE u == [pWal[c] EXCEPT !.pc = "reading", !.readLock = 0]
    <3>5. pWal[c] \in WalObject
      BY <1>3
    <3>6. /\ u \in WalObject /\ u.pc = "reading" /\ u.hdr = pWal[c].hdr /\ u.readLock = 0
          /\ u.txn = pWal[c].txn /\ u.page = pWal[c].page /\ u.mode = pWal[c].mode
      BY <3>1, <3>2, <3>5 DEF WalObject
    <3>3. /\ u \in WalObject /\ u.pc = "reading" /\ u.hdr = pWal[c].hdr /\ u.readLock = 0
          /\ u.txn = 0 /\ u.page = None /\ u.mode = "READ"
      BY <1>2, <1>3, <3>6
    <3>4. w = [u EXCEPT !.slot = 0, !.mark = 0, !.minFrame = 0]
      BY <1>3 DEF Begun, WalObject
    <3> HIDE DEF u, w
    <3> QED
      BY <3>1, <3>3, <3>4 DEF WalObject
  <2> HIDE DEF w
  <2>3. LocksOf(c) /\ shared'[c] = shared[c] \cup {READ_LOCK(0)} /\ exclusive'[c] = exclusive[c]
    BY <1>1, <1>3, <2>1, TakesShared, LockNumbers
  <2>4. Private(c) /\ pWal'[c] = w
    BY <1>1, <1>3, <2>1, <2>2, <2>3, PrivateStep
  <2>5. aHdr' = aHdr /\ nTxn' = nTxn /\ nBackfill' = nBackfill
    BY <1>1 DEF shm, bounds
  <2>6. Holds(c)'
    BY <1>2, <2>2, <2>3, <2>4 DEF Holds, Recovering, RestartSteps
  <2>7. Control(c)'
    BY <1>1, <1>2, <2>2, <2>4, <2>5
       DEF Control, Recovering, RestartSteps, CheckpointSteps, FrameSteps, WithoutHdr, HdrBounded
  <2>8. ConnOK(c)' /\ Quiet(c)
    BY <1>1, <2>2, <2>4, <2>5, <2>6, <2>7
       DEF ConnOK, WriterOK, RecoveryOK, RestartOK, CheckpointOK, Copies, ReaderOK, RestartSteps, Quiet
  <2> QED
    BY <1>1, <2>4, <2>8, PrivateKeeps
<1> QED
  BY <1>4, <1>5

\* A slot lock that is held keeps the log from being restarted.
LEMMA NBackfillNow ==
  ASSUME WInv, NEW c \in Conn, NEW i \in Slots, aHdr[0] # None,
         NotExclusive(c, READ_LOCK(i)), pWal[c].pc # "restart_reset"
  PROVE  nBackfill <= aHdr[0].mxFrame
<1>1. ASSUME NEW d \in Conn, pWal[d].pc = "restart_reset" PROVE FALSE
  <2>1. READ_LOCK(i) \in exclusive[d]
    BY <1>1, LockNumbers DEF WInv, ConnOK, Holds, RestartSteps
  <2> QED
    BY <1>1, <2>1 DEF NotExclusive
<1> QED
  BY <1>1 DEF WInv, NBackfillInLog, Restarting, At

LEMMA LockSlotKeeps ==
  ASSUME WInv, NEW c \in Conn, lock_slot(c)
  PROVE  WInv'
<1> DEFINE i == pWal[c].slot
<1>1. pWal[c].pc = "slot" /\ UNCHANGED <<files, shm, bounds>>
  BY DEF lock_slot, At
<1>2. /\ pWal[c].readLock = -1 /\ pWal[c].mode = "READ" /\ pWal[c].hdr # None /\ aHdr[0] # None
      /\ aHdr[0].mxFrame \in 0 .. MaxFrame
      /\ Holds(c) /\ Control(c) /\ WriterOK(c) /\ i \in Slots
  BY <1>1, AtSlot
<1>3. SharedTyped /\ pWal[c] \in WalObject /\ nBackfill \in 0 .. MaxFrame
  BY ObjectTypes DEF WInv, SharedTyped
<1>4. CASE ~NotExclusive(c, READ_LOCK(i))
  <2>1. Retry(c) /\ UNCHANGED locks
    BY <1>4 DEF lock_slot
  <2> QED
    BY <1>1, <1>3, <2>1, RetryKeeps, SameLocks
<1>5. CASE NotExclusive(c, READ_LOCK(i))
  <2> DEFINE w == [pWal[c] EXCEPT !.pc = "verify", !.minFrame = nBackfill + 1]
  <2>1. pWal' = [pWal EXCEPT ![c] = w] /\ LockShared(c, READ_LOCK(i))
    BY <1>5 DEF lock_slot
  <2>2. /\ w \in WalObject /\ w.pc = "verify" /\ w.hdr = pWal[c].hdr /\ w.readLock = -1
        /\ w.txn = pWal[c].txn /\ w.page = pWal[c].page /\ w.mode = "READ" /\ w.slot = i
        /\ w.mark = pWal[c].mark /\ w.minFrame = nBackfill + 1
    <3>1. nBackfill + 1 \in 0 .. MaxFrame + 1
      BY <1>3, Numbers
    <3> QED
      BY <1>2, <1>3, <3>1 DEF WalObject, Labels
  <2> HIDE DEF w
  <2>3. LocksOf(c) /\ shared'[c] = shared[c] \cup {READ_LOCK(i)} /\ exclusive'[c] = exclusive[c]
    BY <1>2, <1>3, <1>5, <2>1, TakesShared, LockNumbers
  <2>4. Private(c) /\ pWal'[c] = w
    BY <1>1, <1>3, <2>1, <2>2, <2>3, PrivateStep
  <2>5. aHdr' = aHdr /\ nTxn' = nTxn /\ nBackfill' = nBackfill /\ wal' = wal /\ walHdr' = walHdr
    BY <1>1 DEF shm, bounds, files
  <2>6. Holds(c)'
    BY <1>2, <2>2, <2>3, <2>4 DEF Holds, Recovering, RestartSteps
  <2>7. Control(c)'
    BY <1>1, <1>2, <2>2, <2>4, <2>5
       DEF Control, Recovering, RestartSteps, CheckpointSteps, FrameSteps, WithoutHdr, HdrBounded
  <2>8. WriterOK(c)'
    <3>1. CASE pWal[c].txn = 0
      BY <2>2, <2>4, <3>1 DEF WriterOK
    <3>2. CASE pWal[c].txn # 0
      BY <1>1, <1>2, <2>2, <2>4, <2>5, <3>2, WriterSame, SpilledPages DEF RestartSteps
    <3> QED
      BY <3>1, <3>2
  <2>9. w.minFrame - 1 \in 0 .. aHdr[0].mxFrame
    BY <1>1, <1>2, <1>3, <1>5, <2>2, NBackfillNow
  <2>10. ConnOK(c)' /\ Quiet(c)
    BY <1>1, <2>2, <2>4, <2>5, <2>6, <2>7, <2>8, <2>9
       DEF ConnOK, RecoveryOK, RestartOK, CheckpointOK, Copies, ReaderOK, RestartSteps, Quiet
  <2> QED
    BY <1>1, <2>4, <2>10, PrivateKeeps
<1> QED
  BY <1>4, <1>5

\* A checkpointer that has passed a slot has not gone beyond the log.
LEMMA PassedInLog ==
  ASSUME WInv, NEW d \in Conn, NEW i, Passed(d, i)
  PROVE  aHdr[0] # None /\ pWal[d].mxSafe <= aHdr[0].mxFrame
<1>1. Copies(d) /\ aHdr[0] # None /\ pWal[d].hdr # None
  BY DEF Passed, Copies, WInv, ConnOK, Control, WithoutHdr
<1>2. /\ pWal[d].mxSafe <= pWal[d].hdr.mxFrame /\ pWal[d].hdr.mxFrame <= aHdr[0].mxFrame
  BY <1>1 DEF WInv, ConnOK, CheckpointOK
<1>3. /\ pWal[d].mxSafe \in Nat /\ pWal[d].hdr.mxFrame \in Nat /\ aHdr[0].mxFrame \in Nat
  BY <1>1, ObjectTypes DEF WInv, SharedTyped, Header
<1> QED
  BY <1>1, <1>2, <1>3

LEMMA VerifySlotKeeps ==
  ASSUME WInv, NEW c \in Conn, verify_slot(c)
  PROVE  WInv'
<1> DEFINE i == pWal[c].slot
<1>1. pWal[c].pc = "verify" /\ UNCHANGED <<files, shm, bounds>>
  BY DEF verify_slot, At
<1>2. /\ pWal[c].readLock = -1 /\ pWal[c].mode = "READ" /\ pWal[c].hdr # None
      /\ aHdr[0] # None /\ pWal[c].hdr \in Header /\ pWal[c].hdr.mxFrame \in 0 .. MaxFrame
      /\ (pWal[c].txn = 0 <=> pWal[c].page = None)
      /\ Holds(c) /\ Control(c) /\ WriterOK(c) /\ i \in Slots
  BY <1>1, AtSlot
<1>3. SharedTyped /\ pWal[c] \in WalObject /\ nBackfill \in 0 .. MaxFrame
      /\ pWal[c].minFrame \in 0 .. MaxFrame + 1 /\ pWal[c].mark \in 0 .. MaxFrame
      /\ RestartAlone /\ ReadersRespected
  BY ObjectTypes DEF WInv, SharedTyped
<1>4. CASE ~SnapshotStands(c)
  <2>1. Retry(c) /\ UnlockShared(c, READ_LOCK(i))
    BY <1>4 DEF verify_slot
  <2> QED
    BY <1>1, <1>3, <2>1, RetryKeeps, FreesShared
<1>5. CASE SnapshotStands(c)
  <2> DEFINE v == [pWal[c] EXCEPT !.readLock = pWal[c].slot]
             w == IF v.txn = 0 THEN Begun(v, v.slot)
                  ELSE [v EXCEPT !.pc = FrameStep(v), !.slot = 0, !.mark = 0]
             label == IF pWal[c].txn = 0 THEN "reading"
                      ELSE IF pWal[c].hdr.mxFrame = 0 THEN "header" ELSE "frame"
  <2>1. pWal' = [pWal EXCEPT ![c] = w] /\ UNCHANGED locks
    BY <1>5 DEF verify_slot
  <2>2. aReadMark[i] = pWal[c].mark /\ aHdr[0] = pWal[c].hdr
    BY <1>5 DEF SnapshotStands
  <2>3. i > 0 /\ i \in 1 .. NSlot /\ i # 0 /\ i \in Int
    BY <1>2 DEF Slots
  <2>4. /\ w \in WalObject /\ w.pc = label /\ w.hdr = pWal[c].hdr /\ w.readLock = i
        /\ w.txn = pWal[c].txn /\ w.page = pWal[c].page /\ w.mode = "READ"
        /\ w.minFrame = pWal[c].minFrame
    <3>1. v \in WalObject /\ v.txn = pWal[c].txn /\ v.slot = i /\ v.hdr = pWal[c].hdr /\ v.readLock = i
          /\ v.page = pWal[c].page /\ v.mode = "READ" /\ v.minFrame = pWal[c].minFrame
      BY <1>2, <1>3, <2>3 DEF WalObject
    <3> HIDE DEF v
    <3>2. w = [v EXCEPT !.pc = label, !.slot = 0, !.mark = 0]
      <4>1. CASE v.txn = 0
        <5>1. w = [v EXCEPT !.pc = "reading", !.readLock = i, !.slot = 0, !.mark = 0,
                            !.minFrame = pWal[c].minFrame]
          BY <2>3, <3>1, <4>1 DEF Begun
        <5> QED
          BY <3>1, <4>1, <5>1 DEF WalObject
      <4>2. CASE v.txn # 0
        BY <2>3, <3>1, <4>2 DEF FrameStep
      <4> QED
        BY <4>1, <4>2
    <3>3. label \in Labels /\ 0 \in 0 .. NSlot /\ 0 \in 0 .. MaxFrame
      BY Numbers DEF Labels
    <3> HIDE DEF w, label
    <3> QED
      BY <3>1, <3>2, <3>3 DEF WalObject
  <2> HIDE DEF w, v
  <2>5. LocksOf(c) /\ shared'[c] = shared[c] /\ exclusive'[c] = exclusive[c]
    BY <1>3, <2>1, SameLocks
  <2>6. Private(c) /\ pWal'[c] = w
    BY <1>1, <1>3, <2>1, <2>4, <2>5, PrivateStep
  <2>7. /\ aHdr' = aHdr /\ nTxn' = nTxn /\ nBackfill' = nBackfill /\ wal' = wal
        /\ walHdr' = walHdr /\ aReadMark' = aReadMark
    BY <1>1 DEF shm, bounds, files
  <2>8. Holds(c)'
    BY <1>1, <1>2, <2>4, <2>5, <2>6 DEF Holds, Recovering, RestartSteps
  <2>9. Control(c)'
    BY <1>1, <1>2, <2>3, <2>4, <2>6, <2>7
       DEF Control, Recovering, RestartSteps, CheckpointSteps, FrameSteps, WithoutHdr, HdrBounded
  <2>10. WriterOK(c)'
    <3>1. CASE pWal[c].txn = 0
      BY <2>4, <2>6, <3>1 DEF WriterOK
    <3>2. CASE pWal[c].txn # 0
      <4>1. label = "frame" => HeadWritten(pWal[c].hdr)
        BY <1>1, <1>2, <3>2 DEF WriterOK, Chain, HeadWritten, RestartSteps
      <4> QED
        BY <1>1, <1>2, <2>3, <2>4, <2>6, <2>7, <3>2, <4>1, WriterSame, SpilledPages DEF RestartSteps
    <3> QED
      BY <3>1, <3>2
  <2>11. Last(c)' = aHdr[0].mxFrame
    BY <2>2, <2>4, <2>6, <2>7 DEF Last
  <2>12. nBackfill <= aHdr[0].mxFrame
    <3>1. NotExclusive(c, READ_LOCK(i))
      BY <1>1, <1>2 DEF WInv, Exclusion, NotExclusive, Holds
    <3> QED
      BY <1>1, <1>2, <3>1, NBackfillNow
  <2>13. w.minFrame - 1 \in 0 .. aHdr[0].mxFrame /\ pWal[c].mark <= aHdr[0].mxFrame
    BY <1>1, <1>2, <2>2, <2>4 DEF WInv, ConnOK, ReaderOK, Control
  <2>14. ReaderOK(c)'
    <3>1. {aReadMark[i], w.minFrame - 1, nBackfill} \subseteq 0 .. aHdr[0].mxFrame
      BY <1>2, <1>3, <2>2, <2>12, <2>13
    <3> QED
      BY <1>2, <2>2, <2>3, <2>4, <2>6, <2>7, <2>11, <3>1 DEF ReaderOK
  <2>15. ConnOK(c)'
    BY <1>1, <2>4, <2>6, <2>8, <2>9, <2>10, <2>14
       DEF ConnOK, RecoveryOK, RestartOK, CheckpointOK, Copies, RestartSteps
  <2>16. Effect(c) /\ FilesTyped' /\ SharedTyped' /\ Exclusion' /\ LogOK' /\ NBackfillInLog'
    BY <1>1, <2>6, PrivateEffect
  <2>17. \A d \in Conn \ {c} : pWal'[d] = pWal[d]
    BY <2>16 DEF Effect
  <2>18. RestartAlone'
    BY <1>3, <2>4, <2>6, <2>17 DEF RestartAlone, At, Copies
  <2>19. ReadersRespected'
    <3>1. ASSUME NEW a \in Conn, NEW d \in Conn, pWal'[a].readLock > 0,
                 Passed(d, pWal[a].readLock)'
          PROVE  pWal'[d].mxSafe <= Last(a)'
      <4>1. d # c /\ pWal'[d] = pWal[d]
        BY <2>4, <2>6, <2>17, <3>1 DEF Passed
      <4>2. CASE a = c
        <5>1. Passed(d, pWal'[a].readLock)
          BY <3>1, <4>1 DEF Passed
        <5> QED
          BY <2>11, <4>1, <4>2, <5>1, PassedInLog
      <4>3. CASE a # c
        <5>1. pWal'[a] = pWal[a] /\ Last(a)' = Last(a)
          BY <2>7, <2>17, <4>3 DEF Last
        <5> QED
          BY <1>3, <3>1, <4>1, <5>1 DEF ReadersRespected, Passed
      <4> QED
        BY <4>2, <4>3
    <3> QED
      BY <3>1 DEF ReadersRespected
  <2> QED
    BY <2>15, <2>16, <2>18, <2>19, StepKeeps
<1> QED
  BY <1>4, <1>5

\* What the database and the log give for a page is something that was written.
LEMMA ReadViewType ==
  ASSUME WInv, NEW c \in Conn, pWal[c].pc = "reading", pWal[c].txn = 0
  PROVE  ReadView(c) \in Image
<1>1. db \in Image /\ SharedTyped /\ LogTyped(wal) /\ pWal[c].readLock \in -1 .. NSlot
      /\ pWal[c].minFrame \in 0 .. MaxFrame + 1
  BY ObjectTypes DEF WInv, FilesTyped
<1>2. CASE pWal[c].readLock <= 0
  BY <1>1, <1>2 DEF ReadView
<1>3. CASE ~(pWal[c].readLock <= 0)
  <2> DEFINE last == pWal[c].hdr.mxFrame
             first == pWal[c].minFrame
             k(p) == CHOOSE k \in first .. last :
                        aPgno[k] = p /\ \A j \in k + 1 .. last : aPgno[j] # p
  <2>1. /\ aHdr[0] # None /\ pWal[c].hdr # None /\ last <= aHdr[0].mxFrame
        /\ first - 1 \in 0 .. last
    BY <1>1, <1>3 DEF WInv, ConnOK, Control, WithoutHdr, ReaderOK, Last
  <2>2. last \in Nat /\ aHdr[0].mxFrame \in Nat /\ aHdr[0].mxFrame <= MaxFrame /\ first \in Nat
        /\ first >= 1 /\ MaxFrame \in Nat
    BY <1>1, <2>1, ObjectTypes, Numbers DEF WInv, SharedTyped, Header
  <2>3. ASSUME NEW n \in first .. last PROVE wal[n].by \in 0 .. MaxTxn + 1
    <3>1. n \in 1 .. aHdr[0].mxFrame /\ n \in Frames
      BY <2>1, <2>2 DEF Frames
    <3>2. wal[n] # None
      BY <2>1, <3>1 DEF WInv, LogOK, CommitChain, Chain, ValidFrame
    <3>3. wal[n] \in Frame
      BY <1>1, <3>1, <3>2 DEF LogTyped
    <3> QED
      BY <3>3, Numbers DEF Frame, Txn
  <2>4. ASSUME NEW p \in Page, \E n \in first .. last : aPgno[n] = p
        PROVE  \E n \in first .. last : aPgno[n] = p /\ \A j \in n + 1 .. last : aPgno[j] # p
    <3> DEFINE S == {n \in first .. last : aPgno[n] = p}
    <3>1. S \in SUBSET Nat /\ S # {} /\ \A n \in S : n <= last
      BY <2>2, <2>4
    <3>2. PICK n \in S : \A j \in S : j <= n
      BY <2>2, <3>1, LastOf
    <3>3. \A j \in n + 1 .. last : aPgno[j] # p
      BY <2>2, <3>2
    <3> QED
      BY <3>2, <3>3
  <2>5. \A p \in Page : (\E n \in first .. last : aPgno[n] = p) => k(p) \in first .. last
    BY <2>4
  <2> HIDE DEF k
  <2>6. \A p \in Page : db[p] \in 0 .. MaxTxn + 1
    BY <1>1 DEF Image
  <2>7. ReadView(c) = [p \in Page |-> IF \E n \in first .. last : aPgno[n] = p
                                      THEN wal[k(p)].by ELSE db[p]]
    BY <1>3 DEF ReadView, k
  <2> QED
    BY <2>3, <2>5, <2>6, <2>7 DEF Image
<1> QED
  BY <1>2, <1>3

LEMMA EndReadKeeps ==
  ASSUME WInv, NEW c \in Conn, sqlite3WalEndReadTransaction(c)
  PROVE  WInv'
<1> DEFINE v == ReadView(c)
           w == [pWal[c] EXCEPT !.pc = "idle", !.readLock = -1, !.minFrame = 0, !.cache = v]
<1>1. /\ pWal[c].pc = "reading" /\ pWal[c].txn = 0 /\ UNCHANGED <<files, shm, bounds>>
      /\ UnlockShared(c, READ_LOCK(pWal[c].readLock)) /\ pWal' = [pWal EXCEPT ![c] = w]
  BY DEF sqlite3WalEndReadTransaction, At
<1>2. SharedTyped /\ pWal[c] \in WalObject /\ Holds(c) /\ Control(c) /\ v \in Image
  BY <1>1, ObjectTypes, ReadViewType DEF WInv, ConnOK
<1>3. pWal[c].mode = "READ" /\ pWal[c].page = None
  BY <1>1, <1>2 DEF Control, Recovering, RestartSteps, CheckpointSteps
<1>4. /\ w \in WalObject /\ w.pc = "idle" /\ w.hdr = pWal[c].hdr /\ w.readLock = -1
      /\ w.txn = 0 /\ w.page = None /\ w.mode = "READ"
  <2>1. -1 \in -1 .. NSlot /\ 0 \in 0 .. MaxFrame + 1
    BY Numbers
  <2>2. "idle" \in Labels
    BY DEF Labels
  <2>3. pWal[c] \in WalObject /\ v \in Image
    BY <1>2
  <2> HIDE DEF v
  <2>4. /\ w \in WalObject /\ w.pc = "idle" /\ w.hdr = pWal[c].hdr /\ w.readLock = -1
        /\ w.txn = pWal[c].txn /\ w.page = pWal[c].page /\ w.mode = pWal[c].mode
    BY <2>1, <2>2, <2>3 DEF WalObject
  <2> QED
    BY <1>1, <1>3, <2>4
<1> HIDE DEF w
<1>5. LocksOf(c) /\ exclusive'[c] = exclusive[c]
  BY <1>1, <1>2, FreesShared
<1>6. Private(c) /\ pWal'[c] = w
  BY <1>1, <1>2, <1>4, <1>5, PrivateStep
<1>7. aHdr' = aHdr /\ nTxn' = nTxn
  BY <1>1 DEF shm, bounds
<1>8. Holds(c)'
  BY <1>4, <1>6 DEF Holds, Recovering, RestartSteps
<1>9. Control(c)'
  BY <1>1, <1>2, <1>4, <1>6, <1>7
     DEF Control, Recovering, RestartSteps, CheckpointSteps, FrameSteps, WithoutHdr, HdrBounded
<1> QED
  BY <1>1, <1>4, <1>6, <1>8, <1>9, RestingOK, PrivateKeeps DEF Rests

-----------------------------------------------------------------------------
(* Write transactions *)

\* A reader or writer between two calls.
LEMMA AtReading ==
  ASSUME WInv, NEW c \in Conn, pWal[c].pc \in {"reading", "restart"}
  PROVE  /\ pWal[c].readLock \in 0 .. NSlot /\ pWal[c].mode = "READ" /\ pWal[c].hdr # None
         /\ aHdr[0] # None /\ pWal[c].hdr \in Header /\ pWal[c].hdr.mxFrame \in 0 .. MaxFrame
         /\ aHdr[0] \in Header /\ aHdr[0].mxFrame \in 0 .. MaxFrame
         /\ Holds(c) /\ Control(c) /\ WriterOK(c) /\ ReaderOK(c)
         /\ pWal[c].pc = "reading" => pWal[c].page = None
         /\ pWal[c].pc = "restart" => pWal[c].txn # 0 /\ pWal[c].readLock = 0 /\ pWal[c].page # None
         /\ SharedTyped /\ pWal[c] \in WalObject
<1>1. Holds(c) /\ Control(c) /\ WriterOK(c) /\ ReaderOK(c) /\ pWal[c].readLock \in -1 .. NSlot
      /\ SharedTyped /\ pWal[c] \in WalObject
  BY ObjectTypes DEF WInv, ConnOK
<1>2. /\ pWal[c].readLock \in 0 .. NSlot /\ pWal[c].mode = "READ" /\ pWal[c].hdr # None
      /\ aHdr[0] # None
      /\ pWal[c].pc = "reading" => pWal[c].page = None
      /\ pWal[c].pc = "restart" => pWal[c].txn # 0 /\ pWal[c].readLock = 0 /\ pWal[c].page # None
  BY <1>1, Numbers DEF Control, RestartSteps, FrameSteps, CheckpointSteps, Recovering, WithoutHdr
<1>3. pWal[c].hdr \in Header /\ aHdr[0] \in Header
  BY <1>2, ObjectTypes DEF WInv, SharedTyped
<1> QED
  BY <1>1, <1>2, <1>3 DEF Header

LEMMA BeginWriteKeeps ==
  ASSUME WInv, NEW c \in Conn, sqlite3WalBeginWriteTransaction(c)
  PROVE  WInv'
<1> DEFINE w == [pWal[c] EXCEPT !.txn = nTxn + 1, !.cache = None]
<1>1. /\ pWal[c].pc = "reading" /\ pWal[c].txn = 0 /\ nTxn < MaxTxn /\ Unlocked(c, {WRITE})
      /\ aHdr[0] = pWal[c].hdr /\ LockExclusive(c, {WRITE}) /\ nTxn' = nTxn + 1
      /\ pWal' = [pWal EXCEPT ![c] = w] /\ UNCHANGED <<files, shm, nFault, fullSync>>
  BY DEF sqlite3WalBeginWriteTransaction, At
<1>2. /\ pWal[c].readLock \in 0 .. NSlot /\ pWal[c].mode = "READ" /\ pWal[c].hdr # None
      /\ aHdr[0] # None /\ aHdr[0] \in Header /\ aHdr[0].mxFrame \in 0 .. MaxFrame
      /\ Holds(c) /\ Control(c) /\ ReaderOK(c) /\ pWal[c].page = None
      /\ SharedTyped /\ pWal[c] \in WalObject
  BY <1>1, AtReading
<1>3. nTxn + 1 \in Txn /\ nTxn \in Nat /\ nTxn + 1 # 0 /\ Counted
  BY <1>1, <1>2, Numbers DEF SharedTyped, Txn, Counted
<1>4. /\ w \in WalObject /\ w.pc = "reading" /\ w.hdr = aHdr[0] /\ w.readLock = pWal[c].readLock
      /\ w.txn = nTxn + 1 /\ w.page = None /\ w.mode = "READ" /\ w.minFrame = pWal[c].minFrame
  <2>1. pWal[c] \in WalObject /\ nTxn + 1 \in Txn
    BY <1>2, <1>3
  <2>2. /\ w \in WalObject /\ w.pc = pWal[c].pc /\ w.hdr = pWal[c].hdr
        /\ w.readLock = pWal[c].readLock /\ w.txn = nTxn + 1 /\ w.page = pWal[c].page
        /\ w.mode = pWal[c].mode /\ w.minFrame = pWal[c].minFrame
    BY <2>1 DEF WalObject
  <2> QED
    BY <1>1, <1>2, <2>2
<1> HIDE DEF w
<1>5. LocksOf(c) /\ shared'[c] = shared[c] /\ exclusive'[c] = exclusive[c] \cup {WRITE}
  <2>1. {WRITE} \in SUBSET (0 .. 3 + NSlot)
    BY Numbers DEF WRITE
  <2> QED
    BY <1>1, <1>2, <2>1, TakesExclusive
<1>6. Private(c) /\ pWal'[c] = w
  <2>1. pWal'[c] = w /\ pWal' = [pWal EXCEPT ![c] = pWal'[c]]
    BY <1>1, <1>2 DEF SharedTyped
  <2> QED
    BY <1>1, <1>3, <1>4, <1>5, <2>1 DEF Private, StepOf, OwnTypes, LocksOf
<1>7. /\ aHdr' = aHdr /\ nBackfill' = nBackfill /\ wal' = wal /\ walHdr' = walHdr
      /\ aReadMark' = aReadMark
  BY <1>1 DEF shm, files
<1>8. Holds(c)'
  BY <1>1, <1>2, <1>4, <1>5, <1>6 DEF Holds, Recovering, RestartSteps
<1>9. HdrBounded(aHdr[0])'
  BY <1>1, <1>2, <1>6, <1>7, PrivateEffect DEF SharedTyped
<1>10. Control(c)'
  BY <1>1, <1>2, <1>3, <1>4, <1>6, <1>7, <1>9
     DEF Control, Recovering, RestartSteps, CheckpointSteps, FrameSteps, WithoutHdr, HdrBounded
<1>11. WriterOK(c)'
  <2>1. Chain(aHdr[0])'
    BY <1>2, <1>7 DEF WInv, LogOK, CommitChain, Chain, ValidFrame
  <2>2. Spilled(c)' = {}
    <3>1. aHdr[0].mxFrame + 1 .. aHdr[0].mxFrame = {}
      BY <1>2
    <3> QED
      BY <1>4, <1>6, <1>7, <3>1 DEF Spilled
  <2>3. Cardinality({}) = 0 /\ aHdr[0].mxFrame - aHdr[0].mxFrame = 0 /\ aHdr[0].mxFrame <= aHdr[0].mxFrame
    BY <1>2, FS_EmptySet
  <2>4. nTxn' - 1 = nTxn
    BY <1>1, <1>3
  <2>5. aHdr[0].mxFrame <= nTxn * Cardinality(Page) /\ aHdr[0].iChange <= nTxn
    BY <1>2 DEF SharedTyped, HdrBounded
  <2> QED
    BY <1>4, <1>6, <1>7, <2>1, <2>2, <2>3, <2>4, <2>5 DEF WriterOK, RestartSteps
<1>12. Last(c) = aHdr[0].mxFrame /\ Last(c)' = aHdr[0].mxFrame
  BY <1>1, <1>3, <1>4, <1>6, <1>7 DEF Last
<1>13. ReaderOK(c)'
  BY <1>1, <1>2, <1>4, <1>6, <1>7, <1>12 DEF ReaderOK
<1>14. ConnOK(c)'
  BY <1>4, <1>6, <1>8, <1>10, <1>11, <1>13
     DEF ConnOK, RecoveryOK, RestartOK, CheckpointOK, Copies, RestartSteps
<1>15. Quiet(c)
  BY <1>2, <1>4, <1>6, <1>12 DEF Quiet
<1> QED
  BY <1>1, <1>6, <1>14, <1>15, PrivateKeeps

\* The last frame of a log that is not empty is preceded by the log's header.
LEMMA ChainHead ==
  ASSUME NEW h \in Header, Chain(h), h.mxFrame # 0
  PROVE  HeadWritten(h)
BY DEF Chain, HeadWritten, Header

LEMMA WalFramesKeeps ==
  ASSUME WInv, NEW c \in Conn, NEW p \in Page, NEW commit \in BOOLEAN, walFrames(c, p, commit)
  PROVE  WInv'
<1> DEFINE label == FrameStep(pWal[c])
           w == [pWal[c] EXCEPT !.pc = label, !.page = p, !.commit = commit]
<1>1. /\ pWal[c].pc = "reading" /\ pWal[c].txn # 0 /\ p \notin Spilled(c)
      /\ pWal' = [pWal EXCEPT ![c] = w] /\ UNCHANGED <<files, shm, locks, bounds>>
  BY DEF walFrames, At
<1>2. /\ pWal[c].readLock \in 0 .. NSlot /\ pWal[c].mode = "READ" /\ pWal[c].hdr # None
      /\ aHdr[0] # None /\ pWal[c].hdr \in Header
      /\ Holds(c) /\ Control(c) /\ WriterOK(c) /\ ReaderOK(c) /\ pWal[c].page = None
      /\ SharedTyped /\ pWal[c] \in WalObject
  BY <1>1, AtReading
<1>3. /\ label = (IF pWal[c].readLock = 0 THEN "restart"
                  ELSE IF pWal[c].hdr.mxFrame = 0 THEN "header" ELSE "frame")
      /\ label \in Labels /\ p # None
  BY NoneAssumption DEF FrameStep, Labels
<1> HIDE DEF label
<1>4. /\ w \in WalObject /\ w.pc = label /\ w.hdr = pWal[c].hdr /\ w.readLock = pWal[c].readLock
      /\ w.txn = pWal[c].txn /\ w.page = p /\ w.mode = "READ" /\ w.minFrame = pWal[c].minFrame
  <2>1. pWal[c] \in WalObject /\ label \in Labels
    BY <1>2, <1>3
  <2>2. /\ w \in WalObject /\ w.pc = label /\ w.hdr = pWal[c].hdr
        /\ w.readLock = pWal[c].readLock /\ w.txn = pWal[c].txn /\ w.page = p
        /\ w.mode = pWal[c].mode /\ w.minFrame = pWal[c].minFrame
    BY <2>1 DEF WalObject
  <2> QED
    BY <1>2, <2>2
<1> HIDE DEF w
<1>5. LocksOf(c) /\ shared'[c] = shared[c] /\ exclusive'[c] = exclusive[c]
  BY <1>1, <1>2, SameLocks
<1>6. Private(c) /\ pWal'[c] = w
  BY <1>1, <1>2, <1>4, <1>5, PrivateStep
<1>7. /\ aHdr' = aHdr /\ nTxn' = nTxn /\ nBackfill' = nBackfill /\ wal' = wal
      /\ walHdr' = walHdr /\ aReadMark' = aReadMark
  BY <1>1 DEF shm, files, bounds
<1>8. Holds(c)'
  BY <1>1, <1>2, <1>3, <1>4, <1>5, <1>6 DEF Holds, Recovering, RestartSteps
<1>9. Control(c)'
  BY <1>1, <1>2, <1>3, <1>4, <1>6, <1>7
     DEF Control, Recovering, RestartSteps, CheckpointSteps, FrameSteps, WithoutHdr, HdrBounded
<1>10. WriterOK(c)'
  <2>1. label = "frame" => HeadWritten(pWal[c].hdr)
    BY <1>1, <1>2, <1>3, ChainHead DEF WriterOK, RestartSteps
  <2>2. label = "restart" => pWal[c].hdr = aHdr[0]
    BY <1>1, <1>2, <1>3 DEF WriterOK
  <2> QED
    BY <1>1, <1>2, <1>3, <1>4, <1>6, <1>7, <2>1, <2>2, WriterSame, SpilledPages DEF RestartSteps
<1>11. Last(c)' = Last(c)
  BY <1>4, <1>6, <1>7 DEF Last
<1>12. ReaderOK(c)'
  BY <1>1, <1>2, <1>3, <1>4, <1>6, <1>7, <1>11 DEF ReaderOK
<1>13. ConnOK(c)'
  BY <1>3, <1>4, <1>6, <1>8, <1>9, <1>10, <1>12
     DEF ConnOK, RecoveryOK, RestartOK, CheckpointOK, Copies, RestartSteps
<1>14. Quiet(c)
  <2>1. pWal[c].readLock > 0 => Last(c) \in Nat
    BY LastTypes
  <2> QED
    BY <1>2, <1>3, <1>4, <1>6, <1>11, <2>1 DEF Quiet
<1> QED
  BY <1>1, <1>6, <1>13, <1>14, PrivateKeeps

LEMMA RestartNotPossibleKeeps ==
  ASSUME WInv, NEW c \in Conn, restart_not_possible(c)
  PROVE  WInv'
<1> DEFINE w == [pWal[c] EXCEPT !.pc = "rebegin", !.readLock = -1]
<1>1. /\ pWal[c].pc = "restart" /\ UnlockShared(c, READ_LOCK(0))
      /\ pWal' = [pWal EXCEPT ![c] = w] /\ UNCHANGED <<files, shm, bounds>>
  BY DEF restart_not_possible, At
<1>2. /\ pWal[c].mode = "READ" /\ pWal[c].hdr # None /\ aHdr[0] # None
      /\ Holds(c) /\ Control(c) /\ WriterOK(c) /\ pWal[c].page # None /\ pWal[c].txn # 0
      /\ SharedTyped /\ pWal[c] \in WalObject
  BY <1>1, AtReading
<1>3. /\ w \in WalObject /\ w.pc = "rebegin" /\ w.hdr = pWal[c].hdr /\ w.readLock = -1
      /\ w.txn = pWal[c].txn /\ w.page = pWal[c].page /\ w.mode = "READ"
  <2>1. -1 \in -1 .. NSlot
    BY Numbers
  <2>2. "rebegin" \in Labels
    BY DEF Labels
  <2> QED
    BY <1>2, <2>1, <2>2 DEF WalObject
<1> HIDE DEF w
<1>4. LocksOf(c) /\ exclusive'[c] = exclusive[c]
  BY <1>1, <1>2, FreesShared
<1>5. Private(c) /\ pWal'[c] = w
  BY <1>1, <1>2, <1>3, <1>4, PrivateStep
<1>6. aHdr' = aHdr /\ nTxn' = nTxn /\ wal' = wal /\ walHdr' = walHdr
  BY <1>1 DEF shm, files, bounds
<1>7. Holds(c)'
  BY <1>2, <1>3, <1>4, <1>5 DEF Holds, Recovering, RestartSteps
<1>8. Control(c)'
  BY <1>1, <1>2, <1>3, <1>5, <1>6
     DEF Control, Recovering, RestartSteps, CheckpointSteps, FrameSteps, WithoutHdr, HdrBounded
<1>9. WriterOK(c)'
  BY <1>1, <1>2, <1>3, <1>5, <1>6, WriterSame, SpilledPages DEF RestartSteps
<1>10. ConnOK(c)' /\ Quiet(c)
  BY <1>3, <1>5, <1>7, <1>8, <1>9
     DEF ConnOK, RecoveryOK, RestartOK, CheckpointOK, Copies, ReaderOK, RestartSteps, Quiet
<1> QED
  BY <1>1, <1>5, <1>10, PrivateKeeps

-----------------------------------------------------------------------------
(* Checkpoints *)

LEMMA BeginCheckpointKeeps ==
  ASSUME WInv, NEW c \in Conn, NEW mode \in Modes, sqlite3WalCheckpoint(c, mode)
  PROVE  WInv'
<1> DEFINE own == mode # "PASSIVE" /\ Unlocked(c, {WRITE})
           new == IF own THEN mode ELSE "PASSIVE"
           ls == {CKPT} \cup (IF own THEN {WRITE} ELSE {})
           w == [pWal[c] EXCEPT !.pc = "hdr", !.mode = new]
<1>1. /\ pWal[c].pc = "idle" /\ Unlocked(c, {CKPT}) /\ LockExclusive(c, ls)
      /\ pWal' = [pWal EXCEPT ![c] = w] /\ UNCHANGED <<files, shm, bounds>>
      /\ new = "TRUNCATE" => nTxn < MaxTxn
  BY DEF sqlite3WalCheckpoint, At
<1>2. /\ pWal[c].txn = 0 /\ pWal[c].readLock = -1 /\ pWal[c].page = None
      /\ Holds(c) /\ Control(c) /\ SharedTyped /\ pWal[c] \in WalObject
  BY <1>1, AtHdr, ObjectTypes DEF WInv
<1>3. /\ new \in {"PASSIVE", "FULL", "TRUNCATE"} /\ ls \in SUBSET (0 .. 3 + NSlot)
      /\ Unlocked(c, ls) /\ CKPT \in ls /\ (new \in {"FULL", "TRUNCATE"} => WRITE \in ls)
  <2>1. mode \in {"PASSIVE", "FULL", "TRUNCATE"}
    BY WalAssumption
  <2>2. {CKPT, WRITE} \subseteq 0 .. 3 + NSlot
    BY Numbers DEF WRITE, CKPT
  <2>3. Unlocked(c, ls)
    BY <1>1 DEF Unlocked
  <2> QED
    BY <2>1, <2>2, <2>3
<1> HIDE DEF new, ls
<1>4. /\ w \in WalObject /\ w.pc = "hdr" /\ w.hdr = pWal[c].hdr /\ w.readLock = -1
      /\ w.txn = 0 /\ w.page = None /\ w.mode = new
  <2>1. "hdr" \in Labels
    BY DEF Labels
  <2>2. pWal[c] \in WalObject /\ new \in {"READ", "PASSIVE", "FULL", "TRUNCATE"}
    BY <1>2, <1>3
  <2>3. /\ w \in WalObject /\ w.pc = "hdr" /\ w.hdr = pWal[c].hdr /\ w.mode = new
        /\ w.readLock = pWal[c].readLock /\ w.txn = pWal[c].txn /\ w.page = pWal[c].page
    BY <2>1, <2>2 DEF WalObject
  <2> QED
    BY <1>2, <2>3
<1> HIDE DEF w
<1>5. LocksOf(c) /\ shared'[c] = shared[c] /\ exclusive'[c] = exclusive[c] \cup ls
  BY <1>1, <1>2, <1>3, TakesExclusive
<1>6. Private(c) /\ pWal'[c] = w
  BY <1>1, <1>2, <1>4, <1>5, PrivateStep
<1>7. aHdr' = aHdr /\ nTxn' = nTxn
  BY <1>1 DEF shm, bounds
<1>8. Holds(c)'
  BY <1>3, <1>4, <1>5, <1>6 DEF Holds, Recovering, RestartSteps
<1>9. Control(c)'
  BY <1>1, <1>2, <1>4, <1>6, <1>7
     DEF Control, Recovering, RestartSteps, CheckpointSteps, FrameSteps, WithoutHdr, HdrBounded
<1> QED
  BY <1>1, <1>4, <1>6, <1>8, <1>9, RestingOK, PrivateKeeps DEF Rests

\* A step that makes no reader and passes no slot that it has not passed.
LEMMA ReadersKept ==
  ASSUME WInv, SharedTyped', Exclusion', NEW c \in Conn, Effect(c), Control(c)',
         pWal'[c].readLock > 0 => pWal'[c].readLock = pWal[c].readLock /\ Last(c) <= Last(c)',
         \A a \in Conn \ {c} : \A i \in Slots :
           pWal[a].readLock = i /\ Passed(c, i)' => pWal'[c].mxSafe <= Last(a)
  PROVE  ReadersRespected'
<1>1. \A d \in Conn \ {c} : pWal'[d] = pWal[d]
  BY DEF Effect
<1>2. ASSUME NEW a \in Conn, NEW d \in Conn, pWal'[a].readLock > 0,
             Passed(d, pWal[a].readLock)'
      PROVE  pWal'[d].mxSafe <= Last(a)'
  <2>1. CASE d = c
    <3>1. a # c
      <4>1. pWal'[d].mode # "READ" /\ pWal'[d].pc \in CheckpointSteps
        BY <1>2, <2>1 DEF Passed, Control, CheckpointSteps
      <4>2. pWal'[c].readLock \in -1 .. NSlot
        BY DEF SharedTyped, WalObject
      <4> QED
        BY <1>2, <2>1, <4>1, <4>2, Numbers DEF Control, CheckpointSteps, FrameSteps, RestartSteps
    <3>2. pWal'[a] = pWal[a] /\ Last(a)' = Last(a)
      BY <1>1, <3>1, LastSame
    <3>3. pWal[a].readLock \in Slots
      BY <1>2, <3>2, ObjectTypes DEF WInv, Slots
    <3>4. ASSUME NEW i \in Slots, pWal[a].readLock = i PROVE Passed(c, i)'
      BY <1>2, <2>1, <3>2, <3>4 DEF Passed
    <3> QED
      BY <1>2, <2>1, <3>1, <3>2, <3>3, <3>4
  <2>2. CASE d # c
    <3>1. pWal'[d] = pWal[d]
      BY <1>1, <2>2
    <3>2. pWal[a].readLock = pWal'[a].readLock /\ (Last(a) = Last(a)' \/ Last(a) <= Last(a)')
      <4>1. CASE a = c
        BY <1>2, <4>1
      <4>2. CASE a # c
        BY <1>1, <4>2, LastSame
      <4> QED
        BY <4>1, <4>2
    <3>3. Passed(d, pWal[a].readLock) /\ pWal[a].readLock > 0
      BY <1>2, <3>1, <3>2 DEF Passed
    <3>4. pWal[d].mxSafe <= Last(a)
      BY <3>3 DEF WInv, ReadersRespected
    <3>5. Last(a) \in Nat /\ pWal[d].mxSafe \in Nat
      BY <3>3, LastTypes, ObjectTypes DEF WInv
    <3>6. Last(a)' \in Nat
      <4>1. CASE a = c
        BY <1>2, <4>1, NextLastTypes
      <4>2. CASE a # c
        BY <3>2, <3>5, <4>2, LastSame
      <4> QED
        BY <4>1, <4>2
    <3> QED
      BY <3>1, <3>2, <3>4, <3>5, <3>6
  <2> QED
    BY <2>1, <2>2
<1> QED
  BY <1>2 DEF ReadersRespected

LEMMA RestartAloneKept ==
  ASSUME WInv, NEW c \in Conn, Effect(c), pWal'[c].pc # "restart_publish",
         pWal'[c].pc = "ck_start" \/ Copies(c)' => pWal[c].pc = "ck_start" \/ Copies(c)
  PROVE  RestartAlone'
<1>1. \A d \in Conn \ {c} : pWal'[d] = pWal[d]
  BY DEF Effect
<1> QED
  BY <1>1 DEF WInv, RestartAlone, At, Copies

\* A checkpointer that has read the header.
LEMMA AtCheckpoint ==
  ASSUME WInv, NEW c \in Conn, pWal[c].pc \in CheckpointSteps \ {"ck_return"}
  PROVE  /\ pWal[c].readLock = -1 /\ pWal[c].mode # "READ" /\ pWal[c].hdr # None
         /\ aHdr[0] # None /\ pWal[c].hdr \in Header /\ pWal[c].hdr.mxFrame \in 0 .. MaxFrame
         /\ aHdr[0] \in Header /\ aHdr[0].mxFrame \in 0 .. MaxFrame
         /\ pWal[c].txn = 0 /\ pWal[c].page = None
         /\ Holds(c) /\ Control(c) /\ CheckpointOK(c)
         /\ SharedTyped /\ pWal[c] \in WalObject /\ nBackfill \in 0 .. MaxFrame
<1>1. Holds(c) /\ Control(c) /\ CheckpointOK(c) /\ pWal[c].readLock \in -1 .. NSlot
      /\ SharedTyped /\ pWal[c] \in WalObject /\ nBackfill \in 0 .. MaxFrame
  BY ObjectTypes DEF WInv, ConnOK, SharedTyped
<1>2. /\ pWal[c].readLock = -1 /\ pWal[c].mode # "READ" /\ pWal[c].hdr # None
      /\ aHdr[0] # None /\ pWal[c].txn = 0 /\ pWal[c].page = None
  BY <1>1, Numbers DEF Control, RestartSteps, FrameSteps, CheckpointSteps, Recovering, WithoutHdr
<1>3. pWal[c].hdr \in Header /\ aHdr[0] \in Header
  BY <1>2, ObjectTypes DEF WInv, SharedTyped
<1> QED
  BY <1>1, <1>2, <1>3 DEF Header

LEMMA CheckpointStartKeeps ==
  ASSUME WInv, NEW c \in Conn, ck_start(c)
  PROVE  WInv'
<1> DEFINE label == IF nBackfill < pWal[c].hdr.mxFrame THEN "ck_slots" ELSE "ck_end"
           w == [pWal[c] EXCEPT !.pc = label, !.slot = 1, !.mxSafe = pWal[c].hdr.mxFrame]
<1>1. /\ pWal[c].pc = "ck_start" /\ pWal' = [pWal EXCEPT ![c] = w]
      /\ UNCHANGED <<files, shm, locks, bounds>>
  BY DEF ck_start, At
<1>2. /\ pWal[c].readLock = -1 /\ pWal[c].mode # "READ" /\ pWal[c].hdr # None
      /\ aHdr[0] # None /\ pWal[c].hdr \in Header /\ pWal[c].hdr.mxFrame \in 0 .. MaxFrame
      /\ pWal[c].txn = 0 /\ pWal[c].page = None /\ Holds(c) /\ Control(c) /\ CheckpointOK(c)
      /\ SharedTyped /\ pWal[c] \in WalObject /\ nBackfill \in 0 .. MaxFrame
  BY <1>1, AtCheckpoint DEF CheckpointSteps
<1>3. label \in Labels /\ 1 \in 0 .. NSlot /\ 1 \in Slots
  BY Numbers DEF Labels
<1>4. /\ w \in WalObject /\ w.pc = label /\ w.hdr = pWal[c].hdr /\ w.readLock = -1
      /\ w.txn = 0 /\ w.page = None /\ w.mode = pWal[c].mode /\ w.slot = 1
      /\ w.mxSafe = pWal[c].hdr.mxFrame /\ w.plan = pWal[c].plan
  <2> HIDE DEF label
  <2>1. pWal[c] \in WalObject /\ label \in Labels /\ 1 \in 0 .. NSlot
        /\ pWal[c].hdr.mxFrame \in 0 .. MaxFrame
    BY <1>2, <1>3
  <2>2. /\ w \in WalObject /\ w.pc = label /\ w.hdr = pWal[c].hdr
        /\ w.readLock = pWal[c].readLock /\ w.txn = pWal[c].txn /\ w.page = pWal[c].page
        /\ w.mode = pWal[c].mode /\ w.slot = 1 /\ w.mxSafe = pWal[c].hdr.mxFrame
        /\ w.plan = pWal[c].plan
    BY <2>1 DEF WalObject
  <2> QED
    BY <1>2, <2>2
<1> HIDE DEF w
<1>5. LocksOf(c) /\ shared'[c] = shared[c] /\ exclusive'[c] = exclusive[c]
  BY <1>1, <1>2, SameLocks
<1>6. Private(c) /\ pWal'[c] = w
  BY <1>1, <1>2, <1>4, <1>5, PrivateStep
<1>7. aHdr' = aHdr /\ nTxn' = nTxn /\ nBackfill' = nBackfill
  BY <1>1 DEF shm, bounds
<1>8. Holds(c)'
  BY <1>2, <1>4, <1>5, <1>6 DEF Holds, Recovering, RestartSteps
<1>9. Control(c)'
  BY <1>1, <1>2, <1>4, <1>6, <1>7
     DEF Control, Recovering, RestartSteps, CheckpointSteps, FrameSteps, WithoutHdr, HdrBounded
<1>10. pWal[c].hdr.mxFrame <= aHdr[0].mxFrame
  BY <1>1, <1>2 DEF CheckpointOK
<1>11. ConnOK(c)'
  BY <1>2, <1>3, <1>4, <1>6, <1>7, <1>8, <1>9, <1>10
     DEF ConnOK, WriterOK, RecoveryOK, RestartOK, CheckpointOK, Copies, ReaderOK, RestartSteps
<1>12. Effect(c) /\ FilesTyped' /\ SharedTyped' /\ Exclusion' /\ LogOK' /\ NBackfillInLog'
  BY <1>1, <1>6, PrivateEffect
<1>13. RestartAlone'
  BY <1>1, <1>4, <1>6, <1>12, RestartAloneKept
<1>14. ReadersRespected'
  <2>1. \A i \in Slots : ~Passed(c, i)'
    BY <1>4, <1>6 DEF Passed, Slots
  <2> QED
    BY <1>4, <1>6, <1>9, <1>12, <2>1, ReadersKept
<1> QED
  BY <1>11, <1>12, <1>13, <1>14, StepKeeps

LEMMA BoundKept ==
  ASSUME SharedTyped, Counted, aHdr'[0] = aHdr[0]
  PROVE  HdrBounded(aHdr[0])'
<1>1. nTxn \in Nat /\ nTxn' \in Nat /\ nTxn <= nTxn'
  BY DEF SharedTyped, Counted, Txn
<1>2. aHdr[0] \in Header \cup {None} /\ HdrBounded(aHdr[0])
  BY DEF SharedTyped
<1>3. /\ nTxn * Cardinality(Page) \in Nat /\ nTxn' * Cardinality(Page) \in Nat
      /\ nTxn * Cardinality(Page) <= nTxn' * Cardinality(Page)
  BY <1>1, BoundsGrow
<1>4. aHdr[0] # None => aHdr[0].mxFrame \in Nat /\ aHdr[0].iChange \in Nat
  BY <1>2 DEF Header, Txn
<1> QED
  BY <1>1, <1>2, <1>3, <1>4 DEF HdrBounded

\* A step of c that writes no frame and publishes nothing.
LEMMA MarksEffect ==
  ASSUME WInv, NEW c \in Conn, Private(c), FilesTyped',
         UNCHANGED <<wal, walHdr, aHdr, nBackfill, aPgno>>,
         aReadMark' \in [Slots -> 0 .. READMARK_NOT_USED],
         \A i \in Slots : aReadMark'[i] = aReadMark[i] \/ Unlocked(c, {READ_LOCK(i)})
  PROVE  Effect(c) /\ SharedTyped' /\ Exclusion' /\ LogOK' /\ NBackfillInLog'
<1>1. Effect(c)
  BY StepOthers DEF Effect, Private, Counted, WInv
<1>2. SharedTyped' /\ Exclusion'
  BY SharedKept, BoundKept, ExclusionKept DEF Private, WInv, SharedTyped
<1>3. LogOK' /\ NBackfillInLog'
  BY LogSame, NBackfillSame DEF WInv, Private
<1> QED
  BY <1>1, <1>2, <1>3

LEMMA PlanType ==
  ASSUME WInv, NEW c \in Conn, pWal[c].hdr # None, NEW m \in 0 .. MaxFrame
  PROVE  Plan(c, m) \subseteq 1 .. m
<1> DEFINE S(p) == {0} \cup {k \in nBackfill + 1 .. pWal[c].hdr.mxFrame : aPgno[k] = p}
<1>1. pWal[c].hdr.mxFrame \in Nat /\ nBackfill \in Nat
  BY ObjectTypes DEF WInv, SharedTyped
<1>2. ASSUME NEW p \in Page PROVE Max(S(p)) \in Nat
  <2>1. S(p) \in SUBSET Nat /\ S(p) # {} /\ \A x \in S(p) : x <= pWal[c].hdr.mxFrame
    BY <1>1
  <2> HIDE DEF S
  <2> QED
    BY <1>1, <2>1, LeastAndGreatest
<1> HIDE DEF S
<1>3. Plan(c, m) = {k \in {Max(S(p)) : p \in Page} : k > 0 /\ k <= m}
  BY DEF Plan, S
<1> QED
  BY <1>2, <1>3

LEMMA CheckpointSlotKeeps ==
  ASSUME WInv, NEW c \in Conn, ck_slot(c)
  PROVE  WInv'
<1> DEFINE i == pWal[c].slot
           below == aReadMark[i] < pWal[c].mxSafe
           safe == IF below /\ InUse(c, i) THEN aReadMark[i] ELSE pWal[c].mxSafe
           last == i = NSlot
           copies == last /\ nBackfill < safe
           label == IF ~last THEN "ck_slots" ELSE IF copies THEN "ck_lock" ELSE "ck_end"
           plan == IF copies THEN Plan(c, safe) ELSE {}
           slot == IF last THEN 0 ELSE i + 1
           w == [pWal[c] EXCEPT !.mxSafe = safe, !.slot = slot, !.pc = label, !.plan = plan]
<1>1. /\ pWal[c].pc = "ck_slots" /\ pWal' = [pWal EXCEPT ![c] = w]
      /\ aReadMark' = IF below /\ ~InUse(c, i)
                      THEN [aReadMark EXCEPT ![i] = IF i = 1 THEN safe ELSE READMARK_NOT_USED]
                      ELSE aReadMark
      /\ UNCHANGED <<files, aHdr, nBackfill, aPgno, locks, bounds>>
  <2>1. pWal[c].pc = "ck_slots" /\ c \in DOMAIN pWal
    BY ObjectTypes DEF ck_slot, At, WInv
  <2> QED
    BY <2>1 DEF ck_slot
<1>2. /\ pWal[c].readLock = -1 /\ pWal[c].mode # "READ" /\ pWal[c].hdr # None
      /\ aHdr[0] # None /\ pWal[c].hdr \in Header /\ pWal[c].hdr.mxFrame \in 0 .. MaxFrame
      /\ pWal[c].txn = 0 /\ pWal[c].page = None /\ Holds(c) /\ Control(c) /\ CheckpointOK(c)
      /\ SharedTyped /\ pWal[c] \in WalObject /\ nBackfill \in 0 .. MaxFrame
  BY <1>1, AtCheckpoint DEF CheckpointSteps
<1>3. /\ i \in Slots /\ nBackfill < pWal[c].hdr.mxFrame /\ pWal[c].hdr.mxFrame <= aHdr[0].mxFrame
      /\ pWal[c].mxSafe <= pWal[c].hdr.mxFrame /\ pWal[c].mxSafe \in 0 .. MaxFrame
      /\ aReadMark[i] \in 0 .. READMARK_NOT_USED
  BY <1>1, <1>2, ObjectTypes DEF CheckpointOK, Copies, SharedTyped
<1>4. safe \in 0 .. MaxFrame /\ safe <= pWal[c].mxSafe /\ safe <= pWal[c].hdr.mxFrame
  <2>1. MaxFrame \in Nat /\ aReadMark[i] \in Nat /\ pWal[c].mxSafe \in Nat
        /\ pWal[c].hdr.mxFrame \in Nat /\ pWal[c].mxSafe <= MaxFrame
    BY <1>2, <1>3, Numbers DEF READMARK_NOT_USED
  <2>2. CASE below /\ InUse(c, i)
    BY <1>3, <2>1, <2>2
  <2>3. CASE ~(below /\ InUse(c, i))
    BY <1>3, <2>1, <2>3
  <2> QED
    BY <2>2, <2>3
<1>5. label \in Labels /\ slot \in 0 .. NSlot /\ (~last => slot \in Slots)
  BY <1>3, Numbers DEF Labels, Slots
<1>6. plan \subseteq 1 .. safe /\ plan \subseteq Frames
  <2>1. Plan(c, safe) \subseteq 1 .. safe
    BY <1>2, <1>4, PlanType
  <2> HIDE DEF safe
  <2> QED
    BY <1>4, <2>1, Numbers DEF Frames
<1>7. /\ w \in WalObject /\ w.pc = label /\ w.hdr = pWal[c].hdr /\ w.readLock = -1
      /\ w.txn = 0 /\ w.page = None /\ w.mode = pWal[c].mode /\ w.slot = slot
      /\ w.mxSafe = safe /\ w.plan = plan
  <2> HIDE DEF label, safe, slot, plan
  <2>1. pWal[c] \in WalObject /\ label \in Labels /\ slot \in 0 .. NSlot
        /\ safe \in 0 .. MaxFrame /\ plan \subseteq Frames
    BY <1>2, <1>4, <1>5, <1>6
  <2> DEFINE u == [pWal[c] EXCEPT !.mxSafe = safe, !.slot = slot]
  <2>2. /\ u \in WalObject /\ u.hdr = pWal[c].hdr /\ u.readLock = pWal[c].readLock
        /\ u.txn = pWal[c].txn /\ u.page = pWal[c].page /\ u.mode = pWal[c].mode
        /\ u.slot = slot /\ u.mxSafe = safe
    BY <2>1 DEF WalObject
  <2>3. w = [u EXCEPT !.pc = label, !.plan = plan]
    OBVIOUS
  <2> HIDE DEF u, w
  <2>4. /\ w \in WalObject /\ w.pc = label /\ w.hdr = u.hdr /\ w.readLock = u.readLock
        /\ w.txn = u.txn /\ w.page = u.page /\ w.mode = u.mode /\ w.slot = u.slot
        /\ w.mxSafe = u.mxSafe /\ w.plan = plan
    BY <2>1, <2>2, <2>3 DEF WalObject
  <2> QED
    BY <1>2, <2>2, <2>4
<1> HIDE DEF w, plan
<1>8. LocksOf(c) /\ shared'[c] = shared[c] /\ exclusive'[c] = exclusive[c]
  BY <1>1, <1>2, SameLocks
<1>9. Private(c) /\ pWal'[c] = w
  BY <1>1, <1>2, <1>7, <1>8, PrivateStep
<1>10. /\ aHdr' = aHdr /\ nTxn' = nTxn /\ nBackfill' = nBackfill /\ wal' = wal
       /\ walHdr' = walHdr /\ FilesTyped'
  BY <1>1, <1>9, FilesSame DEF files, bounds, WInv, SharedTyped, Private
<1>11. /\ aReadMark' \in [Slots -> 0 .. READMARK_NOT_USED]
       /\ \A j \in Slots : aReadMark'[j] = aReadMark[j] \/ Unlocked(c, {READ_LOCK(j)})
  <2>1. READMARK_NOT_USED \in 0 .. READMARK_NOT_USED /\ safe \in 0 .. READMARK_NOT_USED
    BY <1>4, Numbers DEF READMARK_NOT_USED
  <2>2. aReadMark \in [Slots -> 0 .. READMARK_NOT_USED]
    BY <1>2 DEF SharedTyped
  <2> HIDE DEF safe
  <2> QED
    BY <1>1, <1>3, <2>1, <2>2 DEF InUse
<1>12. Effect(c) /\ SharedTyped' /\ Exclusion' /\ LogOK' /\ NBackfillInLog'
  BY <1>1, <1>9, <1>10, <1>11, MarksEffect
<1>13. Holds(c)'
  BY <1>2, <1>7, <1>8, <1>9 DEF Holds, Recovering, RestartSteps
<1>14. Control(c)'
  BY <1>1, <1>2, <1>7, <1>9, <1>10
     DEF Control, Recovering, RestartSteps, CheckpointSteps, FrameSteps, WithoutHdr, HdrBounded
<1>15. CheckpointOK(c)'
  <2> HIDE DEF safe, copies
  <2> QED
    BY <1>3, <1>4, <1>5, <1>6, <1>7, <1>9, <1>10 DEF CheckpointOK, Copies
<1>16. ConnOK(c)'
  BY <1>7, <1>9, <1>13, <1>14, <1>15
     DEF ConnOK, WriterOK, RecoveryOK, RestartOK, ReaderOK, RestartSteps
<1>17. RestartAlone'
  BY <1>1, <1>7, <1>9, <1>12, RestartAloneKept DEF Copies
<1>18. ReadersRespected'
  <2>1. ASSUME NEW a \in Conn \ {c}, NEW j \in Slots, pWal[a].readLock = j, Passed(c, j)'
        PROVE  safe <= Last(a)
    <3>1. pWal[a].readLock > 0 /\ Last(a) \in Nat
      BY <2>1, LastTypes DEF Slots
    <3>2. CASE j = i
      <4>1. aReadMark[i] <= Last(a) /\ aReadMark[i] \in Nat
        BY <2>1, <3>1, <3>2 DEF WInv, ConnOK, ReaderOK
      <4>2. InUse(c, i)
        <5>1. READ_LOCK(i) \in shared[a]
          BY <2>1, <3>1, <3>2 DEF WInv, ConnOK, Holds, Slots
        <5> QED
          BY <5>1 DEF InUse, Unlocked
      <4> QED
        BY <1>3, <3>1, <4>1, <4>2
    <3>3. CASE j # i
      <4>1. j < i
        BY <1>3, <1>5, <1>7, <1>9, <2>1, <3>3 DEF Passed, Slots
      <4>2. Passed(c, j)
        BY <1>1, <4>1 DEF Passed
      <4>3. pWal[c].mxSafe <= Last(a)
        BY <2>1, <3>1, <4>2 DEF WInv, ReadersRespected
      <4> QED
        BY <1>3, <1>4, <3>1, <4>3
    <3> QED
      BY <3>2, <3>3
  <2>2. ~(pWal'[c].readLock > 0) /\ pWal'[c].mxSafe = safe
    BY <1>7, <1>9
  <2> HIDE DEF safe
  <2> QED
    BY <1>12, <1>14, <2>1, <2>2, ReadersKept
<1> QED
  BY <1>10, <1>12, <1>16, <1>17, <1>18, StepKeeps


\* The log that is synced holds what it held.
LEMMA SyncWalTyped ==
  ASSUME FilesTyped, nTxn' = nTxn, SyncWal
  PROVE  FilesTyped' /\ wal' = wal /\ walHdr' = walHdr
<1>1. \A f : LogTyped(f) => LogTyped(f)'
  BY DEF LogTyped, MayHold
<1> QED
  BY <1>1 DEF FilesTyped, SyncWal

\* A step that leaves c with frames to copy, no more than before.
LEMMA CopyingKeeps ==
  ASSUME WInv, NEW c \in Conn, pWal[c].pc \in {"ck_lock", "ck_copy"},
         NEW q \in SUBSET pWal[c].plan, NEW w,
         w = [pWal[c] EXCEPT !.pc = "ck_copy", !.plan = q], pWal' = [pWal EXCEPT ![c] = w],
         LocksOf(c), shared'[c] = shared[c], exclusive'[c] = exclusive[c] \cup {READ_LOCK(0)},
         FilesTyped', UNCHANGED <<wal, walHdr, shm, bounds>>
  PROVE  WInv'
<1>1. /\ pWal[c].readLock = -1 /\ pWal[c].mode # "READ" /\ pWal[c].hdr # None
      /\ aHdr[0] # None /\ pWal[c].hdr \in Header /\ pWal[c].hdr.mxFrame \in 0 .. MaxFrame
      /\ pWal[c].txn = 0 /\ pWal[c].page = None /\ Holds(c) /\ Control(c) /\ CheckpointOK(c)
      /\ SharedTyped /\ pWal[c] \in WalObject /\ nBackfill \in 0 .. MaxFrame
  BY AtCheckpoint DEF CheckpointSteps
<1>2. /\ w \in WalObject /\ w.pc = "ck_copy" /\ w.hdr = pWal[c].hdr /\ w.readLock = -1
      /\ w.txn = 0 /\ w.page = None /\ w.mode = pWal[c].mode
      /\ w.mxSafe = pWal[c].mxSafe /\ w.plan = q
  <2>1. "ck_copy" \in Labels
    BY DEF Labels
  <2>2. pWal[c] \in WalObject
    BY <1>1
  <2>3. /\ w \in WalObject /\ w.pc = "ck_copy" /\ w.hdr = pWal[c].hdr
        /\ w.readLock = pWal[c].readLock /\ w.txn = pWal[c].txn /\ w.page = pWal[c].page
        /\ w.mode = pWal[c].mode /\ w.mxSafe = pWal[c].mxSafe /\ w.plan = q
    BY <2>1, <2>2 DEF WalObject
  <2> QED
    BY <1>1, <2>3
<1>3. Private(c) /\ pWal'[c] = w
  BY <1>1, <1>2, PrivateStep
<1>4. aHdr' = aHdr /\ nTxn' = nTxn /\ nBackfill' = nBackfill /\ aReadMark' = aReadMark
      /\ aPgno' = aPgno
  BY DEF bounds, shm
<1>5. Effect(c) /\ SharedTyped' /\ Exclusion' /\ LogOK' /\ NBackfillInLog'
  BY <1>1, <1>3, <1>4, MarksEffect DEF SharedTyped
<1>6. Holds(c)'
  BY <1>1, <1>2, <1>3 DEF Holds, Recovering, RestartSteps
<1>7. Control(c)'
  BY <1>1, <1>2, <1>3, <1>4
     DEF Control, Recovering, RestartSteps, CheckpointSteps, FrameSteps, WithoutHdr, HdrBounded
<1>8. CheckpointOK(c)'
  BY <1>1, <1>2, <1>3, <1>4 DEF CheckpointOK, Copies
<1>9. ConnOK(c)'
  BY <1>2, <1>3, <1>6, <1>7, <1>8
     DEF ConnOK, WriterOK, RecoveryOK, RestartOK, ReaderOK, RestartSteps
<1>10. RestartAlone'
  BY <1>2, <1>3, <1>5, RestartAloneKept DEF Copies
<1>11. ReadersRespected'
  <2>1. ASSUME NEW a \in Conn \ {c}, NEW i \in Slots, pWal[a].readLock = i
        PROVE  pWal[c].mxSafe <= Last(a)
    BY <2>1 DEF WInv, ReadersRespected, Passed, Slots
  <2> QED
    BY <1>2, <1>3, <1>5, <1>7, <2>1, ReadersKept
<1> QED
  BY <1>5, <1>9, <1>10, <1>11, StepKeeps

LEMMA CheckpointLockKeeps ==
  ASSUME WInv, NEW c \in Conn, ck_lock(c)
  PROVE  WInv'
<1>1. pWal[c].pc = "ck_lock" /\ UNCHANGED <<shm, bounds>>
  BY DEF ck_lock, At
<1>2. /\ pWal[c].readLock = -1 /\ pWal[c].mode # "READ" /\ pWal[c].hdr # None
      /\ aHdr[0] # None /\ pWal[c].txn = 0 /\ pWal[c].page = None /\ Holds(c) /\ Control(c)
      /\ SharedTyped /\ pWal[c] \in WalObject
  BY <1>1, AtCheckpoint DEF CheckpointSteps
<1>3. CASE Unlocked(c, {READ_LOCK(0)})
  <2> DEFINE q == pWal[c].plan
  <2>1. LockExclusive(c, {READ_LOCK(0)}) /\ SyncWal /\ Goto(c, "ck_copy")
    BY <1>3 DEF ck_lock, SyncBeforeCopy
  <2>2. {READ_LOCK(0)} \in SUBSET (0 .. 3 + NSlot)
    BY Numbers DEF READ_LOCK
  <2>3. LocksOf(c) /\ shared'[c] = shared[c] /\ exclusive'[c] = exclusive[c] \cup {READ_LOCK(0)}
    BY <1>2, <1>3, <2>1, <2>2, TakesExclusive
  <2>4. FilesTyped' /\ wal' = wal /\ walHdr' = walHdr
    BY <1>1, <2>1, SyncWalTyped DEF WInv, bounds
  <2>5. pWal' = [pWal EXCEPT ![c] = [pWal[c] EXCEPT !.pc = "ck_copy", !.plan = q]]
    BY <1>2, <2>1 DEF Goto, WalObject
  <2> QED
    BY <1>1, <2>3, <2>4, <2>5, CopyingKeeps
<1>4. CASE ~Unlocked(c, {READ_LOCK(0)})
  <2> DEFINE w == [pWal[c] EXCEPT !.pc = "ck_end", !.mxSafe = 0, !.plan = {}]
  <2>1. pWal' = [pWal EXCEPT ![c] = w] /\ UNCHANGED <<files, locks>>
    BY <1>4 DEF ck_lock
  <2>2. /\ w \in WalObject /\ w.pc = "ck_end" /\ w.hdr = pWal[c].hdr /\ w.readLock = -1
        /\ w.txn = 0 /\ w.page = None /\ w.mode = pWal[c].mode
    <3>1. "ck_end" \in Labels /\ 0 \in 0 .. MaxFrame
      BY Numbers DEF Labels
    <3>2. pWal[c] \in WalObject
      BY <1>2
    <3>3. /\ w \in WalObject /\ w.pc = "ck_end" /\ w.hdr = pWal[c].hdr
          /\ w.readLock = pWal[c].readLock /\ w.txn = pWal[c].txn /\ w.page = pWal[c].page
          /\ w.mode = pWal[c].mode
      BY <3>1, <3>2 DEF WalObject
    <3> QED
      BY <1>2, <3>3
  <2> HIDE DEF w
  <2>3. LocksOf(c) /\ shared'[c] = shared[c] /\ exclusive'[c] = exclusive[c]
    BY <1>2, <2>1, SameLocks
  <2>4. Private(c) /\ pWal'[c] = w
    BY <1>1, <1>2, <2>1, <2>2, <2>3, PrivateStep
  <2>5. aHdr' = aHdr /\ nTxn' = nTxn
    BY <1>1 DEF shm, bounds
  <2>6. Holds(c)'
    BY <1>2, <2>2, <2>3, <2>4 DEF Holds, Recovering, RestartSteps
  <2>7. Control(c)'
    BY <1>1, <1>2, <2>2, <2>4, <2>5
       DEF Control, Recovering, RestartSteps, CheckpointSteps, FrameSteps, WithoutHdr, HdrBounded
  <2> QED
    BY <1>1, <2>1, <2>2, <2>4, <2>6, <2>7, RestingOK, PrivateKeeps DEF Rests
<1> QED
  BY <1>3, <1>4

LEMMA CheckpointCopyKeeps ==
  ASSUME WInv, NEW c \in Conn, NEW k \in pWal[c].plan, ck_copy(c, k)
  PROVE  WInv'
<1> DEFINE q == pWal[c].plan \ {k}
<1>1. /\ pWal[c].pc = "ck_copy"
      /\ db' = [db EXCEPT ![aPgno[k]] = wal[k].by]
      /\ dbOlder' = [dbOlder EXCEPT ![aPgno[k]] = Unsynced(@, db[aPgno[k]])]
      /\ pWal' = [pWal EXCEPT ![c].plan = q]
      /\ UNCHANGED <<wal, walOlder, walHdr, walHdrOlder, walTruncated, shm, locks, bounds>>
  BY DEF ck_copy, At
<1>2. /\ aHdr[0] # None /\ aHdr[0].mxFrame \in 0 .. MaxFrame /\ pWal[c].hdr.mxFrame \in 0 .. MaxFrame
      /\ pWal[c].mxSafe \in 0 .. MaxFrame
      /\ Holds(c) /\ CheckpointOK(c) /\ SharedTyped /\ pWal[c] \in WalObject
  BY <1>1, AtCheckpoint, ObjectTypes DEF CheckpointSteps
<1>3. k \in 1 .. aHdr[0].mxFrame /\ k \in Frames
  <2>1. pWal[c].mxSafe <= pWal[c].hdr.mxFrame /\ pWal[c].hdr.mxFrame <= aHdr[0].mxFrame
        /\ k \in 1 .. pWal[c].mxSafe
    BY <1>1, <1>2 DEF CheckpointOK, Copies
  <2> QED
    BY <1>2, <2>1, Numbers DEF Frames
<1>4. wal[k].by \in 0 .. MaxTxn + 1
  <2>1. wal[k] # None
    BY <1>2, <1>3 DEF WInv, LogOK, CommitChain, Chain, ValidFrame
  <2>2. wal[k] \in Frame
    BY <1>3, <2>1 DEF WInv, FilesTyped, LogTyped
  <2> QED
    BY <2>2, Numbers DEF Frame, Txn
<1>5. nTxn' = nTxn /\ walOlder' = walOlder /\ wal' = wal /\ walHdr' = walHdr
      /\ walHdrOlder' = walHdrOlder /\ walTruncated' = walTruncated
  BY <1>1 DEF bounds
<1>6. FilesTyped'
  <2>1. \A f : LogTyped(f) => LogTyped(f)'
    BY <1>5 DEF LogTyped, MayHold
  <2>2. db' \in Image
    BY <1>1, <1>4 DEF WInv, FilesTyped, Image
  <2>3. dbOlder' \in [Page -> SUBSET (0 .. MaxTxn + 1)]
    <3>1. db \in [Page -> 0 .. MaxTxn + 1] /\ dbOlder \in [Page -> SUBSET (0 .. MaxTxn + 1)]
      BY DEF WInv, FilesTyped, Image
    <3>2. \A p \in Page : Unsynced(dbOlder[p], db[p]) \subseteq 0 .. MaxTxn + 1
      BY <3>1 DEF Unsynced
    <3> QED
      BY <1>1, <3>1, <3>2
  <2> QED
    BY <1>5, <2>1, <2>2, <2>3 DEF WInv, FilesTyped, MayHold
<1>7. LocksOf(c) /\ shared'[c] = shared[c] /\ exclusive'[c] = exclusive[c]
  BY <1>1, <1>2, SameLocks
<1>8. exclusive'[c] = exclusive[c] \cup {READ_LOCK(0)}
  BY <1>1, <1>2, <1>7 DEF Holds
<1>9. pWal' = [pWal EXCEPT ![c] = [pWal[c] EXCEPT !.pc = "ck_copy", !.plan = q]]
  <2>1. [pWal[c] EXCEPT !.plan = q] = [pWal[c] EXCEPT !.pc = "ck_copy", !.plan = q]
    BY <1>1, <1>2 DEF WalObject
  <2> QED
    BY <1>1, <2>1
<1> QED
  BY <1>1, <1>5, <1>6, <1>7, <1>8, <1>9, CopyingKeeps


\* What is copied is in the snapshot of every reader.
LEMMA CopiedInSnapshots ==
  ASSUME WInv, NEW c \in Conn, pWal[c].pc = "ck_copy", NEW d \in Conn, pWal[d].readLock > 0
  PROVE  pWal[c].mxSafe <= Last(d)
BY DEF WInv, ReadersRespected, Passed

LEMMA CheckpointDoneKeeps ==
  ASSUME WInv, NEW c \in Conn, ck_done(c)
  PROVE  WInv'
<1> DEFINE w == [pWal[c] EXCEPT !.pc = "ck_end", !.mxSafe = 0]
<1>1. /\ pWal[c].pc = "ck_copy"
      /\ dbOlder' = (IF pWal[c].mxSafe = aHdr[0].mxFrame THEN [p \in Page |-> {}] ELSE dbOlder)
      /\ nBackfill' = pWal[c].mxSafe /\ UnlockExclusive(c, {READ_LOCK(0)})
      /\ pWal' = [pWal EXCEPT ![c] = w]
      /\ UNCHANGED <<db, wal, walOlder, walHdr, walHdrOlder, walTruncated, aHdr, aReadMark,
                     aPgno, bounds>>
  BY DEF ck_done, SyncedWhenComplete, At
<1>2. /\ pWal[c].readLock = -1 /\ pWal[c].mode # "READ" /\ pWal[c].hdr # None
      /\ aHdr[0] # None /\ pWal[c].hdr.mxFrame \in 0 .. MaxFrame /\ aHdr[0].mxFrame \in 0 .. MaxFrame
      /\ pWal[c].txn = 0 /\ pWal[c].page = None /\ Holds(c) /\ Control(c) /\ CheckpointOK(c)
      /\ SharedTyped /\ pWal[c] \in WalObject /\ pWal[c].mxSafe \in 0 .. MaxFrame
  <2>1. pWal[c].pc \in CheckpointSteps \ {"ck_return"}
    BY <1>1 DEF CheckpointSteps
  <2>2. SharedTyped
    BY DEF WInv
  <2> QED
    BY <2>1, <2>2, AtCheckpoint, ObjectTypes
<1>3. /\ w \in WalObject /\ w.pc = "ck_end" /\ w.hdr = pWal[c].hdr /\ w.readLock = -1
      /\ w.txn = 0 /\ w.page = None /\ w.mode = pWal[c].mode
  <2>1. "ck_end" \in Labels /\ 0 \in 0 .. MaxFrame
    BY Numbers DEF Labels
  <2>2. pWal[c] \in WalObject
    BY <1>2
  <2>3. /\ w \in WalObject /\ w.pc = "ck_end" /\ w.hdr = pWal[c].hdr
        /\ w.readLock = pWal[c].readLock /\ w.txn = pWal[c].txn /\ w.page = pWal[c].page
        /\ w.mode = pWal[c].mode
    BY <2>1, <2>2 DEF WalObject
  <2> QED
    BY <1>2, <2>3
<1> HIDE DEF w
<1>4. LocksOf(c) /\ shared'[c] = shared[c] /\ exclusive'[c] = exclusive[c] \ {READ_LOCK(0)}
  BY <1>1, <1>2, FreesExclusive
<1>5. Private(c) /\ pWal'[c] = w
  BY <1>1, <1>2, <1>3, <1>4, PrivateStep
<1>6. nTxn' = nTxn /\ aHdr' = aHdr
  BY <1>1 DEF bounds
<1>7. FilesTyped'
  <2>1. \A f : LogTyped(f) => LogTyped(f)'
    BY <1>6 DEF LogTyped, MayHold
  <2> QED
    BY <1>1, <1>6, <2>1 DEF WInv, FilesTyped, MayHold
<1>8. Effect(c)
  <2>1. \A d \in Conn \ {c} : pWal[d].readLock > 0 => nBackfill' <= Last(d)
    BY <1>1, CopiedInSnapshots
  <2>2. {CKPT, READ_LOCK(0)} \subseteq exclusive[c]
    BY <1>1, <1>2 DEF Holds
  <2>3. \A d \in Conn \ {c} :
           pWal'[d] = pWal[d] /\ shared'[d] = shared[d] /\ exclusive'[d] = exclusive[d]
    BY <1>2, <1>5, StepOthers DEF Private
  <2> QED
    BY <1>1, <1>6, <2>1, <2>2, <2>3 DEF Effect
<1>9. SharedTyped' /\ Exclusion'
  BY <1>1, <1>2, <1>5, SharedKept, BoundKept, ExclusionKept DEF Private, WInv, SharedTyped
<1>10. LogOK'
  BY <1>1, <1>2 DEF WInv, LogOK, CommitChain, Chain, ValidFrame
<1>11. NBackfillInLog'
  <2>1. pWal[c].mxSafe <= aHdr[0].mxFrame
    BY <1>1, <1>2 DEF CheckpointOK, Copies
  <2> QED
    BY <1>1, <1>6, <2>1 DEF NBackfillInLog
<1>12. Holds(c)'
  <2>1. READ_LOCK(0) \notin {WRITE, CKPT}
    BY LockNumbers
  <2> QED
    BY <1>2, <1>3, <1>4, <1>5, <2>1 DEF Holds, Recovering, RestartSteps
<1>13. Control(c)'
  BY <1>1, <1>2, <1>3, <1>5, <1>6
     DEF Control, Recovering, RestartSteps, CheckpointSteps, FrameSteps, WithoutHdr, HdrBounded
<1>14. ConnOK(c)' /\ Quiet(c)
  BY <1>3, <1>5, <1>12, <1>13, RestingOK DEF Rests
<1>15. RestartAlone' /\ ReadersRespected'
  BY <1>8, <1>9, <1>13, <1>14, QuietPairs
<1> QED
  BY <1>7, <1>8, <1>9, <1>10, <1>11, <1>14, <1>15, StepKeeps

LEMMA ClosedType ==
  /\ Closed \in WalObject /\ Closed.readLock = -1 /\ Closed.txn = 0 /\ Closed.page = None
  /\ Closed.mode = "READ" /\ Closed.pc = "closed" /\ Closed.hdr = None
<1>1. "closed" \in Labels /\ 0 \in 0 .. MaxFrame /\ 0 \in 0 .. MaxFrame + 1 /\ 0 \in 0 .. NSlot
      /\ -1 \in -1 .. NSlot /\ 0 \in Txn
  BY Numbers DEF Labels, Txn
<1> QED
  BY <1>1 DEF Closed, WalObject

LEMMA CheckpointReturnKeeps ==
  ASSUME WInv, NEW c \in Conn, ck_return(c)
  PROVE  WInv'
<1> DEFINE h == HdrAfterCheckpoint(pWal[c])
           cached == IF h = None THEN None ELSE pWal[c].cache
           w == [Closed EXCEPT !.pc = "idle", !.hdr = h, !.nCkpt = pWal[c].nCkpt, !.cache = cached]
<1>1. /\ pWal[c].pc \in {"ck_return", "ck_end"} /\ UnlockExclusive(c, {CKPT, WRITE})
      /\ pWal' = [pWal EXCEPT ![c] = w] /\ UNCHANGED <<files, shm, bounds>>
  BY DEF ck_return, At
<1>2. Control(c) /\ SharedTyped /\ pWal[c] \in WalObject
  BY ObjectTypes DEF WInv, ConnOK
<1>3. h \in {None, pWal[c].hdr}
  BY DEF HdrAfterCheckpoint
<1> HIDE DEF h
<1>4. /\ w \in WalObject /\ w.pc = "idle" /\ w.hdr = h /\ w.readLock = -1
      /\ w.txn = 0 /\ w.page = None /\ w.mode = "READ"
  <2>1. "idle" \in Labels /\ 0 \in 0 .. MaxFrame /\ 0 \in 0 .. MaxFrame + 1 /\ 0 \in 0 .. NSlot
        /\ -1 \in -1 .. NSlot /\ 0 \in Txn
    BY Numbers DEF Labels, Txn
  <2>2. cached \in Image \cup {None} /\ h \in Header \cup {None} /\ pWal[c].nCkpt \in BOOLEAN
    BY <1>2, <1>3 DEF WalObject
  <2> HIDE DEF cached
  <2>3. /\ Closed \in WalObject /\ Closed.readLock = -1 /\ Closed.txn = 0 /\ Closed.page = None
        /\ Closed.mode = "READ"
    BY ClosedType
  <2> DEFINE u == [Closed EXCEPT !.pc = "idle", !.hdr = h]
  <2>4. /\ u \in WalObject /\ u.pc = "idle" /\ u.hdr = h /\ u.readLock = Closed.readLock
        /\ u.txn = Closed.txn /\ u.page = Closed.page /\ u.mode = Closed.mode
    <3>1. Closed \in WalObject /\ "idle" \in Labels /\ h \in Header \cup {None}
      BY <2>1, <2>2, <2>3
    <3> QED
      BY <3>1 DEF WalObject
  <2>5. w = [u EXCEPT !.nCkpt = pWal[c].nCkpt, !.cache = cached]
    OBVIOUS
  <2> HIDE DEF u, w
  <2>6. /\ w \in WalObject /\ w.pc = u.pc /\ w.hdr = u.hdr /\ w.readLock = u.readLock
        /\ w.txn = u.txn /\ w.page = u.page /\ w.mode = u.mode
    BY <2>2, <2>4, <2>5 DEF WalObject
  <2> QED
    BY <2>3, <2>4, <2>6
<1> HIDE DEF w
<1>5. LocksOf(c) /\ exclusive'[c] = exclusive[c] \ {CKPT, WRITE}
  BY <1>1, <1>2, FreesExclusive
<1>6. Private(c) /\ pWal'[c] = w
  BY <1>1, <1>2, <1>4, <1>5, PrivateStep
<1>7. aHdr' = aHdr /\ nTxn' = nTxn
  BY <1>1 DEF shm, bounds
<1>8. Holds(c)'
  BY <1>4, <1>6 DEF Holds, Recovering, RestartSteps
<1>9. Control(c)'
  BY <1>1, <1>2, <1>3, <1>4, <1>6, <1>7
     DEF Control, Recovering, RestartSteps, CheckpointSteps, FrameSteps, WithoutHdr, HdrBounded
<1> QED
  BY <1>1, <1>4, <1>6, <1>8, <1>9, RestingOK, PrivateKeeps DEF Rests


-----------------------------------------------------------------------------
(* The log begins anew *)

\* A step of the holder of the WRITE lock in the files, the index, and the copy
\* of the header that is written first.
LEMMA IndexEffect ==
  ASSUME WInv, NEW c \in Conn, Private(c), FilesTyped', LogOK',
         aHdr' \in [0 .. 1 -> Header \cup {None}], aHdr'[0] = aHdr[0],
         aHdr'[1] = aHdr[1] \/ WRITE \in exclusive'[c],
         UNCHANGED <<wal, walHdr>> \/ WRITE \in exclusive[c],
         aPgno' \in [Frames -> Page \cup {None}], UNCHANGED <<nBackfill, aReadMark>>
  PROVE  Effect(c) /\ SharedTyped' /\ Exclusion' /\ NBackfillInLog'
<1>1. Effect(c)
  BY StepOthers DEF Effect, Private, Counted, WInv
<1>2. SharedTyped' /\ Exclusion'
  BY SharedKept, BoundKept, ExclusionKept DEF Private, WInv, SharedTyped
<1>3. NBackfillInLog'
  BY NBackfillSame DEF WInv, Private
<1> QED
  BY <1>1, <1>2, <1>3

LEMMA RestartHdrKeeps ==
  ASSUME WInv, NEW c \in Conn, NEW salt \in Txn, RestartHdr(c, salt),
         pWal[c].pc \in {"restart", "ck_end"}, NoReaderOfWal(c), WRITE \in exclusive[c],
         Counted, nFault' = nFault, fullSync' = fullSync, UNCHANGED files,
         \/ pWal[c].mode = "TRUNCATE" /\ pWal[c].txn = 0
         \/ /\ pWal[c].mode = "READ" /\ nTxn' = nTxn /\ aHdr[0].mxFrame > 0
            /\ \A d \in Conn : pWal[d].pc # "ck_start" /\ ~Copies(d)
  PROVE  WInv'
<1> DEFINE h == [pWal[c].hdr EXCEPT !.mxFrame = 0, !.salt = salt]
           w == [pWal[c] EXCEPT !.pc = "restart_publish", !.hdr = h, !.nCkpt = TRUE]
<1>1. /\ pWal' = [pWal EXCEPT ![c] = w] /\ aHdr' = [aHdr EXCEPT ![1] = h]
      /\ LockExclusive(c, ReadLocks) /\ UNCHANGED <<nBackfill, aReadMark, aPgno>>
  BY DEF RestartHdr
<1>2. /\ SharedTyped /\ pWal[c] \in WalObject /\ Holds(c) /\ Control(c) /\ WriterOK(c)
      /\ pWal[c].readLock \in -1 .. NSlot
  BY ObjectTypes DEF WInv, ConnOK
<1>3. /\ pWal[c].hdr \in Header /\ aHdr[0] # None /\ aHdr[0] \in Header
      /\ pWal[c].mode = "READ" <=> pWal[c].txn # 0
      /\ pWal[c].mode = "READ" <=> pWal[c].readLock = 0
      /\ pWal[c].mode # "READ" <=> pWal[c].readLock = -1
      /\ pWal[c].page # None <=> pWal[c].txn # 0
  BY <1>2, Numbers, ObjectTypes
     DEF Control, WithoutHdr, SharedTyped, RestartSteps, FrameSteps, CheckpointSteps, Recovering, WInv
<1>4. /\ h \in Header /\ h.mxFrame = 0 /\ h.iChange = pWal[c].hdr.iChange
  <2>1. 0 \in 0 .. MaxFrame
    BY Numbers
  <2> QED
    BY <1>3, <2>1 DEF Header
<1> HIDE DEF h
<1>5. /\ w \in WalObject /\ w.pc = "restart_publish" /\ w.hdr = h /\ w.readLock = pWal[c].readLock
      /\ w.txn = pWal[c].txn /\ w.page = pWal[c].page /\ w.mode = pWal[c].mode
  <2>1. "restart_publish" \in Labels
    BY DEF Labels
  <2>2. pWal[c] \in WalObject /\ h \in Header
    BY <1>2, <1>4
  <2> QED
    BY <2>1, <2>2 DEF WalObject
<1> HIDE DEF w
<1>6. LocksOf(c) /\ shared'[c] = shared[c] /\ exclusive'[c] = exclusive[c] \cup ReadLocks
  <2>1. ReadLocks \in SUBSET (0 .. 3 + NSlot)
    BY Numbers DEF ReadLocks, READ_LOCK, Slots
  <2> QED
    BY <1>1, <1>2, <2>1, TakesExclusive DEF NoReaderOfWal
<1>7. Private(c) /\ pWal'[c] = w
  <2>1. pWal'[c] = w /\ pWal' = [pWal EXCEPT ![c] = pWal'[c]]
    BY <1>1, <1>2 DEF SharedTyped
  <2> QED
    BY <1>5, <1>6, <2>1 DEF Private, StepOf, OwnTypes, LocksOf
<1>8. /\ aHdr'[0] = aHdr[0] /\ aHdr'[1] = h /\ aHdr' \in [0 .. 1 -> Header \cup {None}]
      /\ wal' = wal /\ walHdr' = walHdr
      /\ nTxn \in Nat /\ nTxn' \in Nat /\ nTxn <= nTxn'
  BY <1>1, <1>2, <1>4, Numbers DEF SharedTyped, files, Counted, Txn
<1>9. FilesTyped' /\ LogOK'
  BY <1>1, <1>2, <1>8, FilesSame, LogSame DEF WInv, SharedTyped
<1>10. Effect(c) /\ SharedTyped' /\ Exclusion' /\ NBackfillInLog'
  BY <1>1, <1>2, <1>6, <1>7, <1>8, <1>9, IndexEffect DEF SharedTyped
<1>11. Holds(c)'
  BY <1>2, <1>3, <1>5, <1>6, <1>7 DEF Holds, Recovering, RestartSteps
<1>12. h.mxFrame <= nTxn' * Cardinality(Page) /\ h.iChange <= nTxn'
  <2>1. nTxn' * Cardinality(Page) \in Nat
    BY <1>8, BoundsGrow
  <2>2. pWal[c].hdr.iChange <= nTxn /\ pWal[c].hdr.iChange \in Nat
    BY <1>2, <1>3, NoneAssumption DEF Control, HdrBounded, Header, Txn
  <2> QED
    BY <1>4, <1>8, <2>1, <2>2
<1>13. Control(c)'
  <2>1. pWal[c].txn # 0 => pWal[c].txn = nTxn'
    BY <1>2, <1>3 DEF Control
  <2>2. h # None
    BY <1>4, NoneAssumption
  <2> QED
    BY <1>3, <1>5, <1>7, <1>8, <1>12, <2>1, <2>2
       DEF Control, Recovering, RestartSteps, CheckpointSteps, FrameSteps, WithoutHdr, HdrBounded
<1>14. WriterOK(c)'
  <2>1. pWal[c].txn # 0 => nTxn' = nTxn /\ pWal[c].pc = "restart"
    BY <1>2, <1>3 DEF Control, FrameSteps, RestartSteps
  <2> QED
    BY <1>2, <1>4, <1>5, <1>7, <1>8, <2>1 DEF WriterOK, RestartSteps
<1>15. RestartOK(c)'
  BY <1>3, <1>4, <1>5, <1>7, <1>8 DEF RestartOK
<1>16. ConnOK(c)'
  BY <1>3, <1>5, <1>7, <1>11, <1>13, <1>14, <1>15
     DEF ConnOK, RecoveryOK, CheckpointOK, Copies, ReaderOK
<1>17. \A d \in Conn \ {c} : pWal'[d] = pWal[d]
  BY <1>10 DEF Effect
<1>18. RestartAlone'
  BY <1>3, <1>5, <1>7, <1>17 DEF WInv, RestartAlone, At, Copies
<1>19. ReadersRespected'
  <2>1. \A i \in Slots : ~Passed(c, i)'
    BY <1>5, <1>7 DEF Passed
  <2>2. ~(pWal'[c].readLock > 0)
    BY <1>3, <1>5, <1>7
  <2> QED
    BY <1>10, <1>13, <2>1, <2>2, ReadersKept
<1> QED
  BY <1>9, <1>10, <1>16, <1>18, <1>19, StepKeeps

LEMMA RestartLogKeeps ==
  ASSUME WInv, ~StaleCheckpoints, NEW c \in Conn, walRestartLog(c)
  PROVE  WInv'
<1>1. /\ pWal[c].pc = "restart" /\ nBackfill > 0 /\ NoReaderOfWal(c)
      /\ \A d \in Conn : pWal[d].pc # "ck_start"
      /\ RestartHdr(c, pWal[c].txn) /\ UNCHANGED <<files, bounds>>
  BY DEF walRestartLog, At
<1>2. /\ pWal[c].readLock = 0 /\ pWal[c].mode = "READ" /\ pWal[c].txn # 0 /\ aHdr[0] # None
      /\ Holds(c) /\ WriterOK(c) /\ ReaderOK(c) /\ SharedTyped /\ pWal[c].txn \in Txn
      /\ aHdr[0].mxFrame \in 0 .. MaxFrame
  BY <1>1, AtReading, ObjectTypes
<1>3. nBackfill = aHdr[0].mxFrame /\ aHdr[0].mxFrame > 0
  BY <1>1, <1>2 DEF WriterOK, ReaderOK
<1>4. ASSUME NEW d \in Conn, Copies(d) PROVE FALSE
  <2>1. pWal[d].hdr.mxFrame \in 0 .. MaxFrame
    BY <1>4, AtCheckpoint DEF Copies, CheckpointSteps
  <2>2. nBackfill < pWal[d].hdr.mxFrame /\ pWal[d].hdr.mxFrame <= aHdr[0].mxFrame
    BY <1>4 DEF WInv, ConnOK, CheckpointOK
  <2> QED
    BY <1>2, <1>3, <2>1, <2>2
<1>5. WRITE \in exclusive[c] /\ Counted /\ nTxn' = nTxn /\ nFault' = nFault /\ fullSync' = fullSync
  BY <1>1, <1>2, SameBounds DEF Holds, bounds
<1> QED
  BY <1>1, <1>2, <1>3, <1>4, <1>5, RestartHdrKeeps

LEMMA CheckpointTruncateKeeps ==
  ASSUME WInv, NEW c \in Conn, ck_truncate(c)
  PROVE  WInv'
<1>1. /\ pWal[c].pc = "ck_end" /\ pWal[c].mode = "TRUNCATE" /\ NoReaderOfWal(c)
      /\ nTxn' = nTxn + 1 /\ RestartHdr(c, nTxn + 1) /\ UNCHANGED <<files, nFault, fullSync>>
  BY DEF ck_truncate, At, CanTruncate
<1>2. pWal[c].txn = 0 /\ Holds(c) /\ Control(c) /\ SharedTyped
  BY <1>1, AtCheckpoint DEF CheckpointSteps
<1>3. nTxn + 1 \in Txn /\ nTxn < MaxTxn
  BY <1>1, <1>2, Numbers DEF Control, RestartSteps, SharedTyped, Txn
<1>4. WRITE \in exclusive[c] /\ Counted
  BY <1>1, <1>2, <1>3 DEF Holds, Counted, SharedTyped
<1> QED
  BY <1>1, <1>2, <1>3, <1>4, RestartHdrKeeps

\* A step of the holder of the WRITE lock that publishes the header it has.
LEMMA PublishEffect ==
  ASSUME WInv, NEW c \in Conn, Private(c), nTxn' = nTxn, pWal[c].hdr # None,
         WRITE \in exclusive[c], CommitChain(pWal[c].hdr),
         \/ aHdr[0] = None
         \/ aHdr[0].mxFrame <= pWal[c].hdr.mxFrame
         \/ /\ ReadLocks \subseteq exclusive[c]
            /\ \A d \in Conn \ {c} : pWal[d].pc # "ck_start" /\ ~Copies(d),
         aHdr' = [aHdr EXCEPT ![0] = pWal[c].hdr],
         UNCHANGED <<files, nBackfill, aReadMark, aPgno>>
  PROVE  /\ Effect(c) /\ FilesTyped' /\ SharedTyped' /\ Exclusion' /\ LogOK'
         /\ aHdr'[0] = pWal[c].hdr
<1> DEFINE h == pWal[c].hdr
<1>1. h \in Header /\ HdrBounded(h) /\ SharedTyped
  BY ObjectTypes DEF WInv, ConnOK, Control
<1>2. /\ aHdr'[0] = h /\ aHdr'[1] = aHdr[1] /\ aHdr' \in [0 .. 1 -> Header \cup {None}]
      /\ wal' = wal /\ walHdr' = walHdr
  BY <1>1 DEF SharedTyped, files
<1> HIDE DEF h
<1>3. Effect(c)
  BY <1>2, StepOthers DEF Effect, Private, Counted, WInv, At, h
<1>4. FilesTyped'
  BY FilesSame DEF Private, WInv, SharedTyped
<1>5. HdrBounded(aHdr[0])'
  BY <1>1, <1>2 DEF HdrBounded
<1>6. SharedTyped' /\ Exclusion'
  BY <1>1, <1>2, <1>5, SharedKept, ExclusionKept DEF Private, WInv, SharedTyped
<1>7. LogOK'
  <2>1. CommitChain(h)
    BY DEF h
  <2>2. h # None
    BY DEF h
  <2> QED
    BY <1>2, <2>1, <2>2 DEF LogOK, CommitChain, Chain, ValidFrame
<1> QED
  BY <1>2, <1>3, <1>4, <1>6, <1>7 DEF h

\* A connection that starts the log anew.
LEMMA AtRestart ==
  ASSUME WInv, NEW c \in Conn, pWal[c].pc \in RestartSteps
  PROVE  /\ Holds(c) /\ Control(c) /\ WriterOK(c) /\ RestartOK(c)
         /\ SharedTyped /\ pWal[c] \in WalObject
         /\ pWal[c].hdr \in Header /\ pWal[c].hdr # None /\ pWal[c].hdr.mxFrame = 0
         /\ aHdr[0] # None /\ aHdr[0] \in Header
         /\ WRITE \in exclusive[c] /\ ReadLocks \subseteq exclusive[c]
         /\ pWal[c].mode = "READ" <=> pWal[c].txn # 0
         /\ pWal[c].mode = "READ" <=> pWal[c].readLock = 0
         /\ pWal[c].mode # "READ" <=> pWal[c].readLock = -1
         /\ (pWal[c].page # None <=> pWal[c].txn # 0)
         /\ pWal[c].mode \in {"READ", "TRUNCATE"}
<1>1. /\ Holds(c) /\ Control(c) /\ WriterOK(c) /\ RestartOK(c) /\ SharedTyped
      /\ pWal[c] \in WalObject /\ pWal[c].readLock \in -1 .. NSlot
  BY ObjectTypes DEF WInv, ConnOK
<1>2. /\ pWal[c].hdr # None /\ aHdr[0] # None /\ pWal[c].mode \in {"READ", "TRUNCATE"}
      /\ pWal[c].mode = "READ" <=> pWal[c].txn # 0
      /\ (pWal[c].page # None <=> pWal[c].txn # 0)
  BY <1>1 DEF Control, WithoutHdr, RestartSteps
<1>3. /\ pWal[c].mode = "READ" <=> pWal[c].readLock = 0
      /\ pWal[c].mode # "READ" <=> pWal[c].readLock = -1
  BY <1>1, <1>2, Numbers DEF Control, RestartSteps, FrameSteps
<1>4. pWal[c].hdr \in Header /\ aHdr[0] \in Header
  BY <1>1, <1>2, ObjectTypes DEF SharedTyped
<1>5. WRITE \in exclusive[c] /\ ReadLocks \subseteq exclusive[c] /\ pWal[c].hdr.mxFrame = 0
  BY <1>1, <1>2 DEF Holds, RestartOK
<1> QED
  BY <1>1, <1>2, <1>3, <1>4, <1>5

LEMMA RestartPublishKeeps ==
  ASSUME WInv, NEW c \in Conn, restart_publish(c)
  PROVE  WInv'
<1> DEFINE w == [pWal[c] EXCEPT !.pc = "restart_reset"]
<1>1. /\ pWal[c].pc = "restart_publish" /\ aHdr' = [aHdr EXCEPT ![0] = pWal[c].hdr]
      /\ pWal' = [pWal EXCEPT ![c] = w]
      /\ UNCHANGED <<files, nBackfill, aReadMark, aPgno, locks, bounds>>
  BY DEF restart_publish, At, Goto
<1>2. /\ Holds(c) /\ Control(c) /\ WriterOK(c) /\ RestartOK(c)
      /\ SharedTyped /\ pWal[c] \in WalObject
      /\ pWal[c].hdr \in Header /\ pWal[c].hdr # None /\ pWal[c].hdr.mxFrame = 0
      /\ aHdr[0] # None /\ aHdr[0] \in Header
      /\ WRITE \in exclusive[c] /\ ReadLocks \subseteq exclusive[c]
      /\ pWal[c].mode = "READ" <=> pWal[c].txn # 0
      /\ pWal[c].mode = "READ" <=> pWal[c].readLock = 0
      /\ pWal[c].mode # "READ" <=> pWal[c].readLock = -1
      /\ (pWal[c].page # None <=> pWal[c].txn # 0)
      /\ pWal[c].mode \in {"READ", "TRUNCATE"}
  BY <1>1, AtRestart DEF RestartSteps
<1>3. /\ w \in WalObject /\ w.pc = "restart_reset" /\ w.hdr = pWal[c].hdr /\ w.readLock = pWal[c].readLock
      /\ w.txn = pWal[c].txn /\ w.page = pWal[c].page /\ w.mode = pWal[c].mode
  <2>1. "restart_reset" \in Labels
    BY DEF Labels
  <2> QED
    BY <1>2, <2>1 DEF WalObject
<1> HIDE DEF w
<1>4. LocksOf(c) /\ shared'[c] = shared[c] /\ exclusive'[c] = exclusive[c]
  BY <1>1, <1>2, SameLocks
<1>5. Private(c) /\ pWal'[c] = w /\ nTxn' = nTxn
  BY <1>1, <1>2, <1>3, <1>4, PrivateStep, SameBounds
<1>6. CommitChain(pWal[c].hdr)
  BY <1>2 DEF CommitChain, Chain
<1>7. ASSUME NEW d \in Conn \ {c}, pWal[d].pc = "ck_start" \/ Copies(d) PROVE FALSE
  <2>1. CASE pWal[c].mode = "READ"
    BY <1>1, <1>7, <2>1 DEF WInv, RestartAlone, At
  <2>2. CASE pWal[c].mode = "TRUNCATE"
    <3>1. pWal[d].mode # "READ" /\ CKPT \in exclusive[d]
      BY <1>7 DEF WInv, ConnOK, Control, Holds, Copies, CheckpointSteps
    <3>2. CKPT \in exclusive[c]
      BY <1>2, <2>2 DEF Holds
    <3> QED
      BY <1>7, <3>1, <3>2 DEF WInv, Exclusion
  <2> QED
    BY <1>2, <2>1, <2>2
<1>8. /\ Effect(c) /\ FilesTyped' /\ SharedTyped' /\ Exclusion' /\ LogOK'
      /\ aHdr'[0] = pWal[c].hdr
  BY <1>1, <1>2, <1>5, <1>6, <1>7, PublishEffect
<1>9. NBackfillInLog'
  BY <1>3, <1>5 DEF NBackfillInLog, Restarting, At
<1>10. Holds(c)'
  BY <1>1, <1>2, <1>3, <1>4, <1>5 DEF Holds, Recovering, RestartSteps
<1>11. Control(c)'
  BY <1>1, <1>2, <1>3, <1>5, <1>8
     DEF Control, Recovering, RestartSteps, CheckpointSteps, FrameSteps, WithoutHdr, HdrBounded
<1>12. WriterOK(c)'
  <2> SUFFICES ASSUME pWal[c].txn # 0 PROVE WriterOK(c)'
    BY <1>3, <1>5 DEF WriterOK
  <2>1. pWal[c].hdr.iChange = aHdr[0].iChange /\ aHdr[0].iChange <= nTxn - 1
        /\ aHdr[0].mxFrame <= (nTxn - 1) * Cardinality(Page)
    BY <1>1, <1>2 DEF WriterOK
  <2>2. 0 <= (nTxn - 1) * Cardinality(Page)
    <3>1. aHdr[0].iChange \in Nat /\ nTxn \in Nat
      BY <1>2 DEF Header, Txn, SharedTyped
    <3>2. nTxn - 1 \in Nat
      BY <2>1, <3>1
    <3> QED
      BY <3>2, BoundsGrow
  <2> QED
    BY <1>2, <1>3, <1>5, <1>8, <2>1, <2>2 DEF WriterOK, RestartSteps
<1>13. RestartOK(c)'
  BY <1>2, <1>3, <1>5, <1>8 DEF RestartOK
<1>14. ConnOK(c)'
  BY <1>2, <1>3, <1>5, <1>10, <1>11, <1>12, <1>13
     DEF ConnOK, RecoveryOK, CheckpointOK, Copies, ReaderOK
<1>15. Quiet(c)
  BY <1>2, <1>3, <1>5 DEF Quiet
<1>16. RestartAlone' /\ ReadersRespected'
  BY <1>8, <1>11, <1>15, QuietPairs
<1> QED
  BY <1>8, <1>9, <1>14, <1>16, StepKeeps

LEMMA RestartResetKeeps ==
  ASSUME WInv, NEW c \in Conn, restart_reset(c)
  PROVE  WInv'
<1> DEFINE w == [pWal[c] EXCEPT !.pc = "restart_marks"]
<1>1. /\ pWal[c].pc = "restart_reset" /\ nBackfill' = 0 /\ pWal' = [pWal EXCEPT ![c] = w]
      /\ UNCHANGED <<files, aHdr, aReadMark, aPgno, locks, bounds>>
  BY DEF restart_reset, At, Goto
<1>2. /\ Holds(c) /\ Control(c) /\ WriterOK(c) /\ RestartOK(c)
      /\ SharedTyped /\ pWal[c] \in WalObject
      /\ pWal[c].hdr \in Header /\ pWal[c].hdr # None /\ pWal[c].hdr.mxFrame = 0
      /\ aHdr[0] # None /\ aHdr[0] \in Header
      /\ pWal[c].mode = "READ" <=> pWal[c].readLock = 0
      /\ pWal[c].mode # "READ" <=> pWal[c].readLock = -1
  BY <1>1, AtRestart DEF RestartSteps
<1>3. /\ w \in WalObject /\ w.pc = "restart_marks" /\ w.hdr = pWal[c].hdr /\ w.readLock = pWal[c].readLock
      /\ w.txn = pWal[c].txn /\ w.page = pWal[c].page /\ w.mode = pWal[c].mode
  <2>1. "restart_marks" \in Labels
    BY DEF Labels
  <2> QED
    BY <1>2, <2>1 DEF WalObject
<1> HIDE DEF w
<1>4. LocksOf(c) /\ shared'[c] = shared[c] /\ exclusive'[c] = exclusive[c]
  BY <1>1, <1>2, SameLocks
<1>5. /\ pWal'[c] = w /\ StepOf(c) /\ OwnTypes(c) /\ Granted(c) /\ Counted /\ nTxn' = nTxn
      /\ wal' = wal /\ walHdr' = walHdr
  BY <1>1, <1>2, <1>3, <1>4, SameBounds DEF SharedTyped, StepOf, OwnTypes, LocksOf, files
<1>6. Effect(c)
  BY <1>1, <1>2, <1>5, StepOthers DEF Effect
<1>7. FilesTyped' /\ SharedTyped' /\ Exclusion'
  <2>1. 0 \in 0 .. MaxFrame
    BY Numbers
  <2> QED
    BY <1>1, <1>2, <1>5, <2>1, FilesSame, SharedKept, BoundKept, ExclusionKept DEF WInv, SharedTyped
<1>8. LogOK' /\ NBackfillInLog'
  <2>1. LogOK'
    BY <1>1, <1>5 DEF WInv, LogOK, CommitChain, Chain, ValidFrame
  <2>2. 0 <= aHdr[0].mxFrame
    BY <1>2 DEF Header
  <2> QED
    BY <1>1, <2>1, <2>2 DEF NBackfillInLog
<1>9. Holds(c)'
  BY <1>1, <1>2, <1>3, <1>4, <1>5 DEF Holds, Recovering, RestartSteps
<1>10. Control(c)'
  BY <1>1, <1>2, <1>3, <1>5
     DEF Control, Recovering, RestartSteps, CheckpointSteps, FrameSteps, WithoutHdr, HdrBounded
<1>11. WriterOK(c)'
  BY <1>1, <1>2, <1>3, <1>5 DEF WriterOK, RestartSteps
<1>12. RestartOK(c)'
  BY <1>1, <1>2, <1>3, <1>5 DEF RestartOK
<1>13. ConnOK(c)'
  BY <1>2, <1>3, <1>5, <1>9, <1>10, <1>11, <1>12
     DEF ConnOK, RecoveryOK, CheckpointOK, Copies, ReaderOK
<1>14. Quiet(c)
  BY <1>2, <1>3, <1>5 DEF Quiet
<1>15. RestartAlone' /\ ReadersRespected'
  BY <1>6, <1>7, <1>10, <1>14, QuietPairs
<1> QED
  BY <1>6, <1>7, <1>8, <1>13, <1>15, StepKeeps


\* The marks that begin the new log, and the locks on them that are given up.
LEMMA NewMarks ==
  ASSUME WInv, NEW c \in Conn, RestartMarks(c)
  PROVE  /\ aReadMark' \in [Slots -> 0 .. READMARK_NOT_USED]
         /\ \A i \in Slots : aReadMark'[i] = aReadMark[i] \/ Unlocked(c, {READ_LOCK(i)})
         /\ exclusive'[c] = exclusive[c] \ ReadLocks
         /\ exclusive' = [exclusive EXCEPT ![c] = exclusive'[c]]
         /\ exclusive'[c] \subseteq 0 .. 3 + NSlot /\ exclusive'[c] \ exclusive[c] = {}
<1>1. /\ pWal[c].pc = "restart_marks"
      /\ aReadMark' = [i \in Slots |-> IF i = 1 THEN 0 ELSE READMARK_NOT_USED]
      /\ exclusive' = [exclusive EXCEPT ![c] = exclusive[c] \ ReadLocks]
  BY DEF RestartMarks, At
<1>2. ReadLocks \subseteq exclusive[c] /\ SharedTyped
  BY <1>1, AtRestart DEF RestartSteps
<1>3. \A i \in Slots : Unlocked(c, {READ_LOCK(i)})
  <2>1. \A i \in Slots : READ_LOCK(i) \in exclusive[c]
    BY <1>2, LockNumbers
  <2> QED
    BY <2>1 DEF WInv, Exclusion, Unlocked
<1>4. aReadMark' \in [Slots -> 0 .. READMARK_NOT_USED]
  BY <1>1, Numbers DEF READMARK_NOT_USED
<1>5. /\ exclusive'[c] = exclusive[c] \ ReadLocks
      /\ exclusive' = [exclusive EXCEPT ![c] = exclusive'[c]]
      /\ exclusive'[c] \subseteq 0 .. 3 + NSlot /\ exclusive'[c] \ exclusive[c] = {}
  BY <1>1, <1>2 DEF SharedTyped
<1> QED
  BY <1>3, <1>4, <1>5

LEMMA RestartMarksKeeps ==
  ASSUME WInv, NEW c \in Conn, restart_marks(c)
  PROVE  WInv'
<1> DEFINE w == [pWal[c] EXCEPT !.pc = "rebegin", !.readLock = -1]
<1>1. /\ pWal[c].pc = "restart_marks" /\ pWal[c].mode = "READ" /\ RestartMarks(c)
      /\ shared' = [shared EXCEPT ![c] = @ \ {READ_LOCK(0)}]
      /\ pWal' = [pWal EXCEPT ![c] = w]
      /\ UNCHANGED <<files, aHdr, nBackfill, aPgno, bounds>>
  BY DEF restart_marks, RestartMarks, At
<1>2. /\ Holds(c) /\ Control(c) /\ WriterOK(c) /\ RestartOK(c)
      /\ SharedTyped /\ pWal[c] \in WalObject
      /\ pWal[c].hdr \in Header /\ pWal[c].hdr # None /\ pWal[c].hdr.mxFrame = 0
      /\ aHdr[0] # None /\ WRITE \in exclusive[c]
      /\ pWal[c].txn # 0 /\ pWal[c].page # None /\ pWal[c].hdr = aHdr[0]
  BY <1>1, AtRestart DEF RestartSteps, RestartOK
<1>3. /\ w \in WalObject /\ w.pc = "rebegin" /\ w.hdr = pWal[c].hdr /\ w.readLock = -1
      /\ w.txn = pWal[c].txn /\ w.page = pWal[c].page /\ w.mode = "READ"
  <2>1. "rebegin" \in Labels /\ -1 \in -1 .. NSlot
    BY Numbers DEF Labels
  <2>2. pWal[c] \in WalObject
    BY <1>2
  <2>3. /\ w \in WalObject /\ w.pc = "rebegin" /\ w.hdr = pWal[c].hdr /\ w.readLock = -1
        /\ w.txn = pWal[c].txn /\ w.page = pWal[c].page /\ w.mode = pWal[c].mode
    BY <2>1, <2>2 DEF WalObject
  <2> QED
    BY <1>1, <1>2, <2>3
<1> HIDE DEF w
<1>4. /\ aReadMark' \in [Slots -> 0 .. READMARK_NOT_USED]
      /\ \A i \in Slots : aReadMark'[i] = aReadMark[i] \/ Unlocked(c, {READ_LOCK(i)})
      /\ exclusive'[c] = exclusive[c] \ ReadLocks
      /\ exclusive' = [exclusive EXCEPT ![c] = exclusive'[c]]
      /\ exclusive'[c] \subseteq 0 .. 3 + NSlot /\ exclusive'[c] \ exclusive[c] = {}
  BY <1>1, NewMarks
<1>5. LocksOf(c)
  <2>1. /\ shared' = [shared EXCEPT ![c] = shared'[c]] /\ shared'[c] \subseteq shared[c]
        /\ shared'[c] \subseteq {READ_LOCK(i) : i \in 0 .. NSlot}
    BY <1>1, <1>2 DEF SharedTyped
  <2> QED
    BY <1>4, <2>1 DEF LocksOf, Granted, Unlocked
<1>6. Private(c) /\ pWal'[c] = w
  BY <1>1, <1>2, <1>3, <1>5, PrivateStep
<1>7. aHdr' = aHdr /\ nTxn' = nTxn /\ wal' = wal /\ walHdr' = walHdr /\ FilesTyped'
  BY <1>1, <1>6, FilesSame DEF files, bounds, WInv, SharedTyped, Private
<1>8. Effect(c) /\ SharedTyped' /\ Exclusion' /\ LogOK' /\ NBackfillInLog'
  BY <1>1, <1>4, <1>6, <1>7, MarksEffect
<1>9. Holds(c)'
  <2>1. WRITE \notin ReadLocks
    BY LockNumbers
  <2> QED
    BY <1>2, <1>3, <1>4, <1>6, <2>1 DEF Holds, Recovering, RestartSteps
<1>10. Control(c)'
  BY <1>1, <1>2, <1>3, <1>6, <1>7
     DEF Control, Recovering, RestartSteps, CheckpointSteps, FrameSteps, WithoutHdr, HdrBounded
<1>11. WriterOK(c)'
  <2>1. Spilled(c)' = {}
    <3>1. aHdr[0].mxFrame + 1 .. aHdr[0].mxFrame = {}
      BY <1>2
    <3> QED
      BY <1>2, <1>3, <1>6, <1>7, <3>1 DEF Spilled
  <2>2. Chain(pWal[c].hdr)'
    <3>1. pWal'[c].hdr.mxFrame = 0
      BY <1>2, <1>3, <1>6
    <3> QED
      BY <1>2, <1>3, <1>6, <3>1 DEF Chain
  <2>3. Cardinality({}) = 0
    BY FS_EmptySet
  <2> QED
    BY <1>1, <1>2, <1>3, <1>6, <1>7, <2>1, <2>2, <2>3 DEF WriterOK, RestartSteps
<1>12. ConnOK(c)' /\ Quiet(c)
  BY <1>3, <1>6, <1>9, <1>10, <1>11
     DEF ConnOK, RecoveryOK, RestartOK, CheckpointOK, Copies, ReaderOK, RestartSteps, Quiet
<1>13. RestartAlone' /\ ReadersRespected'
  BY <1>8, <1>10, <1>12, QuietPairs
<1> QED
  BY <1>7, <1>8, <1>12, <1>13, StepKeeps

-----------------------------------------------------------------------------
(* What remains of the files after a power failure *)

LEMMA RemainsIn ==
  ASSUME NEW D, NEW S, NEW now \in [D -> S], NEW older, NEW torn \in S,
         \A i \in D : older[i] \subseteq S, NEW f \in FileRemains(now, older, torn)
  PROVE  /\ f \in [D -> S]
         /\ \A i \in D : f[i] \in {now[i], torn} \cup older[i]
<1> DEFINE unsynced == {i \in DOMAIN now : older[i] # {}}
           left == [i \in unsynced |-> Remains(now[i], older[i], torn)]
<1>1. PICK g : /\ \A i \in unsynced : g[i] \in left[i]
               /\ f = [i \in DOMAIN now |-> IF i \in unsynced THEN g[i] ELSE now[i]]
  BY DEF FileRemains
<1>2. DOMAIN now = D
  OBVIOUS
<1>3. ASSUME NEW i \in D PROVE f[i] \in {now[i], torn} \cup older[i] /\ f[i] \in S
  <2>1. CASE i \in unsynced
    <3>1. f[i] \in Remains(now[i], older[i], torn)
      BY <1>1, <1>2, <2>1
    <3> QED
      BY <3>1 DEF Remains
  <2>2. CASE i \notin unsynced
    BY <1>1, <1>2, <2>2
  <2> QED
    BY <2>1, <2>2
<1> QED
  BY <1>1, <1>2, <1>3

LEMMA LogRemainsTyped ==
  ASSUME FilesTyped
  PROVE  \A log \in LogRemains : LogTyped(log.wal) /\ log.hdr \in WalHdr \cup {None}
<1>1. ASSUME NEW f \in FileRemains(wal, walOlder, None) PROVE LogTyped(f)
  <2> DEFINE S == Frame \cup {None}
  <2>1. wal \in [Frames -> S] /\ (\A k \in Frames : walOlder[k] \subseteq S) /\ None \in S
    BY DEF FilesTyped, LogTyped
  <2> HIDE DEF S
  <2>2. /\ f \in [Frames -> S]
        /\ \A k \in Frames : f[k] \in {wal[k], None} \cup walOlder[k]
    BY <1>1, <2>1, RemainsIn
  <2>3. \A k \in Frames : {wal[k], None} \cup walOlder[k] \subseteq MayHold(k)
    BY DEF FilesTyped, LogTyped, MayHold
  <2> QED
    BY <2>2, <2>3 DEF LogTyped, S
<1>2. ASSUME NEW h \in Remains(walHdr, walHdrOlder, None) PROVE h \in WalHdr \cup {None}
  BY DEF FilesTyped, Remains
<1>3. ASSUME NEW log \in LogRemains PROVE LogTyped(log.wal) /\ log.hdr \in WalHdr \cup {None}
  <2>1. CASE log \in walTruncated
    BY <2>1 DEF FilesTyped
  <2>2. CASE log \notin walTruncated
    <3>1. PICK f \in FileRemains(wal, walOlder, None), h \in Remains(walHdr, walHdrOlder, None) :
            log = [wal |-> f, hdr |-> h]
      BY <2>2 DEF LogRemains
    <3> QED
      BY <1>1, <1>2, <3>1
  <2> QED
    BY <2>1, <2>2
<1> QED
  BY <1>3


LEMMA TruncateKeeps ==
  ASSUME WInv, NEW c \in Conn, truncate_wal(c)
  PROVE  WInv'
<1> DEFINE w == [pWal[c] EXCEPT !.pc = "ck_return"]
<1>1. /\ pWal[c].pc = "restart_marks" /\ pWal[c].mode # "READ" /\ RestartMarks(c)
      /\ wal' = [k \in Frames |-> None] /\ walOlder' = [k \in Frames |-> {}]
      /\ walHdr' = None /\ walHdrOlder' = {}
      /\ walTruncated' = (IF PowerFailures THEN LogRemains ELSE {})
      /\ pWal' = [pWal EXCEPT ![c] = w]
      /\ UNCHANGED <<db, dbOlder, shared, aHdr, nBackfill, aPgno, bounds>>
  BY DEF truncate_wal, RestartMarks, At, Goto
<1>2. /\ Holds(c) /\ Control(c) /\ SharedTyped /\ pWal[c] \in WalObject
      /\ aHdr[0] # None /\ WRITE \in exclusive[c] /\ aHdr[0].mxFrame = 0
      /\ pWal[c].txn = 0 /\ pWal[c].page = None /\ pWal[c].readLock = -1
  BY <1>1, AtRestart DEF RestartSteps, RestartOK
<1>3. /\ w \in WalObject /\ w.pc = "ck_return" /\ w.hdr = pWal[c].hdr /\ w.readLock = -1
      /\ w.txn = 0 /\ w.page = None /\ w.mode = pWal[c].mode
  <2>1. "ck_return" \in Labels
    BY DEF Labels
  <2> QED
    BY <1>1, <1>2, <2>1 DEF WalObject
<1> HIDE DEF w
<1>4. /\ aReadMark' \in [Slots -> 0 .. READMARK_NOT_USED]
      /\ \A i \in Slots : aReadMark'[i] = aReadMark[i] \/ Unlocked(c, {READ_LOCK(i)})
      /\ exclusive'[c] = exclusive[c] \ ReadLocks
      /\ exclusive' = [exclusive EXCEPT ![c] = exclusive'[c]]
      /\ exclusive'[c] \subseteq 0 .. 3 + NSlot /\ exclusive'[c] \ exclusive[c] = {}
  BY <1>1, NewMarks
<1>5. LocksOf(c)
  <2>1. /\ shared' = [shared EXCEPT ![c] = shared'[c]] /\ shared'[c] = shared[c]
        /\ shared'[c] \subseteq {READ_LOCK(i) : i \in 0 .. NSlot}
    BY <1>1, <1>2 DEF SharedTyped
  <2> QED
    BY <1>4, <2>1 DEF LocksOf, Granted, Unlocked
<1>6. Private(c) /\ pWal'[c] = w /\ nTxn' = nTxn
  BY <1>1, <1>2, <1>3, <1>5, PrivateStep, SameBounds
<1>7. FilesTyped'
  <2>1. \A f : LogTyped(f) => LogTyped(f)'
    BY <1>6 DEF LogTyped, MayHold
  <2>2. \A log \in walTruncated' : LogTyped(log.wal) /\ log.hdr \in WalHdr \cup {None}
    BY <1>1, LogRemainsTyped DEF WInv
  <2>3. wal' \in [Frames -> Frame \cup {None}] /\ \A k \in Frames : wal'[k] \in MayHold(k)'
    BY <1>1 DEF MayHold
  <2>4. walOlder' \in [Frames -> SUBSET (Frame \cup {None})]
        /\ \A k \in Frames : walOlder'[k] \subseteq MayHold(k)'
    BY <1>1
  <2>5. \A log \in walTruncated' : LogTyped(log.wal)' /\ log.hdr \in WalHdr \cup {None}
    BY <2>1, <2>2
  <2> QED
    BY <1>1, <2>3, <2>4, <2>5 DEF WInv, FilesTyped, LogTyped
<1>8. Effect(c)
  BY <1>1, <1>2, <1>4, <1>6, StepOthers DEF Effect, Private
<1>9. SharedTyped' /\ Exclusion'
  BY <1>1, <1>2, <1>4, <1>6, SharedKept, BoundKept, ExclusionKept DEF Private, WInv, SharedTyped
<1>10. LogOK' /\ NBackfillInLog'
  <2>1. LogOK'
    BY <1>1, <1>2 DEF LogOK, CommitChain, Chain
  <2>2. NBackfillInLog'
    BY <1>1, <1>6, NBackfillSame DEF Private
  <2> QED
    BY <2>1, <2>2
<1>11. Holds(c)'
  <2>1. WRITE \notin ReadLocks /\ CKPT \notin ReadLocks
    BY LockNumbers
  <2> QED
    BY <1>2, <1>3, <1>4, <1>6, <2>1 DEF Holds, Recovering, RestartSteps
<1>12. Control(c)'
  BY <1>1, <1>2, <1>3, <1>6
     DEF Control, Recovering, RestartSteps, CheckpointSteps, FrameSteps, WithoutHdr, HdrBounded
<1>13. ConnOK(c)' /\ Quiet(c)
  BY <1>3, <1>6, <1>11, <1>12, RestingOK DEF Rests
<1>14. RestartAlone' /\ ReadersRespected'
  BY <1>8, <1>9, <1>12, <1>13, QuietPairs
<1> QED
  BY <1>7, <1>8, <1>9, <1>10, <1>13, <1>14, StepKeeps

-----------------------------------------------------------------------------
(* Recovery of the index *)

LEMMA AtRecovery ==
  ASSUME WInv, NEW c \in Conn, pWal[c].pc \in Recovering
  PROVE  /\ Holds(c) /\ Control(c) /\ RecoveryOK(c) /\ SharedTyped /\ pWal[c] \in WalObject
         /\ pWal[c].hdr # None /\ pWal[c].hdr \in Header
         /\ pWal[c].txn = 0 /\ pWal[c].readLock = -1 /\ pWal[c].page = None
         /\ {WRITE, CKPT} \subseteq exclusive[c]
         /\ \A d \in Conn \ {c} : WRITE \notin exclusive[d]
<1>1. /\ Holds(c) /\ Control(c) /\ RecoveryOK(c) /\ SharedTyped /\ pWal[c] \in WalObject
      /\ pWal[c].readLock \in -1 .. NSlot
  BY ObjectTypes DEF WInv, ConnOK
<1>2. /\ pWal[c].hdr # None /\ pWal[c].txn = 0 /\ pWal[c].page = None
      /\ {WRITE, CKPT} \subseteq exclusive[c]
  BY <1>1 DEF Control, Holds, Recovering, RestartSteps, FrameSteps, WithoutHdr
<1>3. pWal[c].readLock = -1
  BY <1>1, <1>2, Numbers DEF Control, Recovering, RestartSteps, FrameSteps
<1>4. pWal[c].hdr \in Header
  BY <1>1, <1>2, ObjectTypes
<1>5. \A d \in Conn \ {c} : WRITE \notin exclusive[d]
  BY <1>2 DEF WInv, Exclusion
<1> QED
  BY <1>1, <1>2, <1>3, <1>4, <1>5

\* The holder of the WRITE lock knows that nobody else restarts the log.
LEMMA NobodyRestarts ==
  ASSUME WInv, NEW c \in Conn, \A d \in Conn \ {c} : WRITE \notin exclusive[d],
         pWal[c].pc \notin RestartSteps
  PROVE  ~Restarting /\ \A d \in Conn : pWal[d].pc \notin RestartSteps
<1>1. ASSUME NEW d \in Conn, pWal[d].pc \in RestartSteps PROVE FALSE
  BY <1>1, AtRestart
<1> QED
  BY <1>1 DEF Restarting, At, RestartSteps

LEMMA RecoverPublishKeeps ==
  ASSUME WInv, NEW c \in Conn, recover_publish(c)
  PROVE  WInv'
<1> DEFINE w == [pWal[c] EXCEPT !.pc = "recover_reset"]
<1>1. /\ pWal[c].pc = "recover_publish" /\ aHdr' = [aHdr EXCEPT ![0] = pWal[c].hdr]
      /\ pWal' = [pWal EXCEPT ![c] = w]
      /\ UNCHANGED <<files, nBackfill, aReadMark, aPgno, locks, bounds>>
  BY DEF recover_publish, At, Goto
<1>2. /\ Holds(c) /\ Control(c) /\ RecoveryOK(c) /\ SharedTyped /\ pWal[c] \in WalObject
      /\ pWal[c].hdr # None /\ pWal[c].hdr \in Header
      /\ pWal[c].txn = 0 /\ pWal[c].readLock = -1 /\ pWal[c].page = None
      /\ {WRITE, CKPT} \subseteq exclusive[c]
      /\ \A d \in Conn \ {c} : WRITE \notin exclusive[d]
  BY <1>1, AtRecovery DEF Recovering
<1>3. /\ w \in WalObject /\ w.pc = "recover_reset" /\ w.hdr = pWal[c].hdr /\ w.readLock = -1
      /\ w.txn = 0 /\ w.page = None /\ w.mode = pWal[c].mode
  <2>1. "recover_reset" \in Labels
    BY DEF Labels
  <2> QED
    BY <1>2, <2>1 DEF WalObject
<1> HIDE DEF w
<1>4. LocksOf(c) /\ shared'[c] = shared[c] /\ exclusive'[c] = exclusive[c]
  BY <1>1, <1>2, SameLocks
<1>5. Private(c) /\ pWal'[c] = w /\ nTxn' = nTxn
  BY <1>1, <1>2, <1>3, <1>4, PrivateStep, SameBounds
<1>6. CommitChain(pWal[c].hdr) /\ (aHdr[0] # None => aHdr[0].mxFrame <= pWal[c].hdr.mxFrame)
  BY <1>1, <1>2 DEF RecoveryOK
<1>7. /\ Effect(c) /\ FilesTyped' /\ SharedTyped' /\ Exclusion' /\ LogOK'
      /\ aHdr'[0] = pWal[c].hdr
  BY <1>1, <1>2, <1>5, <1>6, PublishEffect
<1>8. NBackfillInLog'
  <2>1. pWal[c].hdr.mxFrame \in Nat /\ nBackfill \in Nat /\ (aHdr[0] # None => aHdr[0].mxFrame \in Nat)
    BY <1>2 DEF SharedTyped, Header
  <2>2. CASE aHdr[0] = None
    BY <1>1, <1>7, <2>1, <2>2 DEF WInv, LogOK, NBackfillInLog
  <2>3. CASE aHdr[0] # None
    <3>1. ~Restarting
      BY <1>1, <1>2, NobodyRestarts DEF RestartSteps
    <3>2. nBackfill <= aHdr[0].mxFrame
      BY <2>3, <3>1 DEF WInv, NBackfillInLog
    <3> QED
      BY <1>1, <1>6, <1>7, <2>1, <2>3, <3>2 DEF NBackfillInLog
  <2> QED
    BY <2>2, <2>3
<1>9. Holds(c)'
  BY <1>2, <1>3, <1>4, <1>5 DEF Holds, Recovering, RestartSteps
<1>10. Control(c)'
  BY <1>1, <1>2, <1>3, <1>5, <1>7
     DEF Control, Recovering, RestartSteps, CheckpointSteps, FrameSteps, WithoutHdr, HdrBounded
<1>11. ConnOK(c)' /\ Quiet(c)
  BY <1>3, <1>5, <1>7, <1>9, <1>10
     DEF ConnOK, WriterOK, RecoveryOK, RestartOK, CheckpointOK, Copies, ReaderOK, RestartSteps, Quiet
<1>12. RestartAlone' /\ ReadersRespected'
  BY <1>7, <1>10, <1>11, QuietPairs
<1> QED
  BY <1>7, <1>8, <1>11, <1>12, StepKeeps

LEMMA RecoverResetKeeps ==
  ASSUME WInv, NEW c \in Conn, recover_reset(c)
  PROVE  WInv'
<1> DEFINE w == [pWal[c] EXCEPT !.pc = "recover_marks"]
<1>1. /\ pWal[c].pc = "recover_reset" /\ nBackfill' = 0 /\ pWal' = [pWal EXCEPT ![c] = w]
      /\ UNCHANGED <<files, aHdr, aReadMark, aPgno, locks, bounds>>
  BY DEF recover_reset, At, Goto
<1>2. /\ Holds(c) /\ Control(c) /\ RecoveryOK(c) /\ SharedTyped /\ pWal[c] \in WalObject
      /\ pWal[c].hdr # None /\ pWal[c].hdr \in Header
      /\ pWal[c].txn = 0 /\ pWal[c].readLock = -1 /\ pWal[c].page = None
      /\ pWal[c].hdr = aHdr[0]
  BY <1>1, AtRecovery DEF Recovering, RecoveryOK
<1>3. /\ w \in WalObject /\ w.pc = "recover_marks" /\ w.hdr = pWal[c].hdr /\ w.readLock = -1
      /\ w.txn = 0 /\ w.page = None /\ w.mode = pWal[c].mode
  <2>1. "recover_marks" \in Labels
    BY DEF Labels
  <2> QED
    BY <1>2, <2>1 DEF WalObject
<1> HIDE DEF w
<1>4. LocksOf(c) /\ shared'[c] = shared[c] /\ exclusive'[c] = exclusive[c]
  BY <1>1, <1>2, SameLocks
<1>5. Private(c) /\ pWal'[c] = w /\ nTxn' = nTxn /\ wal' = wal /\ walHdr' = walHdr
  BY <1>1, <1>2, <1>3, <1>4, PrivateStep, SameBounds DEF files
<1>6. Effect(c)
  BY <1>1, <1>2, <1>5, StepOthers DEF Effect, Private
<1>7. FilesTyped' /\ SharedTyped' /\ Exclusion'
  <2>1. 0 \in 0 .. MaxFrame
    BY Numbers
  <2> QED
    BY <1>1, <1>2, <1>5, <2>1, FilesSame, SharedKept, BoundKept, ExclusionKept
       DEF WInv, SharedTyped, Private
<1>8. LogOK' /\ NBackfillInLog'
  <2>1. LogOK'
    BY <1>1, <1>5 DEF WInv, LogOK, CommitChain, Chain, ValidFrame
  <2>2. 0 <= aHdr[0].mxFrame
    BY <1>2 DEF Header
  <2> QED
    BY <1>1, <2>1, <2>2 DEF NBackfillInLog
<1>9. Holds(c)'
  BY <1>1, <1>2, <1>3, <1>4, <1>5 DEF Holds, Recovering, RestartSteps
<1>10. Control(c)'
  BY <1>1, <1>2, <1>3, <1>5
     DEF Control, Recovering, RestartSteps, CheckpointSteps, FrameSteps, WithoutHdr, HdrBounded
<1>11. ConnOK(c)' /\ Quiet(c)
  BY <1>1, <1>2, <1>3, <1>5, <1>9, <1>10
     DEF ConnOK, WriterOK, RecoveryOK, RestartOK, CheckpointOK, Copies, ReaderOK, RestartSteps, Quiet
<1>12. RestartAlone' /\ ReadersRespected'
  BY <1>6, <1>7, <1>10, <1>11, QuietPairs
<1> QED
  BY <1>6, <1>7, <1>8, <1>11, <1>12, StepKeeps


LEMMA RecoverMarksKeeps ==
  ASSUME WInv, NEW c \in Conn, recover_marks(c)
  PROVE  WInv'
<1> DEFINE w == [Changed(pWal[c]) EXCEPT !.pc = AfterHdr(c)]
           ls == {WRITE, CKPT, RECOVER} \ OwnLocks(c)
<1>1. /\ pWal[c].pc = "recover_marks" /\ pWal' = [pWal EXCEPT ![c] = w]
      /\ aReadMark' = [i \in Slots |->
            IF ~Unlocked(c, {READ_LOCK(i)}) THEN aReadMark[i]
            ELSE IF i = 1 /\ pWal[c].hdr.mxFrame > 0 THEN pWal[c].hdr.mxFrame
            ELSE READMARK_NOT_USED]
      /\ UnlockExclusive(c, ls) /\ UNCHANGED <<files, aHdr, nBackfill, aPgno, bounds>>
  BY DEF recover_marks, At
<1>2. /\ Holds(c) /\ Control(c) /\ RecoveryOK(c) /\ SharedTyped /\ pWal[c] \in WalObject
      /\ pWal[c].hdr # None /\ pWal[c].hdr \in Header
      /\ pWal[c].txn = 0 /\ pWal[c].readLock = -1 /\ pWal[c].page = None
      /\ {WRITE, CKPT} \subseteq exclusive[c]
      /\ \A d \in Conn \ {c} : WRITE \notin exclusive[d]
      /\ pWal[c].hdr = aHdr[0]
  BY <1>1, AtRecovery DEF Recovering, RecoveryOK
<1>3. /\ AfterHdr(c) = (IF pWal[c].mode = "READ" THEN "try" ELSE "ck_start") /\ AfterHdr(c) \in Labels
  BY DEF AfterHdr, Labels
<1>4. /\ w \in WalObject /\ w.pc = AfterHdr(c) /\ w.hdr = pWal[c].hdr /\ w.readLock = -1
      /\ w.txn = 0 /\ w.page = None /\ w.mode = pWal[c].mode
  <2> DEFINE label == AfterHdr(c)
             v == Changed(pWal[c])
  <2>1. /\ v \in WalObject /\ v.hdr = pWal[c].hdr /\ v.readLock = -1
        /\ v.txn = 0 /\ v.page = None /\ v.mode = pWal[c].mode
    <3>1. CASE pWal[c].mode = "READ"
      <4>1. v = [pWal[c] EXCEPT !.cache = None] /\ pWal[c] \in WalObject
        BY <1>2, <3>1 DEF Changed
      <4> HIDE DEF v
      <4>2. /\ v \in WalObject /\ v.hdr = pWal[c].hdr /\ v.readLock = pWal[c].readLock
            /\ v.txn = pWal[c].txn /\ v.page = pWal[c].page /\ v.mode = pWal[c].mode
        BY <4>1 DEF WalObject
      <4> QED
        BY <1>2, <4>2
    <3>2. CASE pWal[c].mode # "READ"
      <4>1. v = [pWal[c] EXCEPT !.changed = TRUE] /\ pWal[c] \in WalObject
        BY <1>2, <3>2 DEF Changed
      <4> HIDE DEF v
      <4>2. /\ v \in WalObject /\ v.hdr = pWal[c].hdr /\ v.readLock = pWal[c].readLock
            /\ v.txn = pWal[c].txn /\ v.page = pWal[c].page /\ v.mode = pWal[c].mode
        BY <4>1 DEF WalObject
      <4> QED
        BY <1>2, <4>2
    <3> QED
      BY <3>1, <3>2
  <2>2. label \in Labels
    BY <1>3
  <2>3. w = [v EXCEPT !.pc = label]
    OBVIOUS
  <2> HIDE DEF w, v, label
  <2>4. w \in WalObject /\ w.pc = label /\ w.hdr = pWal[c].hdr /\ w.readLock = -1
        /\ w.txn = 0 /\ w.page = None /\ w.mode = pWal[c].mode
    BY <2>1, <2>2, <2>3 DEF WalObject
  <2> QED
    BY <2>4 DEF label
<1> HIDE DEF w, ls
<1>5. LocksOf(c) /\ shared'[c] = shared[c] /\ exclusive'[c] = exclusive[c] \ ls
  BY <1>1, <1>2, FreesExclusive
<1>6. Private(c) /\ pWal'[c] = w
  BY <1>1, <1>2, <1>4, <1>5, PrivateStep
<1>7. aHdr' = aHdr /\ nTxn' = nTxn /\ wal' = wal /\ walHdr' = walHdr /\ FilesTyped'
  BY <1>1, <1>6, FilesSame DEF files, bounds, WInv, SharedTyped, Private
<1>8. /\ aReadMark' \in [Slots -> 0 .. READMARK_NOT_USED]
      /\ \A i \in Slots : aReadMark'[i] = aReadMark[i] \/ Unlocked(c, {READ_LOCK(i)})
  <2>1. pWal[c].hdr.mxFrame \in 0 .. READMARK_NOT_USED /\ READMARK_NOT_USED \in 0 .. READMARK_NOT_USED
    BY <1>2, Numbers DEF Header, READMARK_NOT_USED
  <2> QED
    BY <1>1, <1>2, <2>1 DEF SharedTyped
<1>9. Effect(c) /\ SharedTyped' /\ Exclusion' /\ LogOK' /\ NBackfillInLog'
  BY <1>1, <1>6, <1>7, <1>8, MarksEffect
<1>10. Holds(c)'
  <2>1. /\ pWal[c].mode # "READ" => CKPT \in exclusive'[c]
        /\ pWal[c].mode \in {"FULL", "TRUNCATE"} => WRITE \in exclusive'[c]
    BY <1>2, <1>5 DEF ls, OwnLocks
  <2> QED
    BY <1>3, <1>4, <1>6, <2>1 DEF Holds, Recovering, RestartSteps
<1>11. Control(c)'
  BY <1>1, <1>2, <1>3, <1>4, <1>6, <1>7
     DEF Control, Recovering, RestartSteps, CheckpointSteps, FrameSteps, WithoutHdr, HdrBounded
<1>12. ConnOK(c)'
  <2>1. aHdr[0].mxFrame <= aHdr[0].mxFrame
    BY <1>2 DEF Header
  <2> QED
    BY <1>2, <1>3, <1>4, <1>6, <1>7, <1>10, <1>11, <2>1
       DEF ConnOK, WriterOK, RecoveryOK, RestartOK, CheckpointOK, Copies, ReaderOK, RestartSteps
<1>13. RestartAlone'
  <2>1. \A d \in Conn : pWal'[d].pc # "restart_publish"
    <3>1. \A d \in Conn : pWal[d].pc # "restart_publish"
      BY <1>1, <1>2, NobodyRestarts DEF RestartSteps
    <3> QED
      BY <1>3, <1>4, <1>6, <1>9, <3>1 DEF Effect
  <2> QED
    BY <2>1 DEF RestartAlone, At
<1>14. ReadersRespected'
  <2>1. \A i \in Slots : ~Passed(c, i)'
    BY <1>3, <1>4, <1>6 DEF Passed
  <2>2. ~(pWal'[c].readLock > 0)
    BY <1>4, <1>6
  <2> QED
    BY <1>9, <1>11, <2>1, <2>2, ReadersKept
<1> QED
  BY <1>7, <1>9, <1>12, <1>13, <1>14, StepKeeps

\* The frames that a recovery finds.
LEMMA ValidFramesFacts ==
  ASSUME NEW f, NEW h, h # None
  PROVE  /\ ValidFrames(f, h) \in 0 .. MaxFrame
         /\ \A k \in 1 .. ValidFrames(f, h) : ValidFrame(f, h, k)
         /\ ValidFrames(f, h) = MaxFrame \/ ~ValidFrame(f, h, ValidFrames(f, h) + 1)
<1> DEFINE P(n) == /\ \A k \in 1 .. n : ValidFrame(f, h, k)
                   /\ n = MaxFrame \/ ~ValidFrame(f, h, n + 1)
           S == {n \in 0 .. MaxFrame : n = MaxFrame \/ ~ValidFrame(f, h, n + 1)}
<1>1. MaxFrame \in Nat
  BY Numbers
<1>2. S \in SUBSET Nat /\ MaxFrame \in S
  BY <1>1
<1>3. PICK n \in S : \A m \in S : n <= m
  BY <1>2, FirstOf
<1>4. ASSUME NEW k \in 1 .. n PROVE ValidFrame(f, h, k)
  <2>1. n \in 0 .. MaxFrame /\ k - 1 \in 0 .. MaxFrame /\ k - 1 < n /\ (k - 1) + 1 = k
    BY <1>1, <1>3
  <2>2. k - 1 \notin S
    <3> HIDE DEF S
    <3> QED
      BY <1>2, <1>3, <2>1
  <2> QED
    BY <2>1, <2>2
<1>5. n \in 0 .. MaxFrame /\ P(n)
  BY <1>3, <1>4
<1>6. ValidFrames(f, h) = CHOOSE m \in 0 .. MaxFrame : P(m)
  BY DEF ValidFrames
<1> HIDE DEF P
<1>7. ValidFrames(f, h) \in 0 .. MaxFrame /\ P(ValidFrames(f, h))
  BY <1>5, <1>6
<1> QED
  BY <1>7 DEF P

LEMMA CommittedFramesFacts ==
  ASSUME NEW f, NEW h, ValidFrames(f, h) \in Nat
  PROVE  LET n == CommittedFrames(f, h)
         IN  /\ n \in 0 .. ValidFrames(f, h) /\ (n = 0 \/ f[n].commit)
             /\ \A k \in n + 1 .. ValidFrames(f, h) : ~f[k].commit
<1> DEFINE v == ValidFrames(f, h)
           S == {n \in 0 .. v : n = 0 \/ f[n].commit}
           P(n) == (n = 0 \/ f[n].commit) /\ \A k \in n + 1 .. v : ~f[k].commit
<1> HIDE DEF v
<1>1. v \in Nat
  BY DEF v
<1>2. S \in SUBSET Nat /\ 0 \in S /\ \A n \in S : n <= v
  BY <1>1
<1>3. PICK n \in S : \A m \in S : m <= n
  BY <1>1, <1>2, LastOf
<1>4. n \in 0 .. v /\ P(n)
  <2>1. ASSUME NEW k \in n + 1 .. v, f[k].commit PROVE FALSE
    <3>1. n \in Nat /\ k \in 0 .. v /\ k > n
      BY <1>1, <1>3
    <3>2. k \in S
      BY <2>1, <3>1
    <3> QED
      BY <1>3, <3>1, <3>2
  <2> QED
    BY <1>3, <2>1
<1>5. CommittedFrames(f, h) = CHOOSE m \in 0 .. v : P(m)
  BY DEF CommittedFrames, v
<1> HIDE DEF P
<1>6. CommittedFrames(f, h) \in 0 .. v /\ P(CommittedFrames(f, h))
  BY <1>4, <1>5
<1> QED
  BY <1>6 DEF P, v


\* What a recovery makes of the log: a header for its committed frames, which
\* are not fewer than those of the header that was published.
LEMMA FoundFrames ==
  ASSUME WInv, NEW found \in FoundHdr
  PROVE  LET n == CommittedFrames(wal, found)
             v == ValidFrames(wal, found)
         IN  /\ v \in 0 .. MaxFrame /\ n \in 0 .. v
             /\ \A k \in 1 .. v : wal[k] \in Frame
             /\ n # 0 => /\ found # None /\ found = walHdr /\ wal[n].commit
                         /\ \A k \in 1 .. n : ValidFrame(wal, found, k)
             /\ n <= nTxn * Cardinality(Page)
             /\ aHdr[0] # None => aHdr[0].mxFrame <= n
<1> DEFINE n == CommittedFrames(wal, found)
           v == ValidFrames(wal, found)
<1>1. found \in {None, walHdr}
  BY DEF FoundHdr
<1>2. found = None => v = 0
  BY DEF ValidFrames
<1>3. found # None => /\ v \in 0 .. MaxFrame
                      /\ \A k \in 1 .. v : ValidFrame(wal, found, k)
                      /\ v = MaxFrame \/ ~ValidFrame(wal, found, v + 1)
  BY ValidFramesFacts
<1>4. v \in 0 .. MaxFrame /\ v \in Nat /\ MaxFrame \in Nat
  BY <1>2, <1>3, Numbers
<1>5. n \in 0 .. v /\ (n = 0 \/ wal[n].commit) /\ \A k \in n + 1 .. v : ~wal[k].commit
  BY <1>4, CommittedFramesFacts
<1> HIDE DEF n, v
<1>6. \A k \in 1 .. v : k \in Frames /\ wal[k] \in Frame /\ wal[k] \in MayHold(k)
  <2>1. \A k \in 1 .. v : wal[k] # None /\ k \in Frames
    BY <1>2, <1>3, <1>4 DEF ValidFrame, Frames
  <2> QED
    BY <2>1 DEF WInv, FilesTyped, LogTyped
<1>7. n # 0 => /\ found # None /\ found = walHdr /\ wal[n].commit
               /\ \A k \in 1 .. n : ValidFrame(wal, found, k)
  <2> SUFFICES ASSUME n # 0 PROVE /\ found # None /\ found = walHdr /\ wal[n].commit
                                  /\ \A k \in 1 .. n : ValidFrame(wal, found, k)
    OBVIOUS
  <2>1. found # None
    BY <1>2, <1>5
  <2>2. \A k \in 1 .. n : k \in 1 .. v
    BY <1>4, <1>5
  <2> QED
    BY <1>1, <1>3, <1>5, <2>1, <2>2
<1>8. n <= nTxn * Cardinality(Page)
  <2>1. nTxn \in Nat /\ nTxn * Cardinality(Page) \in Nat
    BY BoundsGrow DEF WInv, SharedTyped, Txn
  <2>2. CASE n = 0
    BY <2>1, <2>2
  <2>3. CASE n # 0
    <3>1. n \in 1 .. v
      BY <1>4, <1>5, <2>3
    <3>2. wal[n] \in Frame /\ wal[n] \in MayHold(n)
      BY <1>6, <3>1
    <3>3. wal[n].by \in Nat /\ wal[n].by <= nTxn /\ n <= wal[n].by * Cardinality(Page)
      BY <3>2, NoneAssumption DEF MayHold, Frame, Txn
    <3>4. /\ wal[n].by * Cardinality(Page) \in Nat
          /\ wal[n].by * Cardinality(Page) <= nTxn * Cardinality(Page)
      BY <2>1, <3>3, BoundsGrow
    <3> QED
      BY <1>4, <2>1, <3>1, <3>3, <3>4
  <2> QED
    BY <2>2, <2>3
<1>9. ASSUME aHdr[0] # None PROVE aHdr[0].mxFrame <= n
  <2> DEFINE m == aHdr[0].mxFrame
  <2>1. aHdr[0] \in Header /\ m \in 0 .. MaxFrame /\ CommitChain(aHdr[0])
    BY <1>9 DEF WInv, LogOK, SharedTyped, Header
  <2> HIDE DEF m
  <2>2. CASE m = 0
    BY <1>4, <1>5, <2>2 DEF m
  <2>3. CASE m # 0
    <3>1. m \in 1 .. MaxFrame /\ m > 0 /\ m \in Frames
      BY <1>4, <2>1, <2>3 DEF Frames
    <3>2. /\ walHdr # None /\ walHdr.salt = aHdr[0].salt /\ wal[m].commit
          /\ \A k \in 1 .. m : ValidFrame(wal, aHdr[0], k)
      BY <2>1, <3>1 DEF CommitChain, Chain, m
    <3>3. m \in 1 .. m
      BY <3>1
    <3>4. wal[m] # None
      BY <3>2, <3>3 DEF ValidFrame
    <3>5. found = walHdr /\ found # None
      BY <3>1, <3>2, <3>4 DEF FoundHdr
    <3>6. \A k \in 1 .. m : ValidFrame(wal, found, k)
      BY <3>2, <3>5 DEF ValidFrame
    <3>7. m <= v
      <4>1. CASE v = MaxFrame
        BY <3>1, <4>1
      <4>2. CASE ~ValidFrame(wal, found, v + 1)
        <5>1. v + 1 \notin 1 .. m
          BY <3>6, <4>2
        <5> QED
          BY <1>4, <3>1, <5>1
      <4> QED
        BY <1>3, <3>5, <4>1, <4>2
    <3>8. m \notin n + 1 .. v
      BY <1>5, <3>2
    <3> QED
      BY <1>4, <1>5, <3>1, <3>7, <3>8 DEF m
  <2> QED
    BY <2>2, <2>3
<1> QED
  BY <1>4, <1>5, <1>6, <1>7, <1>8, <1>9 DEF n, v

LEMMA RecoverKeeps ==
  ASSUME WInv, NEW c \in Conn, walIndexRecover(c)
  PROVE  WInv'
<1>1. PICK found \in FoundHdr :
        LET n == CommittedFrames(wal, found)
            h == [mxFrame |-> n, iChange |-> 0,
                  salt |-> IF found = None THEN 0 ELSE found.salt,
                  cksum |-> IF n = 0 THEN 0 ELSE wal[n].by]
        IN /\ pWal' = [pWal EXCEPT ![c].pc = "recover_publish", ![c].hdr = h,
                         ![c].nCkpt = IF found = None THEN @ ELSE found.seq]
           /\ aHdr' = [aHdr EXCEPT ![1] = h]
           /\ aPgno' = IF found = None THEN aPgno
                       ELSE [k \in Frames |-> IF k <= ValidFrames(wal, found)
                                              THEN wal[k].pgno ELSE None]
  BY DEF walIndexRecover
<1> DEFINE n == CommittedFrames(wal, found)
           v == ValidFrames(wal, found)
           salt == IF found = None THEN 0 ELSE found.salt
           cksum == IF n = 0 THEN 0 ELSE wal[n].by
           h == [mxFrame |-> n, iChange |-> 0, salt |-> salt, cksum |-> cksum]
           seq == IF found = None THEN pWal[c].nCkpt ELSE found.seq
           w == [pWal[c] EXCEPT !.pc = "recover_publish", !.hdr = h, !.nCkpt = seq]
           ls == {WRITE, CKPT, RECOVER}
<1>2. /\ pWal[c].pc \in {"idle", "hdr"} /\ Unlocked(c, ls) /\ LockExclusive(c, ls)
      /\ UNCHANGED <<files, nBackfill, aReadMark, bounds>>
  BY DEF walIndexRecover, Reads, CanRecover, At
<1>3. /\ pWal' = [pWal EXCEPT ![c] = w] /\ aHdr' = [aHdr EXCEPT ![1] = h]
      /\ aPgno' = (IF found = None THEN aPgno
                   ELSE [k \in Frames |-> IF k <= v THEN wal[k].pgno ELSE None])
  BY <1>1, ObjectTypes DEF WInv
<1>4. /\ pWal[c].txn = 0 /\ pWal[c].readLock = -1 /\ pWal[c].page = None
      /\ Holds(c) /\ Control(c) /\ SharedTyped /\ pWal[c] \in WalObject
  BY <1>2, AtHdr, ObjectTypes DEF WInv
<1>5. /\ v \in 0 .. MaxFrame /\ n \in 0 .. v
      /\ \A k \in 1 .. v : wal[k] \in Frame
      /\ n # 0 => /\ found # None /\ found = walHdr /\ wal[n].commit
                  /\ \A k \in 1 .. n : ValidFrame(wal, found, k)
      /\ n <= nTxn * Cardinality(Page)
      /\ aHdr[0] # None => aHdr[0].mxFrame <= n
  BY FoundFrames
<1> HIDE DEF n, v
<1>6. found \in WalHdr \cup {None}
  BY DEF FoundHdr, WInv, FilesTyped
<1>7. MaxFrame \in Nat /\ MaxTxn \in Nat /\ 0 \in Txn /\ n \in 0 .. MaxFrame
  BY <1>5, Numbers DEF Txn
<1>8. salt \in Txn /\ cksum \in Txn /\ seq \in BOOLEAN
  <2>1. salt \in Txn /\ seq \in BOOLEAN
    BY <1>4, <1>6, <1>7 DEF WalHdr, WalObject
  <2>2. CASE n = 0
    BY <1>7, <2>1, <2>2
  <2>3. CASE n # 0
    <3>1. n \in 1 .. v
      BY <1>5, <1>7, <2>3
    <3>2. wal[n] \in Frame
      BY <1>5, <3>1
    <3> QED
      BY <2>1, <2>3, <3>2 DEF Frame
  <2> QED
    BY <2>2, <2>3
<1> HIDE DEF seq
<1>9. h \in Header /\ h # None /\ h.mxFrame = n /\ h.iChange = 0 /\ h.salt = salt /\ h.cksum = cksum
  <2>1. h \in Header
    <3> HIDE DEF salt, cksum
    <3> QED
      BY <1>7, <1>8 DEF Header
  <2> QED
    BY <2>1, NoneAssumption
<1>10. CommitChain(h)
  <2> SUFFICES ASSUME n # 0 PROVE CommitChain(h)
    BY <1>5, <1>7, <1>9 DEF CommitChain, Chain
  <2>1. salt = found.salt /\ cksum = wal[n].by /\ found = walHdr /\ found # None /\ wal[n].commit
    BY <1>5
  <2>2. \A k \in 1 .. n : ValidFrame(wal, h, k)
    BY <1>5, <1>9, <2>1 DEF ValidFrame
  <2> HIDE DEF h
  <2> QED
    BY <1>9, <2>1, <2>2 DEF CommitChain, Chain
<1> HIDE DEF h, salt, cksum
<1>11. /\ w \in WalObject /\ w.pc = "recover_publish" /\ w.hdr = h /\ w.readLock = -1
       /\ w.txn = 0 /\ w.page = None /\ w.mode = pWal[c].mode
  <2>1. "recover_publish" \in Labels
    BY DEF Labels
  <2>2. pWal[c] \in WalObject /\ h \in Header
    BY <1>4, <1>8, <1>9
  <2>3. /\ w \in WalObject /\ w.pc = "recover_publish" /\ w.hdr = h
        /\ w.readLock = pWal[c].readLock /\ w.txn = pWal[c].txn /\ w.page = pWal[c].page
        /\ w.mode = pWal[c].mode
    BY <1>8, <2>1, <2>2 DEF WalObject
  <2> QED
    BY <1>4, <2>3
<1> HIDE DEF w
<1>12. LocksOf(c) /\ shared'[c] = shared[c] /\ exclusive'[c] = exclusive[c] \cup ls
  <2>1. ls \in SUBSET (0 .. 3 + NSlot)
    BY Numbers DEF WRITE, CKPT, RECOVER
  <2> QED
    BY <1>2, <1>4, <2>1, TakesExclusive
<1>13. Private(c) /\ pWal'[c] = w
  BY <1>2, <1>3, <1>4, <1>11, <1>12, PrivateStep
<1>14. nTxn' = nTxn /\ wal' = wal /\ walHdr' = walHdr /\ aHdr'[0] = aHdr[0]
       /\ aHdr' \in [0 .. 1 -> Header \cup {None}]
  BY <1>2, <1>3, <1>4, <1>9 DEF files, bounds, SharedTyped
<1>15. FilesTyped' /\ LogOK'
  BY <1>2, <1>13, <1>14, FilesSame, LogSame DEF WInv, SharedTyped, Private
<1>16. aPgno' \in [Frames -> Page \cup {None}]
  <2>1. ASSUME NEW k \in Frames, k <= v PROVE wal[k].pgno \in Page \cup {None}
    <3>1. k \in 1 .. v
      BY <1>5, <1>7, <2>1 DEF Frames
    <3> QED
      BY <1>5, <3>1 DEF Frame
  <2> QED
    BY <1>3, <1>4, <2>1 DEF SharedTyped
<1>17. Effect(c) /\ SharedTyped' /\ Exclusion' /\ NBackfillInLog'
  BY <1>2, <1>12, <1>13, <1>14, <1>15, <1>16, IndexEffect
<1>18. Holds(c)'
  BY <1>4, <1>11, <1>12, <1>13 DEF Holds, Recovering, RestartSteps
<1>19. Control(c)'
  <2>1. h.iChange <= nTxn
    BY <1>4, <1>9 DEF SharedTyped, Txn
  <2>2. pWal[c].mode = "TRUNCATE" => nTxn < MaxTxn
    BY <1>2, <1>4 DEF Control, RestartSteps
  <2> QED
    BY <1>4, <1>5, <1>9, <1>11, <1>13, <1>14, <2>1, <2>2
       DEF Control, Recovering, RestartSteps, CheckpointSteps, FrameSteps, WithoutHdr, HdrBounded
<1>20. RecoveryOK(c)'
  BY <1>5, <1>9, <1>10, <1>11, <1>13, <1>14 DEF RecoveryOK, CommitChain, Chain, ValidFrame
<1>21. ConnOK(c)' /\ Quiet(c)
  BY <1>11, <1>13, <1>18, <1>19, <1>20
     DEF ConnOK, WriterOK, RestartOK, CheckpointOK, Copies, ReaderOK, RestartSteps, Quiet
<1>22. RestartAlone' /\ ReadersRespected'
  BY <1>17, <1>19, <1>21, QuietPairs
<1> QED
  BY <1>15, <1>17, <1>21, <1>22, StepKeeps


-----------------------------------------------------------------------------
(* The choice of a read-mark slot *)

LEMMA BestMark ==
  ASSUME NEW mark \in [Slots -> Nat], NEW mx \in Nat
  PROVE  LET fit == {i \in Slots : mark[i] <= mx}
             best == Max({0} \cup {mark[i] : i \in fit})
         IN  fit # {} => /\ best \in 0 .. mx
                         /\ Max({i \in fit : mark[i] = best}) \in Slots
<1> DEFINE fit == {i \in Slots : mark[i] <= mx}
           S == {0} \cup {mark[i] : i \in fit}
           best == Max(S)
           T == {i \in fit : mark[i] = best}
<1> SUFFICES ASSUME fit # {} PROVE best \in 0 .. mx /\ Max(T) \in Slots
  OBVIOUS
<1>1. S \in SUBSET Nat /\ S # {} /\ \A x \in S : x <= mx
  OBVIOUS
<1> HIDE DEF S
<1>2. best \in S /\ \A x \in S : x <= best
  BY <1>1, LeastAndGreatest
<1> HIDE DEF best
<1>3. best \in 0 .. mx
  BY <1>1, <1>2
<1>4. T # {}
  <2>1. PICK j \in fit : TRUE
    OBVIOUS
  <2>2. mark[j] <= best /\ mark[j] \in Nat /\ j \in Slots
    BY <1>2, <2>1 DEF S
  <2>3. CASE best = 0
    <3>1. mark[j] = best
      BY <2>2, <2>3
    <3> QED
      BY <2>1, <3>1
  <2>4. CASE best # 0
    <3>1. PICK i \in fit : mark[i] = best
      BY <1>2, <2>4 DEF S
    <3> QED
      BY <3>1
  <2> QED
    BY <2>3, <2>4
<1>5. T \in SUBSET Nat /\ T \subseteq Slots /\ \A x \in T : x <= NSlot
  BY Numbers DEF Slots
<1> HIDE DEF T
<1>6. Max(T) \in T
  BY <1>4, <1>5, Numbers, LeastAndGreatest
<1> QED
  BY <1>3, <1>5, <1>6 DEF best, S, T

LEMMA ChooseMarkKeeps ==
  ASSUME WInv, NEW c \in Conn, choose_mark(c)
  PROVE  WInv'
<1> DEFINE mx == pWal[c].hdr.mxFrame
           fit == {i \in Slots : aReadMark[i] <= mx}
           best == Max({0} \cup {aReadMark[i] : i \in fit})
           free == {i \in Slots : Unlocked(c, {READ_LOCK(i)})}
           own == free # {} /\ (best < mx \/ fit = {})
           slot == IF own THEN Min(free) ELSE Max({i \in fit : aReadMark[i] = best})
           mark == IF own THEN mx ELSE best
           w == [pWal[c] EXCEPT !.pc = "slot", !.slot = slot, !.mark = mark]
<1>1. /\ pWal[c].pc \in {"try", "rebegin"} /\ UNCHANGED <<files, aHdr, nBackfill, aPgno, locks, bounds>>
      /\ own \/ fit # {}
      /\ aReadMark' = IF own THEN [aReadMark EXCEPT ![Min(free)] = mx] ELSE aReadMark
  BY DEF choose_mark, At
<1>2. pWal' = [pWal EXCEPT ![c] = w]
  <2>1. CASE own
    BY <2>1 DEF choose_mark
  <2>2. CASE ~own
    BY <2>2 DEF choose_mark
  <2> QED
    BY <2>1, <2>2
<1>3. /\ pWal[c].readLock = -1 /\ pWal[c].mode = "READ" /\ pWal[c].hdr # None
      /\ aHdr[0] # None /\ mx \in 0 .. MaxFrame
      /\ (pWal[c].txn = 0 <=> pWal[c].page = None)
      /\ Holds(c) /\ Control(c) /\ WriterOK(c) /\ SharedTyped /\ pWal[c] \in WalObject
      /\ aReadMark \in [Slots -> 0 .. READMARK_NOT_USED] /\ MaxFrame \in Nat
      /\ READMARK_NOT_USED \in Nat /\ MaxFrame <= READMARK_NOT_USED
  BY <1>1, AtSlot, ObjectTypes, Numbers DEF WInv, SharedTyped, READMARK_NOT_USED
<1>4. fit # {} => best \in 0 .. mx /\ Max({i \in fit : aReadMark[i] = best}) \in Slots
  <2>1. aReadMark \in [Slots -> Nat] /\ mx \in Nat
    BY <1>3
  <2> QED
    BY <2>1, BestMark
<1>5. free # {} => Min(free) \in free
  <2>1. free \in SUBSET Nat /\ \A i \in free : i <= NSlot
    BY Numbers DEF Slots
  <2> HIDE DEF free
  <2> QED
    BY <2>1, Numbers, LeastAndGreatest
<1> HIDE DEF best
<1>6. slot \in Slots /\ slot \in 0 .. NSlot /\ mark \in 0 .. mx /\ mark \in 0 .. MaxFrame
  <2>1. slot \in Slots
    BY <1>1, <1>4, <1>5
  <2>2. mark \in 0 .. mx
    <3>1. mx \in 0 .. mx
      BY <1>3
    <3> HIDE DEF mx
    <3> QED
      BY <1>1, <1>4, <3>1
  <2> HIDE DEF slot, mark
  <2> QED
    BY <1>3, <2>1, <2>2, LockNumbers
<1>7. /\ aReadMark' \in [Slots -> 0 .. READMARK_NOT_USED]
      /\ \A i \in Slots : aReadMark'[i] = aReadMark[i] \/ Unlocked(c, {READ_LOCK(i)})
  <2>1. CASE own
    <3> DEFINE i == Min(free)
    <3>1. i \in Slots /\ Unlocked(c, {READ_LOCK(i)})
      BY <1>5, <2>1
    <3>2. aReadMark' = [aReadMark EXCEPT ![i] = mx]
      BY <1>1, <2>1
    <3> HIDE DEF i
    <3>3. mx \in 0 .. READMARK_NOT_USED
      BY <1>3
    <3> QED
      BY <1>3, <3>1, <3>2, <3>3
  <2>2. CASE ~own
    BY <1>1, <1>3, <2>2
  <2> QED
    BY <2>1, <2>2
<1> HIDE DEF slot, mark
<1>8. /\ w \in WalObject /\ w.pc = "slot" /\ w.hdr = pWal[c].hdr /\ w.readLock = -1
      /\ w.txn = pWal[c].txn /\ w.page = pWal[c].page /\ w.mode = "READ" /\ w.slot = slot
      /\ w.mark = mark
  <2>1. "slot" \in Labels
    BY DEF Labels
  <2> QED
    BY <1>3, <1>6, <2>1 DEF WalObject
<1> HIDE DEF w
<1>9. LocksOf(c) /\ shared'[c] = shared[c] /\ exclusive'[c] = exclusive[c]
  BY <1>1, <1>3, SameLocks
<1>10. Private(c) /\ pWal'[c] = w
  BY <1>1, <1>2, <1>3, <1>8, <1>9, PrivateStep
<1>11. aHdr' = aHdr /\ nTxn' = nTxn /\ wal' = wal /\ walHdr' = walHdr /\ FilesTyped'
  BY <1>1, <1>10, FilesSame DEF files, bounds, WInv, SharedTyped, Private
<1>12. Effect(c) /\ SharedTyped' /\ Exclusion' /\ LogOK' /\ NBackfillInLog'
  BY <1>1, <1>7, <1>10, <1>11, MarksEffect
<1>13. Holds(c)'
  BY <1>3, <1>8, <1>9, <1>10 DEF Holds, Recovering, RestartSteps
<1>14. Control(c)'
  <2>1. mark <= mx
    BY <1>3, <1>6
  <2> QED
    BY <1>1, <1>3, <1>6, <1>8, <1>10, <1>11, <2>1
       DEF Control, Recovering, RestartSteps, CheckpointSteps, FrameSteps, WithoutHdr, HdrBounded
<1>15. WriterOK(c)'
  <2>1. CASE pWal[c].txn = 0
    BY <1>8, <1>10, <2>1 DEF WriterOK
  <2>2. CASE pWal[c].txn # 0
    BY <1>1, <1>3, <1>8, <1>10, <1>11, <2>2, WriterSame, SpilledPages DEF RestartSteps
  <2> QED
    BY <2>1, <2>2
<1>16. ConnOK(c)' /\ Quiet(c)
  BY <1>8, <1>10, <1>13, <1>14, <1>15
     DEF ConnOK, RecoveryOK, RestartOK, CheckpointOK, Copies, ReaderOK, RestartSteps, Quiet
<1>17. RestartAlone' /\ ReadersRespected'
  BY <1>12, <1>14, <1>16, QuietPairs
<1> QED
  BY <1>11, <1>12, <1>16, <1>17, StepKeeps


-----------------------------------------------------------------------------
(* Frames *)

\* A writer that appends a frame.
LEMMA AtFrame ==
  ASSUME WInv, NEW c \in Conn, pWal[c].pc \in FrameSteps
  PROVE  /\ pWal[c].txn # 0 /\ pWal[c].txn = nTxn /\ nTxn \in Txn /\ nTxn \in Nat
         /\ pWal[c].mode = "READ" /\ pWal[c].readLock \in Slots /\ pWal[c].readLock > 0
         /\ pWal[c].hdr # None /\ pWal[c].hdr \in Header /\ pWal[c].hdr.mxFrame \in 0 .. MaxFrame
         /\ aHdr[0] # None /\ aHdr[0] \in Header /\ aHdr[0].mxFrame \in 0 .. MaxFrame
         /\ pWal[c].page # None /\ pWal[c].page \in Page /\ WRITE \in exclusive[c]
         /\ Holds(c) /\ Control(c) /\ WriterOK(c) /\ ReaderOK(c)
         /\ SharedTyped /\ pWal[c] \in WalObject
<1>1. /\ Holds(c) /\ Control(c) /\ WriterOK(c) /\ ReaderOK(c)
      /\ SharedTyped /\ pWal[c] \in WalObject /\ pWal[c].readLock \in -1 .. NSlot
      /\ pWal[c].page \in Page \cup {None}
  <2>1. pWal[c] \in WalObject
    BY ObjectTypes DEF WInv
  <2> QED
    BY <2>1, ObjectTypes DEF WInv, ConnOK, WalObject
<1>2. /\ pWal[c].txn # 0 /\ pWal[c].txn = nTxn /\ pWal[c].readLock > 0
      /\ pWal[c].hdr # None /\ aHdr[0] # None /\ pWal[c].page # None
      /\ pWal[c].mode = "READ"
  BY <1>1 DEF Control, FrameSteps, RestartSteps, CheckpointSteps, Recovering, WithoutHdr
<1>3. pWal[c].hdr \in Header /\ aHdr[0] \in Header
  BY <1>1, <1>2, ObjectTypes DEF SharedTyped
<1>4. pWal[c].readLock \in Slots /\ nTxn \in Txn /\ nTxn \in Nat
  BY <1>1, <1>2, Numbers DEF Slots, SharedTyped, Txn
<1> QED
  BY <1>1, <1>2, <1>3, <1>4 DEF Holds, Header

\* There is room for another frame: a transaction writes each page once.
LEMMA RoomForFrame ==
  ASSUME WInv, NEW c \in Conn, pWal[c].pc \in FrameSteps \ {"publish"}
  PROVE  /\ NextFrame(c) \in Frames /\ NextFrame(c) <= nTxn * Cardinality(Page)
         /\ aHdr[0].mxFrame <= pWal[c].hdr.mxFrame
         /\ Cardinality(Spilled(c) \cup {pWal[c].page}) = NextFrame(c) - aHdr[0].mxFrame
<1> DEFINE B == Cardinality(Page)
           S == Spilled(c)
           p == pWal[c].page
           m == aHdr[0].mxFrame
           k == pWal[c].hdr.mxFrame
<1>1. /\ WriterOK(c) /\ pWal[c].txn # 0 /\ nTxn \in Txn /\ m \in Nat /\ k \in Nat
      /\ aHdr[0].iChange \in Nat /\ p \in Page
  BY AtFrame DEF Header, Txn
<1>2. /\ S \subseteq Page /\ Cardinality(S) = k - m /\ p \notin S /\ m <= k
      /\ m <= (nTxn - 1) * B /\ aHdr[0].iChange <= nTxn - 1
  BY <1>1 DEF WriterOK, RestartSteps, FrameSteps
<1> HIDE DEF S
<1>3. IsFiniteSet(Page) /\ IsFiniteSet(S) /\ B \in Nat
  BY <1>2, WalAssumption, Numbers, FS_Subset
<1>4. Cardinality(S \cup {p}) = Cardinality(S) + 1
  BY <1>2, <1>3, FS_AddElement
<1>5. Cardinality(S \cup {p}) <= B
  BY <1>1, <1>2, <1>3, FS_Subset
<1>6. nTxn \in Nat /\ MaxTxn \in Nat /\ nTxn <= MaxTxn /\ nTxn - 1 \in Nat
  BY <1>1, <1>2, Numbers DEF Txn
<1>7. /\ (nTxn - 1) * B \in Nat /\ nTxn * B \in Nat /\ MaxTxn * B \in Nat /\ nTxn * B <= MaxTxn * B
      /\ nTxn * B = (nTxn - 1) * B + B
  <2>1. /\ (nTxn - 1) * B \in Nat /\ nTxn * B \in Nat /\ MaxTxn * B \in Nat /\ nTxn * B <= MaxTxn * B
    BY <1>6, BoundsGrow
  <2> HIDE DEF B
  <2>2. nTxn * B = (nTxn - 1) * B + B
    BY <1>3, <1>6
  <2> QED
    BY <2>1, <2>2
<1>8. k + 1 <= nTxn * B /\ k + 1 <= MaxTxn * B
  <2> HIDE DEF B, m, k, p
  <2>1. \A x \in Nat : x <= (nTxn - 1) * B /\ k + 1 - x <= B => k + 1 <= (nTxn - 1) * B + B
    BY <1>1, <1>3, <1>7
  <2> QED
    BY <1>1, <1>2, <1>3, <1>4, <1>5, <1>7, <2>1
<1>9. NextFrame(c) = k + 1 /\ MaxFrame = MaxTxn * B
  BY DEF NextFrame, MaxFrame
<1> QED
  BY <1>1, <1>2, <1>4, <1>7, <1>8, <1>9 DEF Frames, S

\* One more frame, computed from the last.
LEMMA ChainAppend ==
  ASSUME NEW f, NEW f2, NEW h \in Header, NEW g \in Header,
         \A k \in 1 .. h.mxFrame : ValidFrame(f, h, k) /\ f2[k] = f[k],
         h.mxFrame > 0 => f[h.mxFrame].by = h.cksum, h.mxFrame = 0 => h.cksum = 0,
         g.mxFrame = h.mxFrame + 1, g.salt = h.salt, f2[g.mxFrame] # None,
         f2[g.mxFrame].salt = h.salt, f2[g.mxFrame].after = h.cksum
  PROVE  \A k \in 1 .. g.mxFrame : ValidFrame(f2, g, k)
<1> DEFINE n == h.mxFrame
<1>1. n \in Nat /\ g.mxFrame = n + 1
  BY DEF Header
<1>2. ASSUME NEW k \in 1 .. n PROVE ValidFrame(f2, g, k)
  <2>1. ValidFrame(f, h, k) /\ f2[k] = f[k] /\ (k # 1 => f2[k - 1] = f[k - 1])
    <3>1. k # 1 => k - 1 \in 1 .. n
      BY <1>1, <1>2
    <3> QED
      BY <1>2, <3>1
  <2> QED
    BY <2>1 DEF ValidFrame
<1>3. ValidFrame(f2, g, n + 1)
  <2>1. CASE n = 0
    BY <1>1, <2>1 DEF ValidFrame
  <2>2. CASE n # 0
    <3>1. n \in 1 .. n /\ n > 0 /\ (n + 1) - 1 = n /\ n + 1 # 1
      BY <1>1, <2>2
    <3>2. f2[n] = f[n] /\ f[n] # None /\ f[n].by = h.cksum
      BY <3>1 DEF ValidFrame
    <3> QED
      BY <1>1, <3>1, <3>2 DEF ValidFrame
  <2> QED
    BY <2>1, <2>2
<1>4. ASSUME NEW k \in 1 .. g.mxFrame PROVE k \in 1 .. n \/ k = n + 1
  BY <1>1
<1> QED
  BY <1>2, <1>3, <1>4


LEMMA WriteHeaderKeeps ==
  ASSUME WInv, NEW c \in Conn, write_wal_header(c)
  PROVE  WInv'
<1> DEFINE salt == IF pWal[c].nCkpt THEN pWal[c].hdr.salt ELSE pWal[c].txn
           h == [pWal[c].hdr EXCEPT !.salt = salt, !.cksum = 0]
           w == [pWal[c] EXCEPT !.pc = "sync_header", !.hdr = h]
<1>1. /\ pWal[c].pc = "header"
      /\ walHdr' = [salt |-> salt, seq |-> pWal[c].nCkpt]
      /\ walHdrOlder' = Unsynced(walHdrOlder, walHdr)
      /\ UNCHANGED <<db, dbOlder, wal, walOlder, walTruncated, shm, locks, bounds>>
  BY DEF write_wal_header, At
<1>2. /\ pWal[c].txn # 0 /\ pWal[c].txn = nTxn /\ nTxn \in Txn /\ nTxn \in Nat
      /\ pWal[c].mode = "READ" /\ pWal[c].readLock \in Slots /\ pWal[c].readLock > 0
      /\ pWal[c].hdr # None /\ pWal[c].hdr \in Header
      /\ aHdr[0] # None /\ aHdr[0] \in Header
      /\ pWal[c].page # None /\ pWal[c].page \in Page /\ WRITE \in exclusive[c]
      /\ Holds(c) /\ Control(c) /\ WriterOK(c) /\ ReaderOK(c)
      /\ SharedTyped /\ pWal[c] \in WalObject
  BY <1>1, AtFrame DEF FrameSteps
<1>3. pWal' = [pWal EXCEPT ![c] = w]
  <2>1. pWal' = [pWal EXCEPT ![c] = [[[pWal[c] EXCEPT !.pc = "sync_header"]
                                       EXCEPT !.hdr.salt = salt] EXCEPT !.hdr.cksum = 0]]
    BY <1>2 DEF write_wal_header, SharedTyped
  <2>2. [[[pWal[c] EXCEPT !.pc = "sync_header"] EXCEPT !.hdr.salt = salt] EXCEPT !.hdr.cksum = 0] = w
    <3> HIDE DEF salt
    <3> QED
      BY <1>2 DEF WalObject
  <2> QED
    BY <2>1, <2>2
<1>4. salt \in Txn /\ 0 \in Txn /\ pWal[c].nCkpt \in BOOLEAN
  BY <1>2, Numbers DEF Header, WalObject, Txn
<1> HIDE DEF salt
<1>5. /\ h \in Header /\ h # None /\ h.mxFrame = pWal[c].hdr.mxFrame
      /\ h.iChange = pWal[c].hdr.iChange /\ h.salt = salt /\ h.cksum = 0
  <2>1. /\ h \in Header /\ h.mxFrame = pWal[c].hdr.mxFrame
        /\ h.iChange = pWal[c].hdr.iChange /\ h.salt = salt /\ h.cksum = 0
    BY <1>2, <1>4 DEF Header
  <2> QED
    BY <2>1, NoneAssumption
<1> HIDE DEF h
<1>6. /\ w \in WalObject /\ w.pc = "sync_header" /\ w.hdr = h /\ w.readLock = pWal[c].readLock
      /\ w.txn = pWal[c].txn /\ w.page = pWal[c].page /\ w.mode = "READ" /\ w.minFrame = pWal[c].minFrame
  <2>1. "sync_header" \in Labels
    BY DEF Labels
  <2>2. pWal[c] \in WalObject /\ h \in Header
    BY <1>2, <1>5
  <2>3. /\ w \in WalObject /\ w.pc = "sync_header" /\ w.hdr = h
        /\ w.readLock = pWal[c].readLock /\ w.txn = pWal[c].txn /\ w.page = pWal[c].page
        /\ w.mode = pWal[c].mode /\ w.minFrame = pWal[c].minFrame
    BY <2>1, <2>2 DEF WalObject
  <2> QED
    BY <1>2, <2>3
<1> HIDE DEF w
<1>7. LocksOf(c) /\ shared'[c] = shared[c] /\ exclusive'[c] = exclusive[c]
  BY <1>1, <1>2, SameLocks
<1>8. Private(c) /\ pWal'[c] = w
  BY <1>1, <1>2, <1>3, <1>6, <1>7, PrivateStep
<1>9. /\ aHdr' = aHdr /\ nTxn' = nTxn /\ nBackfill' = nBackfill /\ aReadMark' = aReadMark
      /\ aPgno' = aPgno /\ wal' = wal
  BY <1>1 DEF shm, bounds
<1>10. FilesTyped'
  <2>1. \A f : LogTyped(f) => LogTyped(f)'
    BY <1>9 DEF LogTyped, MayHold
  <2>2. walHdr' \in WalHdr \cup {None}
    BY <1>1, <1>4 DEF WalHdr
  <2>3. walHdrOlder' \subseteq WalHdr \cup {None}
    BY <1>1 DEF WInv, FilesTyped, Unsynced
  <2> QED
    BY <1>1, <1>9, <2>1, <2>2, <2>3 DEF WInv, FilesTyped, MayHold
<1>11. pWal[c].hdr.mxFrame = 0 /\ aHdr[0].mxFrame = 0
  <2>1. pWal[c].hdr.mxFrame = 0 /\ aHdr[0].mxFrame <= pWal[c].hdr.mxFrame /\ aHdr[0].mxFrame \in Nat
    BY <1>1, <1>2 DEF WriterOK, RestartSteps, Header
  <2> QED
    BY <2>1
<1>12. LogOK'
  BY <1>2, <1>9, <1>11 DEF LogOK, CommitChain, Chain
<1>13. Effect(c) /\ SharedTyped' /\ Exclusion' /\ NBackfillInLog'
  BY <1>2, <1>8, <1>9, <1>10, <1>12, IndexEffect DEF SharedTyped
<1>14. Holds(c)'
  BY <1>1, <1>2, <1>6, <1>7, <1>8 DEF Holds, Recovering, RestartSteps
<1>15. Control(c)'
  BY <1>1, <1>2, <1>5, <1>6, <1>8, <1>9
     DEF Control, Recovering, RestartSteps, CheckpointSteps, FrameSteps, WithoutHdr, HdrBounded
<1>16. WriterOK(c)'
  <2>1. Spilled(c)' = Spilled(c)
    BY <1>5, <1>6, <1>8, <1>9 DEF Spilled
  <2>2. Chain(pWal[c].hdr)'
    <3>1. pWal'[c].hdr.mxFrame = 0
      BY <1>5, <1>6, <1>8, <1>11
    <3> QED
      BY <3>1 DEF Chain
  <2>3. HeadWritten(pWal[c].hdr)'
    <3>1. walHdr' # None
      BY <1>1, <1>4, NoneAssumption DEF WalHdr
    <3> QED
      BY <1>1, <1>5, <1>6, <1>8, <3>1 DEF HeadWritten
  <2> QED
    BY <1>1, <1>2, <1>5, <1>6, <1>8, <1>9, <1>11, <2>1, <2>2, <2>3 DEF WriterOK, RestartSteps
<1>17. Last(c)' = Last(c)
  BY <1>2, <1>6, <1>8, <1>9 DEF Last
<1>18. ReaderOK(c)'
  BY <1>1, <1>2, <1>5, <1>6, <1>8, <1>9, <1>17 DEF ReaderOK
<1>19. ConnOK(c)'
  BY <1>6, <1>8, <1>14, <1>15, <1>16, <1>18
     DEF ConnOK, RecoveryOK, RestartOK, CheckpointOK, Copies, RestartSteps
<1>20. Quiet(c)
  BY <1>2, <1>6, <1>8, <1>17, LastTypes DEF Quiet
<1>21. RestartAlone' /\ ReadersRespected'
  BY <1>13, <1>15, <1>20, QuietPairs
<1> QED
  BY <1>10, <1>12, <1>13, <1>19, <1>21, StepKeeps

\* A step that only goes on, after a sync of the log at most.
LEMMA FrameGoesOn ==
  ASSUME WInv, NEW c \in Conn, NEW label \in {"frame", "append"},
         pWal[c].pc = (IF label = "frame" THEN "sync_header" ELSE "sync_frame"),
         SyncWal, Goto(c, label), UNCHANGED <<shm, locks, bounds>>
  PROVE  WInv'
<1> DEFINE w == [pWal[c] EXCEPT !.pc = label]
<1>1. pWal' = [pWal EXCEPT ![c] = w] /\ pWal[c].pc \in {"sync_header", "sync_frame"}
  BY DEF Goto
<1>2. /\ pWal[c].txn # 0 /\ pWal[c].txn = nTxn
      /\ pWal[c].mode = "READ" /\ pWal[c].readLock \in Slots /\ pWal[c].readLock > 0
      /\ pWal[c].hdr # None /\ aHdr[0] # None /\ pWal[c].page # None
      /\ Holds(c) /\ Control(c) /\ WriterOK(c) /\ ReaderOK(c)
      /\ SharedTyped /\ pWal[c] \in WalObject
  BY <1>1, AtFrame DEF FrameSteps
<1>3. /\ w \in WalObject /\ w.pc = label /\ w.hdr = pWal[c].hdr /\ w.readLock = pWal[c].readLock
      /\ w.txn = pWal[c].txn /\ w.page = pWal[c].page /\ w.mode = "READ"
      /\ w.minFrame = pWal[c].minFrame /\ w.commit = pWal[c].commit
  <2>1. label \in Labels
    BY DEF Labels
  <2> QED
    BY <1>2, <2>1 DEF WalObject
<1> HIDE DEF w
<1>4. LocksOf(c) /\ shared'[c] = shared[c] /\ exclusive'[c] = exclusive[c]
  BY <1>2, SameLocks
<1>5. Private(c) /\ pWal'[c] = w
  BY <1>1, <1>2, <1>3, <1>4, PrivateStep
<1>6. /\ aHdr' = aHdr /\ nTxn' = nTxn /\ nBackfill' = nBackfill /\ aReadMark' = aReadMark
      /\ aPgno' = aPgno
  BY DEF shm, bounds
<1>7. FilesTyped' /\ wal' = wal /\ walHdr' = walHdr
  BY <1>6, SyncWalTyped DEF WInv
<1>8. Effect(c) /\ SharedTyped' /\ Exclusion' /\ LogOK' /\ NBackfillInLog'
  BY <1>2, <1>5, <1>6, <1>7, MarksEffect DEF SharedTyped
<1>9. Holds(c)'
  BY <1>2, <1>3, <1>4, <1>5 DEF Holds, Recovering, RestartSteps
<1>10. Control(c)'
  BY <1>1, <1>2, <1>3, <1>5, <1>6
     DEF Control, Recovering, RestartSteps, CheckpointSteps, FrameSteps, WithoutHdr, HdrBounded
<1>11. WriterOK(c)'
  <2>1. Spilled(c)' = Spilled(c)
    BY <1>3, <1>5, <1>6, <1>7 DEF Spilled
  <2>2. \A h : (Chain(h) => Chain(h)') /\ (HeadWritten(h) => HeadWritten(h)')
    BY <1>7 DEF Chain, HeadWritten, ValidFrame
  <2>3. NextWritten(c) => NextWritten(c)'
    BY <1>3, <1>5, <1>7 DEF NextWritten, NextFrame
  <2> QED
    BY <1>1, <1>2, <1>3, <1>5, <1>6, <2>1, <2>2, <2>3 DEF WriterOK, RestartSteps
<1>12. Last(c)' = Last(c)
  BY <1>3, <1>5, <1>6 DEF Last
<1>13. ReaderOK(c)'
  BY <1>2, <1>3, <1>5, <1>6, <1>12 DEF ReaderOK
<1>14. ConnOK(c)'
  BY <1>3, <1>5, <1>9, <1>10, <1>11, <1>13
     DEF ConnOK, RecoveryOK, RestartOK, CheckpointOK, Copies, RestartSteps
<1>15. Quiet(c)
  BY <1>2, <1>3, <1>5, <1>12, LastTypes DEF Quiet
<1>16. RestartAlone' /\ ReadersRespected'
  BY <1>8, <1>10, <1>15, QuietPairs
<1> QED
  BY <1>7, <1>8, <1>14, <1>16, StepKeeps

LEMMA SyncHeaderKeeps ==
  ASSUME WInv, NEW c \in Conn, sync_wal_header(c)
  PROVE  WInv'
BY FrameGoesOn DEF sync_wal_header, At

LEMMA SyncFrameKeeps ==
  ASSUME WInv, NEW c \in Conn, sync_frame(c)
  PROVE  WInv'
BY FrameGoesOn DEF sync_frame, At


\* The next frame is written behind those that are there.
LEMMA FrameWritten ==
  ASSUME WInv, NEW c \in Conn, pWal[c].pc = "frame", WriteNextFrame(c), nTxn' = nTxn
  PROVE  /\ FilesTyped' /\ walHdr' = walHdr
         /\ wal'[NextFrame(c)] =
              [pgno |-> pWal[c].page, by |-> pWal[c].txn, commit |-> pWal[c].commit,
               salt |-> pWal[c].hdr.salt, after |-> pWal[c].hdr.cksum]
         /\ \A j \in 1 .. pWal[c].hdr.mxFrame : wal'[j] = wal[j]
         /\ UNCHANGED <<aHdr[0], nBackfill>> => LogOK'
<1> DEFINE k == NextFrame(c)
           frame == [pgno |-> pWal[c].page, by |-> pWal[c].txn, commit |-> pWal[c].commit,
                     salt |-> pWal[c].hdr.salt, after |-> pWal[c].hdr.cksum]
<1>1. /\ pWal[c].txn = nTxn /\ nTxn \in Txn /\ nTxn \in Nat
      /\ pWal[c].hdr \in Header /\ pWal[c].hdr.mxFrame \in Nat
      /\ aHdr[0] # None /\ aHdr[0] \in Header /\ aHdr[0].mxFrame \in Nat /\ pWal[c].page \in Page
      /\ pWal[c] \in WalObject
  BY AtFrame DEF FrameSteps
<1>2. k \in Frames /\ k <= nTxn * Cardinality(Page) /\ aHdr[0].mxFrame <= pWal[c].hdr.mxFrame
  BY RoomForFrame DEF FrameSteps
<1>3. k = pWal[c].hdr.mxFrame + 1
  BY DEF NextFrame
<1>4. frame \in Frame /\ frame.by = nTxn
  BY <1>1 DEF Frame, Header, WalObject
<1>5. /\ wal' = [wal EXCEPT ![k] = frame]
      /\ walOlder' = [walOlder EXCEPT ![k] = Unsynced(@, wal[k])]
      /\ UNCHANGED <<db, dbOlder, walHdr, walHdrOlder, walTruncated>>
  BY DEF WriteNextFrame, WriteFrame
<1> HIDE DEF k, frame
<1>6. frame \in MayHold(k)
  <2>1. frame.by <= nTxn /\ k <= frame.by * Cardinality(Page)
    BY <1>1, <1>2, <1>4
  <2> QED
    BY <1>4, <2>1 DEF MayHold
<1>7. /\ wal \in [Frames -> Frame \cup {None}] /\ walOlder \in [Frames -> SUBSET (Frame \cup {None})]
      /\ \A j \in Frames : wal[j] \in MayHold(j) /\ walOlder[j] \subseteq MayHold(j)
  BY DEF WInv, FilesTyped, LogTyped
<1>8. wal'[k] = frame /\ \A j \in 1 .. pWal[c].hdr.mxFrame : wal'[j] = wal[j]
  <2>1. wal'[k] = frame
    BY <1>2, <1>5, <1>7
  <2>2. \A j \in 1 .. pWal[c].hdr.mxFrame : j # k
    BY <1>1, <1>3
  <2> QED
    BY <1>5, <1>7, <2>1, <2>2
<1>9. FilesTyped'
  <2>1. \A f : LogTyped(f) => LogTyped(f)'
    BY DEF LogTyped, MayHold
  <2>2. \A j \in Frames : MayHold(j)' = MayHold(j)
    BY DEF MayHold
  <2>3. wal' \in [Frames -> Frame \cup {None}] /\ \A j \in Frames : wal'[j] \in MayHold(j)'
    BY <1>4, <1>5, <1>6, <1>7, <2>2
  <2>4. Unsynced(walOlder[k], wal[k]) \subseteq MayHold(k) /\ Unsynced(walOlder[k], wal[k]) \subseteq Frame \cup {None}
    BY <1>2, <1>7 DEF Unsynced
  <2>5. walOlder' \in [Frames -> SUBSET (Frame \cup {None})]
        /\ \A j \in Frames : walOlder'[j] \subseteq MayHold(j)'
    BY <1>2, <1>5, <1>7, <2>2, <2>4
  <2>6. /\ db' \in Image /\ dbOlder' \in [Page -> SUBSET (0 .. MaxTxn + 1)]
        /\ walHdr' \in WalHdr \cup {None} /\ walHdrOlder' \subseteq WalHdr \cup {None}
        /\ \A log \in walTruncated' : LogTyped(log.wal)' /\ log.hdr \in WalHdr \cup {None}
    BY <1>5, <2>1 DEF WInv, FilesTyped
  <2> QED
    BY <2>3, <2>5, <2>6 DEF FilesTyped, LogTyped
<1>10. ASSUME UNCHANGED <<aHdr[0], nBackfill>> PROVE LogOK'
  <2> DEFINE m == aHdr[0].mxFrame
  <2>1. \A j \in 1 .. m : wal'[j] = wal[j] /\ (j # 1 => wal'[j - 1] = wal[j - 1])
    <3>1. \A j \in 1 .. m : j \in 1 .. pWal[c].hdr.mxFrame /\ (j # 1 => j - 1 \in 1 .. pWal[c].hdr.mxFrame)
      BY <1>1, <1>2
    <3> QED
      BY <1>8, <3>1
  <2>2. CommitChain(aHdr[0])
    BY <1>1 DEF WInv, LogOK
  <2>3. \A j \in 1 .. m : ValidFrame(wal', aHdr[0], j)
    BY <2>1, <2>2 DEF CommitChain, Chain, ValidFrame
  <2>4. m > 0 => wal'[m] = wal[m]
    BY <1>1, <2>1
  <2> QED
    BY <1>1, <1>5, <1>10, <2>2, <2>3, <2>4 DEF LogOK, CommitChain, Chain
<1> QED
  BY <1>5, <1>8, <1>9, <1>10 DEF frame, k

LEMMA IndexTyped ==
  ASSUME SharedTyped, NEW c \in Conn, NEW k, NEW p \in Page, walIndexAppend(c, k, p)
  PROVE  aPgno' \in [Frames -> Page \cup {None}]
<1>1. aPgno \in [Frames -> Page \cup {None}]
  BY DEF SharedTyped
<1> QED
  BY <1>1 DEF walIndexAppend

LEMMA CommitFrameKeeps ==
  ASSUME WInv, NEW c \in Conn, commit_frame(c)
  PROVE  WInv'
<1> DEFINE label == IF fullSync THEN "sync_frame" ELSE "append"
           w == [pWal[c] EXCEPT !.pc = label]
<1>1. /\ pWal[c].pc = "frame" /\ pWal[c].commit /\ WriteNextFrame(c)
      /\ pWal' = [pWal EXCEPT ![c] = w] /\ UNCHANGED <<shm, locks, bounds>>
  BY DEF commit_frame, At, Goto
<1>2. /\ pWal[c].txn # 0 /\ pWal[c].txn = nTxn
      /\ pWal[c].mode = "READ" /\ pWal[c].readLock \in Slots /\ pWal[c].readLock > 0
      /\ pWal[c].hdr # None /\ aHdr[0] # None /\ pWal[c].page # None
      /\ pWal[c].hdr \in Header /\ pWal[c].hdr.mxFrame \in Nat /\ aHdr[0].mxFrame \in Nat
      /\ Holds(c) /\ Control(c) /\ WriterOK(c) /\ ReaderOK(c) /\ WRITE \in exclusive[c]
      /\ SharedTyped /\ pWal[c] \in WalObject
  BY <1>1, AtFrame DEF FrameSteps
<1>3. label \in Labels /\ label \in {"sync_frame", "append"}
  BY DEF Labels
<1> HIDE DEF label
<1>4. /\ w \in WalObject /\ w.pc = label /\ w.hdr = pWal[c].hdr /\ w.readLock = pWal[c].readLock
      /\ w.txn = pWal[c].txn /\ w.page = pWal[c].page /\ w.mode = "READ"
      /\ w.minFrame = pWal[c].minFrame /\ w.commit = pWal[c].commit
  BY <1>2, <1>3 DEF WalObject
<1> HIDE DEF w
<1>5. LocksOf(c) /\ shared'[c] = shared[c] /\ exclusive'[c] = exclusive[c]
  BY <1>1, <1>2, SameLocks
<1>6. Private(c) /\ pWal'[c] = w
  BY <1>1, <1>2, <1>4, <1>5, PrivateStep
<1>7. /\ aHdr' = aHdr /\ nTxn' = nTxn /\ nBackfill' = nBackfill /\ aReadMark' = aReadMark
      /\ aPgno' = aPgno
  BY <1>1 DEF shm, bounds
<1>8. /\ FilesTyped' /\ walHdr' = walHdr /\ LogOK'
      /\ wal'[NextFrame(c)] =
           [pgno |-> pWal[c].page, by |-> pWal[c].txn, commit |-> pWal[c].commit,
            salt |-> pWal[c].hdr.salt, after |-> pWal[c].hdr.cksum]
      /\ \A j \in 1 .. pWal[c].hdr.mxFrame : wal'[j] = wal[j]
  BY <1>1, <1>7, FrameWritten
<1>9. Effect(c) /\ SharedTyped' /\ Exclusion' /\ NBackfillInLog'
  BY <1>2, <1>6, <1>7, <1>8, IndexEffect DEF SharedTyped
<1>10. Holds(c)'
  BY <1>2, <1>3, <1>4, <1>5, <1>6 DEF Holds, Recovering, RestartSteps
<1>11. Control(c)'
  BY <1>1, <1>2, <1>3, <1>4, <1>6, <1>7
     DEF Control, Recovering, RestartSteps, CheckpointSteps, FrameSteps, WithoutHdr, HdrBounded
<1>12. WriterOK(c)'
  <2>1. Spilled(c)' = Spilled(c)
    <3>1. \A j \in aHdr[0].mxFrame + 1 .. pWal[c].hdr.mxFrame : wal'[j] = wal[j]
      BY <1>2, <1>8
    <3> QED
      BY <1>4, <1>6, <1>7, <3>1 DEF Spilled
  <2>2. Chain(pWal[c].hdr)'
    <3>1. Chain(pWal[c].hdr)
      BY <1>1, <1>2 DEF WriterOK, RestartSteps
    <3>2. \A j \in 1 .. pWal[c].hdr.mxFrame : j # 1 => wal'[j - 1] = wal[j - 1]
      BY <1>2, <1>8
    <3> QED
      BY <1>2, <1>4, <1>6, <1>8, <3>1, <3>2 DEF Chain, ValidFrame
  <2>3. HeadWritten(pWal[c].hdr)'
    BY <1>1, <1>2, <1>4, <1>6, <1>8 DEF WriterOK, HeadWritten
  <2>4. NextWritten(c)'
    <3>1. pWal[c].commit = TRUE
      BY <1>1, <1>2 DEF WalObject
    <3> QED
      BY <1>4, <1>6, <1>8, <3>1 DEF NextWritten, NextFrame
  <2> QED
    BY <1>1, <1>2, <1>3, <1>4, <1>6, <1>7, <2>1, <2>2, <2>3, <2>4 DEF WriterOK, RestartSteps
<1>13. Last(c)' = Last(c)
  BY <1>2, <1>4, <1>6, <1>7 DEF Last
<1>14. ReaderOK(c)'
  BY <1>2, <1>3, <1>4, <1>6, <1>7, <1>13 DEF ReaderOK
<1>15. ConnOK(c)'
  BY <1>3, <1>4, <1>6, <1>10, <1>11, <1>12, <1>14
     DEF ConnOK, RecoveryOK, RestartOK, CheckpointOK, Copies, RestartSteps
<1>16. Quiet(c)
  BY <1>2, <1>3, <1>4, <1>6, <1>13, LastTypes DEF Quiet
<1>17. RestartAlone' /\ ReadersRespected'
  BY <1>9, <1>11, <1>16, QuietPairs
<1> QED
  BY <1>8, <1>9, <1>15, <1>17, StepKeeps


LEMMA SpillFrameKeeps ==
  ASSUME WInv, NEW c \in Conn, spill_frame(c)
  PROVE  WInv'
<1> DEFINE k == NextFrame(c)
           h == [pWal[c].hdr EXCEPT !.mxFrame = k, !.cksum = pWal[c].txn]
           w == [pWal[c] EXCEPT !.pc = "reading", !.page = None, !.hdr = h]
           m == aHdr[0].mxFrame
           n == pWal[c].hdr.mxFrame
<1>1. /\ pWal[c].pc = "frame" /\ WriteNextFrame(c) /\ walIndexAppend(c, k, pWal[c].page)
      /\ UNCHANGED <<aHdr, nBackfill, aReadMark, locks, bounds>>
  BY DEF spill_frame, At
<1>2. /\ pWal[c].txn # 0 /\ pWal[c].txn = nTxn /\ nTxn \in Txn
      /\ pWal[c].mode = "READ" /\ pWal[c].readLock \in Slots /\ pWal[c].readLock > 0
      /\ pWal[c].hdr # None /\ aHdr[0] # None /\ pWal[c].page \in Page
      /\ pWal[c].hdr \in Header /\ n \in Nat /\ m \in Nat
      /\ Holds(c) /\ Control(c) /\ WriterOK(c) /\ ReaderOK(c) /\ WRITE \in exclusive[c]
      /\ SharedTyped /\ pWal[c] \in WalObject
  BY <1>1, AtFrame DEF FrameSteps
<1>3. /\ k \in Frames /\ k <= nTxn * Cardinality(Page) /\ m <= n
      /\ Cardinality(Spilled(c) \cup {pWal[c].page}) = k - m /\ k = n + 1
  BY <1>1, RoomForFrame DEF FrameSteps, NextFrame
<1>4. pWal' = [pWal EXCEPT ![c] = w]
  <2>1. pWal' = [pWal EXCEPT ![c] = [[[[pWal[c] EXCEPT !.pc = "reading"] EXCEPT !.page = None]
                                       EXCEPT !.hdr.mxFrame = k] EXCEPT !.hdr.cksum = pWal[c].txn]]
    <3>1. pWal' = [pWal EXCEPT ![c].pc = "reading", ![c].page = None,
                               ![c].hdr.mxFrame = k, ![c].hdr.cksum = pWal[c].txn]
      BY DEF spill_frame
    <3>2. DOMAIN pWal = Conn
      BY <1>2, ObjectTypes
    <3> HIDE DEF k
    <3> QED
      BY <3>1, <3>2
  <2>2. [[[[pWal[c] EXCEPT !.pc = "reading"] EXCEPT !.page = None]
            EXCEPT !.hdr.mxFrame = k] EXCEPT !.hdr.cksum = pWal[c].txn] = w
    <3> DEFINE u == [pWal[c] EXCEPT !.pc = "reading", !.page = None]
               v == [u EXCEPT !.hdr.mxFrame = k]
    <3> HIDE DEF k
    <3>1. pWal[c] \in WalObject
      BY <1>2
    <3>2. u.hdr = pWal[c].hdr /\ DOMAIN u = DOMAIN pWal[c] /\ "hdr" \in DOMAIN pWal[c]
      BY <3>1 DEF WalObject
    <3>3. [u EXCEPT !.hdr = h] = w
      OBVIOUS
    <3> HIDE DEF u, w
    <3>4. v = [u EXCEPT !.hdr = [pWal[c].hdr EXCEPT !.mxFrame = k]]
      BY <3>2
    <3>5. [v EXCEPT !.hdr.cksum = pWal[c].txn] = [u EXCEPT !.hdr = h]
      BY <3>2, <3>4
    <3> USE DEF u
    <3> QED
      BY <3>3, <3>5
  <2> QED
    BY <2>1, <2>2
<1> HIDE DEF k
<1>6. /\ h \in Header /\ h # None /\ h.mxFrame = k
      /\ h.iChange = pWal[c].hdr.iChange /\ h.salt = pWal[c].hdr.salt /\ h.cksum = pWal[c].txn
  <2>1. k \in 0 .. MaxFrame
    BY <1>3 DEF Frames
  <2>2. /\ h \in Header /\ h.mxFrame = k /\ h.iChange = pWal[c].hdr.iChange
        /\ h.salt = pWal[c].hdr.salt /\ h.cksum = pWal[c].txn
    BY <1>2, <2>1 DEF Header
  <2> QED
    BY <2>2, NoneAssumption
<1> HIDE DEF h
<1>7. /\ w \in WalObject /\ w.pc = "reading" /\ w.hdr = h /\ w.readLock = pWal[c].readLock
      /\ w.txn = pWal[c].txn /\ w.page = None /\ w.mode = "READ" /\ w.minFrame = pWal[c].minFrame
  <2>1. "reading" \in Labels
    BY DEF Labels
  <2> QED
    BY <1>2, <1>6, <2>1 DEF WalObject
<1> HIDE DEF w
<1>8. LocksOf(c) /\ shared'[c] = shared[c] /\ exclusive'[c] = exclusive[c]
  BY <1>1, <1>2, SameLocks
<1>9. Private(c) /\ pWal'[c] = w
  BY <1>1, <1>2, <1>4, <1>7, <1>8, PrivateStep
<1>10. aHdr' = aHdr /\ nTxn' = nTxn /\ nBackfill' = nBackfill /\ aReadMark' = aReadMark
  BY <1>1 DEF bounds
<1>11. /\ FilesTyped' /\ walHdr' = walHdr /\ LogOK'
       /\ wal'[k] = [pgno |-> pWal[c].page, by |-> pWal[c].txn, commit |-> pWal[c].commit,
                     salt |-> pWal[c].hdr.salt, after |-> pWal[c].hdr.cksum]
       /\ \A j \in 1 .. n : wal'[j] = wal[j]
  BY <1>1, <1>10, FrameWritten DEF k
<1>12. aPgno' \in [Frames -> Page \cup {None}]
  BY <1>1, <1>2, IndexTyped
<1>13. Effect(c) /\ SharedTyped' /\ Exclusion' /\ NBackfillInLog'
  BY <1>2, <1>9, <1>10, <1>11, <1>12, IndexEffect DEF SharedTyped
<1>14. Holds(c)'
  BY <1>2, <1>7, <1>8, <1>9 DEF Holds, Recovering, RestartSteps
<1>15. HdrBounded(pWal[c].hdr)'
  BY <1>2, <1>3, <1>6, <1>7, <1>9, <1>10 DEF Control, HdrBounded
<1>16. Control(c)'
  BY <1>1, <1>2, <1>6, <1>7, <1>9, <1>10, <1>15
     DEF Control, Recovering, RestartSteps, CheckpointSteps, FrameSteps, WithoutHdr
<1>17. WriterOK(c)'
  <2>1. Spilled(c)' = Spilled(c) \cup {pWal[c].page}
    <3>1. \A j : j \in m + 1 .. k <=> j \in m + 1 .. n \/ j = k
      BY <1>2, <1>3
    <3>2. \A j \in m + 1 .. n : wal'[j] = wal[j]
      BY <1>2, <1>11
    <3>3. Spilled(c)' = {wal'[j].pgno : j \in m + 1 .. k}
      BY <1>6, <1>7, <1>9, <1>10 DEF Spilled
    <3>4. Spilled(c) = {wal[j].pgno : j \in m + 1 .. n} /\ wal'[k].pgno = pWal[c].page
      BY <1>11 DEF Spilled
    <3> HIDE DEF m, n
    <3> QED
      BY <3>1, <3>2, <3>3, <3>4
  <2>2. Spilled(c) \subseteq Page
    BY <1>1, SpilledPages, <1>2 DEF RestartSteps
  <2>3. Chain(pWal[c].hdr)'
    <3>1. Chain(pWal[c].hdr) /\ HeadWritten(pWal[c].hdr)
      BY <1>1, <1>2 DEF WriterOK, RestartSteps
    <3>2. wal'[k] # None /\ wal'[k].salt = pWal[c].hdr.salt /\ wal'[k].after = pWal[c].hdr.cksum
          /\ wal'[k].by = pWal[c].txn
      <4>1. wal'[k] \in Frame
        BY <1>2, <1>11 DEF Frame, Header, WalObject
      <4> QED
        BY <1>11, <4>1, NoneAssumption
    <3>3. \A j \in 1 .. h.mxFrame : ValidFrame(wal', h, j)
      <4> DEFINE g == pWal[c].hdr
      <4>1. /\ g \in Header /\ \A j \in 1 .. g.mxFrame : ValidFrame(wal, g, j) /\ wal'[j] = wal[j]
            /\ g.mxFrame > 0 => wal[g.mxFrame].by = g.cksum
            /\ g.mxFrame = 0 => g.cksum = 0
        BY <1>2, <1>11, <3>1 DEF Chain, HeadWritten
      <4>2. /\ h \in Header /\ h.mxFrame = g.mxFrame + 1 /\ h.salt = g.salt
            /\ wal'[h.mxFrame] # None /\ wal'[h.mxFrame].salt = g.salt
            /\ wal'[h.mxFrame].after = g.cksum
        BY <1>3, <1>6, <3>2
      <4> HIDE DEF g
      <4> QED
        BY <4>1, <4>2, ChainAppend
    <3> QED
      BY <1>6, <1>7, <1>9, <1>11, <3>1, <3>2, <3>3 DEF Chain, HeadWritten
  <2>4. m <= k /\ None \notin Spilled(c)'
    BY <1>2, <1>3, <2>1, <2>2, NoneAssumption
  <2> QED
    BY <1>1, <1>2, <1>3, <1>6, <1>7, <1>9, <1>10, <2>1, <2>2, <2>3, <2>4 DEF WriterOK, RestartSteps
<1>18. Last(c)' = Last(c)
  BY <1>2, <1>7, <1>9, <1>10 DEF Last
<1>19. ReaderOK(c)'
  <2>1. Last(c) = m
    BY <1>2 DEF Last
  <2>2. m <= k
    BY <1>2, <1>3
  <2> QED
    BY <1>2, <1>6, <1>7, <1>9, <1>10, <1>18, <2>1, <2>2 DEF ReaderOK
<1>20. ConnOK(c)'
  BY <1>7, <1>9, <1>14, <1>16, <1>17, <1>19
     DEF ConnOK, RecoveryOK, RestartOK, CheckpointOK, Copies, RestartSteps
<1>21. Quiet(c)
  BY <1>2, <1>7, <1>9, <1>18, LastTypes DEF Quiet
<1>22. RestartAlone' /\ ReadersRespected'
  BY <1>13, <1>16, <1>21, QuietPairs
<1> QED
  BY <1>11, <1>13, <1>20, <1>22, StepKeeps


LEMMA AppendCommitKeeps ==
  ASSUME WInv, NEW c \in Conn, append_commit(c)
  PROVE  WInv'
<1> DEFINE k == NextFrame(c)
           g == pWal[c].hdr
           h == [g EXCEPT !.mxFrame = k, !.iChange = @ + 1, !.cksum = pWal[c].txn]
           w == [pWal[c] EXCEPT !.pc = "publish", !.hdr = h]
           m == aHdr[0].mxFrame
<1>1. /\ pWal[c].pc = "append" /\ walIndexAppend(c, k, pWal[c].page)
      /\ aHdr' = [aHdr EXCEPT ![1] = h] /\ pWal' = [pWal EXCEPT ![c] = w]
      /\ UNCHANGED <<files, nBackfill, aReadMark, locks, bounds>>
  BY DEF append_commit, At
<1>2. /\ pWal[c].txn # 0 /\ pWal[c].txn = nTxn /\ nTxn \in Txn
      /\ pWal[c].mode = "READ" /\ pWal[c].readLock \in Slots /\ pWal[c].readLock > 0
      /\ g # None /\ aHdr[0] # None /\ pWal[c].page \in Page /\ pWal[c].page # None
      /\ g \in Header /\ g.mxFrame \in Nat /\ m \in Nat
      /\ Holds(c) /\ Control(c) /\ WriterOK(c) /\ ReaderOK(c) /\ WRITE \in exclusive[c]
      /\ SharedTyped /\ pWal[c] \in WalObject
  BY <1>1, AtFrame DEF FrameSteps
<1>3. /\ k \in Frames /\ k <= nTxn * Cardinality(Page) /\ m <= g.mxFrame /\ k = g.mxFrame + 1
  BY <1>1, RoomForFrame DEF FrameSteps, NextFrame
<1>4. /\ g.iChange = aHdr[0].iChange /\ aHdr[0].iChange <= nTxn - 1 /\ m <= (nTxn - 1) * Cardinality(Page)
      /\ HeadWritten(g) /\ Chain(g)
      /\ wal[k] = [pgno |-> pWal[c].page, by |-> pWal[c].txn, commit |-> TRUE,
                   salt |-> g.salt, after |-> g.cksum]
  BY <1>1, <1>2 DEF WriterOK, NextWritten, RestartSteps
<1>5. g.iChange + 1 \in Txn /\ g.iChange + 1 <= nTxn
  BY <1>2, <1>4, Numbers DEF Header, Txn
<1> HIDE DEF k, g
<1>6. /\ h \in Header /\ h # None /\ h.mxFrame = k
      /\ h.iChange = g.iChange + 1 /\ h.salt = g.salt /\ h.cksum = pWal[c].txn
  <2>1. k \in 0 .. MaxFrame
    BY <1>3 DEF Frames
  <2>2. /\ h \in Header /\ h.mxFrame = k /\ h.iChange = g.iChange + 1
        /\ h.salt = g.salt /\ h.cksum = pWal[c].txn
    BY <1>2, <1>5, <2>1 DEF Header
  <2> QED
    BY <2>2, NoneAssumption
<1> HIDE DEF h
<1>7. /\ w \in WalObject /\ w.pc = "publish" /\ w.hdr = h /\ w.readLock = pWal[c].readLock
      /\ w.txn = pWal[c].txn /\ w.page = pWal[c].page /\ w.mode = "READ"
      /\ w.minFrame = pWal[c].minFrame /\ w.commit = pWal[c].commit
  <2>1. "publish" \in Labels
    BY DEF Labels
  <2> QED
    BY <1>2, <1>6, <2>1 DEF WalObject
<1> HIDE DEF w
<1>8. LocksOf(c) /\ shared'[c] = shared[c] /\ exclusive'[c] = exclusive[c]
  BY <1>1, <1>2, SameLocks
<1>9. Private(c) /\ pWal'[c] = w
  BY <1>1, <1>2, <1>7, <1>8, PrivateStep
<1>10. /\ aHdr' \in [0 .. 1 -> Header \cup {None}] /\ aHdr'[0] = aHdr[0]
       /\ nTxn' = nTxn /\ nBackfill' = nBackfill /\ aReadMark' = aReadMark
       /\ wal' = wal /\ walHdr' = walHdr
  BY <1>1, <1>2, <1>6 DEF bounds, files, SharedTyped
<1>11. FilesTyped' /\ LogOK'
  <2>1. FilesTyped'
    BY <1>1, <1>2, <1>9, FilesSame DEF WInv, Private
  <2> QED
    BY <1>10, <2>1, LogSame DEF WInv
<1>12. aPgno' \in [Frames -> Page \cup {None}]
  BY <1>1, <1>2, IndexTyped
<1>13. Effect(c) /\ SharedTyped' /\ Exclusion' /\ NBackfillInLog'
  BY <1>2, <1>8, <1>9, <1>10, <1>11, <1>12, IndexEffect
<1>14. Holds(c)'
  BY <1>2, <1>7, <1>8, <1>9 DEF Holds, Recovering, RestartSteps
<1>15. HdrBounded(pWal[c].hdr)'
  BY <1>3, <1>5, <1>6, <1>7, <1>9, <1>10 DEF HdrBounded
<1>16. Control(c)'
  BY <1>1, <1>2, <1>6, <1>7, <1>9, <1>10, <1>15
     DEF Control, Recovering, RestartSteps, CheckpointSteps, FrameSteps, WithoutHdr
<1>17. CommitChain(pWal[c].hdr)'
  <2>1. /\ g \in Header /\ \A j \in 1 .. g.mxFrame : ValidFrame(wal, g, j) /\ wal[j] = wal[j]
        /\ g.mxFrame > 0 => wal[g.mxFrame].by = g.cksum
        /\ g.mxFrame = 0 => g.cksum = 0
    BY <1>2, <1>4 DEF Chain, HeadWritten
  <2>2. wal[k] # None
    <3>1. wal[k] \in Frame
      BY <1>2, <1>4 DEF Frame, Header, WalObject
    <3> QED
      BY <3>1, NoneAssumption
  <2>3. /\ h \in Header /\ h.mxFrame = g.mxFrame + 1 /\ h.salt = g.salt
        /\ wal[h.mxFrame] # None /\ wal[h.mxFrame].salt = g.salt
        /\ wal[h.mxFrame].after = g.cksum
    BY <1>3, <1>4, <1>6, <2>2
  <2>4. \A j \in 1 .. h.mxFrame : ValidFrame(wal, h, j)
    BY <2>1, <2>3, ChainAppend
  <2> QED
    BY <1>4, <1>6, <1>7, <1>9, <1>10, <2>4 DEF CommitChain, Chain, HeadWritten, ValidFrame
<1>18. WriterOK(c)'
  <2>1. m <= k
    BY <1>2, <1>3
  <2> QED
    BY <1>4, <1>6, <1>7, <1>9, <1>10, <1>17, <2>1 DEF WriterOK, CommitChain, RestartSteps
<1>19. Last(c)' = Last(c)
  BY <1>2, <1>7, <1>9, <1>10 DEF Last
<1>20. ReaderOK(c)'
  <2>1. Last(c) = m
    BY <1>2 DEF Last
  <2>2. m <= k
    BY <1>2, <1>3
  <2> QED
    BY <1>2, <1>6, <1>7, <1>9, <1>10, <1>19, <2>1, <2>2 DEF ReaderOK
<1>21. ConnOK(c)'
  BY <1>7, <1>9, <1>14, <1>16, <1>18, <1>20
     DEF ConnOK, RecoveryOK, RestartOK, CheckpointOK, Copies, RestartSteps
<1>22. Quiet(c)
  BY <1>2, <1>7, <1>9, <1>19, LastTypes DEF Quiet
<1>23. RestartAlone' /\ ReadersRespected'
  BY <1>13, <1>16, <1>22, QuietPairs
<1> QED
  BY <1>11, <1>13, <1>21, <1>23, StepKeeps

LEMMA PublishCommitKeeps ==
  ASSUME WInv, NEW c \in Conn, publish_commit(c)
  PROVE  WInv'
<1> DEFINE w == [pWal[c] EXCEPT !.pc = "reading", !.txn = 0, !.page = None, !.commit = FALSE]
<1>1. /\ pWal[c].pc = "publish" /\ aHdr' = [aHdr EXCEPT ![0] = pWal[c].hdr]
      /\ UnlockExclusive(c, {WRITE}) /\ pWal' = [pWal EXCEPT ![c] = w]
      /\ UNCHANGED <<files, nBackfill, aReadMark, aPgno, bounds>>
  BY DEF publish_commit, At
<1>2. /\ pWal[c].txn # 0 /\ pWal[c].mode = "READ" /\ pWal[c].readLock \in Slots
      /\ pWal[c].readLock > 0 /\ pWal[c].hdr # None /\ aHdr[0] # None
      /\ pWal[c].hdr \in Header /\ pWal[c].hdr.mxFrame \in Nat /\ aHdr[0].mxFrame \in Nat
      /\ Holds(c) /\ Control(c) /\ WriterOK(c) /\ ReaderOK(c) /\ WRITE \in exclusive[c]
      /\ SharedTyped /\ pWal[c] \in WalObject
  BY <1>1, AtFrame DEF FrameSteps
<1>3. /\ w \in WalObject /\ w.pc = "reading" /\ w.hdr = pWal[c].hdr
      /\ w.readLock = pWal[c].readLock /\ w.txn = 0 /\ w.page = None /\ w.mode = "READ"
      /\ w.minFrame = pWal[c].minFrame
  <2>1. "reading" \in Labels /\ 0 \in Txn
    BY Numbers DEF Labels, Txn
  <2> QED
    BY <1>2, <2>1 DEF WalObject
<1> HIDE DEF w
<1>4. LocksOf(c) /\ shared'[c] = shared[c] /\ exclusive'[c] = exclusive[c] \ {WRITE}
  BY <1>1, <1>2, FreesExclusive
<1>5. Private(c) /\ pWal'[c] = w /\ nTxn' = nTxn
  BY <1>1, <1>2, <1>3, <1>4, PrivateStep, SameBounds
<1>6. CommitChain(pWal[c].hdr) /\ aHdr[0].mxFrame <= pWal[c].hdr.mxFrame
  BY <1>1, <1>2 DEF WriterOK, RestartSteps
<1>7. /\ Effect(c) /\ FilesTyped' /\ SharedTyped' /\ Exclusion' /\ LogOK'
      /\ aHdr'[0] = pWal[c].hdr
  BY <1>1, <1>2, <1>5, <1>6, PublishEffect
<1>8. NBackfillInLog'
  <2>1. ~Restarting
    <3>1. \A d \in Conn \ {c} : WRITE \notin exclusive[d]
      BY <1>2 DEF WInv, Exclusion
    <3> QED
      BY <1>1, <3>1, NobodyRestarts DEF RestartSteps
  <2>2. nBackfill <= aHdr[0].mxFrame /\ nBackfill \in Nat
    BY <1>2, <2>1 DEF WInv, NBackfillInLog, SharedTyped
  <2> QED
    BY <1>1, <1>2, <1>6, <1>7, <2>2 DEF NBackfillInLog
<1>9. Holds(c)'
  BY <1>2, <1>3, <1>4, <1>5 DEF Holds, Recovering, RestartSteps
<1>10. Control(c)'
  BY <1>1, <1>2, <1>3, <1>5, <1>7
     DEF Control, Recovering, RestartSteps, CheckpointSteps, FrameSteps, WithoutHdr, HdrBounded
<1>11. Last(c) = aHdr[0].mxFrame /\ Last(c)' = pWal[c].hdr.mxFrame
  BY <1>2, <1>3, <1>5 DEF Last
<1>12. ReaderOK(c)'
  <2>1. {aReadMark[pWal[c].readLock], pWal[c].minFrame - 1, nBackfill} \subseteq 0 .. aHdr[0].mxFrame
    BY <1>2, <1>11 DEF ReaderOK
  <2>2. \A x \in 0 .. aHdr[0].mxFrame : x \in 0 .. pWal[c].hdr.mxFrame
    BY <1>2, <1>6
  <2>3. pWal[c].hdr.mxFrame <= pWal[c].hdr.mxFrame
    BY <1>2
  <2>4. aReadMark' = aReadMark /\ nBackfill' = nBackfill
    BY <1>1
  <2> QED
    BY <1>2, <1>3, <1>5, <1>7, <1>11, <2>1, <2>2, <2>3, <2>4 DEF ReaderOK
<1>13. ConnOK(c)'
  BY <1>3, <1>5, <1>9, <1>10, <1>12
     DEF ConnOK, WriterOK, RecoveryOK, RestartOK, CheckpointOK, Copies, RestartSteps
<1>14. Quiet(c)
  BY <1>3, <1>5, <1>6, <1>11 DEF Quiet
<1>15. RestartAlone' /\ ReadersRespected'
  BY <1>7, <1>10, <1>14, QuietPairs
<1> QED
  BY <1>7, <1>8, <1>13, <1>15, StepKeeps

LEMMA UndoKeeps ==
  ASSUME WInv, NEW c \in Conn, sqlite3WalUndo(c)
  PROVE  WInv'
<1> DEFINE h == aHdr[0]
           w == [pWal[c] EXCEPT !.hdr = h, !.txn = 0]
<1>1. /\ pWal[c].pc = "reading" /\ pWal[c].txn # 0 /\ UnlockExclusive(c, {WRITE})
      /\ pWal' = [pWal EXCEPT ![c] = w]
      /\ UNCHANGED <<files, aHdr, nBackfill, aReadMark, bounds>>
  BY DEF sqlite3WalUndo, At
<1>2. /\ pWal[c].readLock \in 0 .. NSlot /\ pWal[c].mode = "READ"
      /\ h # None /\ h \in Header /\ h.mxFrame \in Nat /\ pWal[c].page = None
      /\ Holds(c) /\ Control(c) /\ WriterOK(c) /\ ReaderOK(c)
      /\ SharedTyped /\ pWal[c] \in WalObject /\ HdrBounded(h)
  BY <1>1, AtReading DEF SharedTyped
<1> HIDE DEF h
<1>3. /\ w \in WalObject /\ w.pc = "reading" /\ w.hdr = h
      /\ w.readLock = pWal[c].readLock /\ w.txn = 0 /\ w.page = None /\ w.mode = "READ"
      /\ w.minFrame = pWal[c].minFrame
  <2>1. 0 \in Txn
    BY Numbers DEF Txn
  <2> QED
    BY <1>1, <1>2, <2>1 DEF WalObject
<1> HIDE DEF w
<1>4. LocksOf(c) /\ shared'[c] = shared[c] /\ exclusive'[c] = exclusive[c] \ {WRITE}
  BY <1>1, <1>2, FreesExclusive
<1>5. Private(c) /\ pWal'[c] = w
  BY <1>1, <1>2, <1>3, <1>4, PrivateStep
<1>6. aHdr' = aHdr /\ nTxn' = nTxn /\ nBackfill' = nBackfill /\ aReadMark' = aReadMark
      /\ wal' = wal /\ walHdr' = walHdr
  BY <1>1 DEF bounds, files
<1>7. FilesTyped' /\ LogOK'
  <2>1. FilesTyped'
    BY <1>1, <1>2, <1>5, FilesSame DEF WInv, Private, SharedTyped
  <2> QED
    BY <1>6, <2>1, LogSame DEF WInv
<1>8. aPgno' \in [Frames -> Page \cup {None}]
  BY <1>2 DEF sqlite3WalUndo, SharedTyped
<1>9. Effect(c) /\ SharedTyped' /\ Exclusion' /\ NBackfillInLog'
  BY <1>2, <1>5, <1>6, <1>7, <1>8, IndexEffect DEF SharedTyped
<1>10. Holds(c)'
  BY <1>1, <1>2, <1>3, <1>4, <1>5 DEF Holds, Recovering, RestartSteps
<1>11. Control(c)'
  BY <1>1, <1>2, <1>3, <1>5, <1>6
     DEF Control, Recovering, RestartSteps, CheckpointSteps, FrameSteps, WithoutHdr, HdrBounded
<1>12. Last(c) = h.mxFrame /\ Last(c)' = h.mxFrame
  BY <1>1, <1>3, <1>5 DEF Last, h
<1>13. ReaderOK(c)'
  <2>1. h.mxFrame <= h.mxFrame
    BY <1>2
  <2>2. pWal[c].readLock > 0 => {aReadMark[pWal[c].readLock], pWal[c].minFrame - 1, nBackfill}
                                  \subseteq 0 .. h.mxFrame
    BY <1>2, <1>12 DEF ReaderOK
  <2>3. pWal[c].readLock = 0 => nBackfill \in {0, h.mxFrame}
    BY <1>1, <1>2 DEF ReaderOK, WriterOK, h
  <2> QED
    BY <1>3, <1>5, <1>6, <1>12, <2>1, <2>2, <2>3 DEF ReaderOK, h
<1>14. ConnOK(c)'
  BY <1>3, <1>5, <1>10, <1>11, <1>13
     DEF ConnOK, WriterOK, RecoveryOK, RestartOK, CheckpointOK, Copies, RestartSteps
<1>15. Quiet(c)
  BY <1>2, <1>3, <1>5, <1>12 DEF Quiet
<1>16. RestartAlone' /\ ReadersRespected'
  BY <1>9, <1>11, <1>15, QuietPairs
<1> QED
  BY <1>7, <1>9, <1>14, <1>16, StepKeeps


-----------------------------------------------------------------------------
(* Processes *)

\* Every connection is at rest, and the index is yet to be made.
Fresh ==
  /\ aHdr[0] = None /\ nBackfill = 0
  /\ \A c \in Conn :
       /\ pWal[c].pc \in {"closed", "idle"} /\ pWal[c].mode = "READ" /\ pWal[c].txn = 0
       /\ pWal[c].readLock = -1 /\ pWal[c].page = None /\ HdrBounded(pWal[c].hdr)

LEMMA FreshOK ==
  ASSUME Fresh', FilesTyped', SharedTyped', Exclusion'
  PROVE  WInv'
<1>1. LogOK' /\ NBackfillInLog'
  BY DEF Fresh, LogOK, NBackfillInLog
<1>2. ASSUME NEW c \in Conn PROVE ConnOK(c)'
  <2>1. Holds(c)' /\ Control(c)'
    BY DEF Fresh, Holds, Control, Recovering, RestartSteps, CheckpointSteps, FrameSteps, WithoutHdr
  <2> QED
    BY <2>1 DEF Fresh, ConnOK, WriterOK, RecoveryOK, RestartOK, CheckpointOK, Copies,
                ReaderOK, RestartSteps
<1>3. RestartAlone' /\ ReadersRespected'
  BY DEF Fresh, RestartAlone, ReadersRespected, At
<1> QED
  BY <1>1, <1>2, <1>3 DEF WInv

LEMMA OpenKeeps ==
  ASSUME WInv, NEW c \in Conn, sqlite3WalOpen(c)
  PROVE  WInv'
<1> DEFINE w == [pWal[c] EXCEPT !.pc = "idle"]
<1>1. /\ pWal[c].pc = "closed" /\ pWal' = [pWal EXCEPT ![c] = w]
      /\ UNCHANGED <<files, locks, bounds>>
  BY DEF sqlite3WalOpen, At, Goto
<1>2. /\ pWal[c].txn = 0 /\ pWal[c].readLock = -1 /\ pWal[c].page = None /\ pWal[c].mode = "READ"
      /\ Holds(c) /\ Control(c) /\ SharedTyped /\ pWal[c] \in WalObject
  BY <1>1, AtHdr, ObjectTypes DEF WInv
<1>3. /\ w \in WalObject /\ w.pc = "idle" /\ w.hdr = pWal[c].hdr /\ w.readLock = -1
      /\ w.txn = 0 /\ w.page = None /\ w.mode = "READ"
  <2>1. "idle" \in Labels
    BY DEF Labels
  <2> QED
    BY <1>2, <2>1 DEF WalObject
<1> HIDE DEF w
<1>4. LocksOf(c)
  BY <1>1, <1>2, SameLocks
<1>5. Private(c) /\ pWal'[c] = w
  BY <1>1, <1>2, <1>3, <1>4, PrivateStep
<1>6. CASE \A d \in Conn \ {c} : At(d, "closed")
  <2>1. /\ aHdr' = [i \in 0 .. 1 |-> None] /\ nBackfill' = 0
        /\ aReadMark' = [i \in Slots |-> 0] /\ aPgno' = [k \in Frames |-> None]
        /\ nTxn' = nTxn /\ nFault' = nFault
    BY <1>1, <1>6 DEF sqlite3WalOpen, bounds
  <2>2. FilesTyped'
    BY <1>1, <1>2, <1>5, FilesSame DEF WInv, Private, SharedTyped
  <2>3. Exclusion'
    BY <1>1 DEF WInv, Exclusion, locks
  <2>4. SharedTyped'
    <3>1. 0 \in 0 .. MaxFrame /\ 0 \in 0 .. READMARK_NOT_USED
      BY Numbers DEF READMARK_NOT_USED
    <3>2. HdrBounded(aHdr[0])'
      BY <2>1 DEF HdrBounded
    <3> QED
      BY <1>2, <1>5, <2>1, <3>1, <3>2, SharedKept DEF Private
  <2>5. ASSUME NEW d \in Conn
        PROVE  /\ pWal'[d].pc \in {"closed", "idle"} /\ pWal'[d].mode = "READ" /\ pWal'[d].txn = 0
               /\ pWal'[d].readLock = -1 /\ pWal'[d].page = None /\ HdrBounded(pWal[d].hdr)'
    <3>1. CASE d = c
      BY <1>2, <1>3, <1>5, <2>1, <3>1 DEF Control, HdrBounded
    <3>2. CASE d # c
      <4>1. pWal[d].pc = "closed" /\ pWal'[d] = pWal[d]
        BY <1>1, <1>2, <1>6, <3>2 DEF At, SharedTyped
      <4>2. /\ pWal[d].txn = 0 /\ pWal[d].readLock = -1 /\ pWal[d].page = None
            /\ pWal[d].mode = "READ" /\ Control(d)
        BY <4>1, AtHdr
      <4> QED
        BY <2>1, <4>1, <4>2 DEF Control, HdrBounded
    <3> QED
      BY <3>1, <3>2
  <2>6. Fresh'
    BY <2>1, <2>5 DEF Fresh
  <2> QED
    BY <2>2, <2>3, <2>4, <2>6, FreshOK
<1>7. CASE ~ \A d \in Conn \ {c} : At(d, "closed")
  <2>1. UNCHANGED shm /\ aHdr' = aHdr /\ nTxn' = nTxn
    BY <1>1, <1>7 DEF sqlite3WalOpen, shm, bounds
  <2>2. Holds(c)'
    BY <1>3, <1>5 DEF Holds, Recovering, RestartSteps
  <2>3. Control(c)'
    BY <1>2, <1>3, <1>5, <2>1
       DEF Control, Recovering, RestartSteps, CheckpointSteps, FrameSteps, WithoutHdr, HdrBounded
  <2> QED
    BY <1>1, <1>3, <1>5, <2>1, <2>2, <2>3, RestingOK, PrivateKeeps DEF Rests
<1> QED
  BY <1>6, <1>7

\* What a connection that ends was about to do is left undone.
LEMMA CrashKeeps ==
  ASSUME WInv, ~RestartCrash, NEW c \in Conn, Crash(c)
  PROVE  WInv'
<1>1. /\ pWal[c].pc # "restart_reset" /\ pWal' = [pWal EXCEPT ![c] = Closed]
      /\ shared' = [shared EXCEPT ![c] = {}] /\ exclusive' = [exclusive EXCEPT ![c] = {}]
      /\ nFault < MaxFault /\ nFault' = nFault + 1 /\ nTxn' = nTxn
      /\ UNCHANGED <<files, shm>>
  BY DEF Crash, At, Fault
<1>2. /\ Closed \in WalObject /\ Closed.readLock = -1 /\ Closed.txn = 0 /\ Closed.page = None
      /\ Closed.mode = "READ" /\ Closed.pc = "closed" /\ Closed.hdr = None
  BY ClosedType
<1>3. SharedTyped
  BY DEF WInv
<1>4. pWal'[c] = Closed /\ shared'[c] = {} /\ exclusive'[c] = {}
  BY <1>1, <1>3 DEF SharedTyped
<1>5. Private(c)
  <2>1. nFault + 1 \in 0 .. MaxFault
    BY <1>1, <1>3, WalAssumption DEF SharedTyped
  <2>2. StepOf(c) /\ OwnTypes(c)
    BY <1>1, <1>2, <1>4 DEF StepOf, OwnTypes
  <2>3. Granted(c)
    BY <1>4 DEF Granted, Unlocked
  <2>4. Counted
    BY <1>1, <1>3, <2>1 DEF Counted, SharedTyped
  <2> QED
    BY <1>1, <2>2, <2>3, <2>4 DEF Private
<1>6. Holds(c)'
  BY <1>2, <1>4 DEF Holds, Recovering, RestartSteps
<1>7. Control(c)'
  BY <1>2, <1>4
     DEF Control, Recovering, RestartSteps, CheckpointSteps, FrameSteps, WithoutHdr, HdrBounded
<1> QED
  BY <1>1, <1>2, <1>4, <1>5, <1>6, <1>7, RestingOK, PrivateKeeps DEF Rests

LEMMA PowerLossKeeps ==
  ASSUME WInv, PowerLoss
  PROVE  WInv'
<1>1. /\ db' \in DbRemains /\ dbOlder' = [p \in Page |-> {}]
      /\ walOlder' = [k \in Frames |-> {}] /\ walHdrOlder' = {} /\ walTruncated' = {}
      /\ aHdr' = [i \in 0 .. 1 |-> None] /\ nBackfill' = 0
      /\ aReadMark' = [i \in Slots |-> 0] /\ aPgno' = [k \in Frames |-> None]
      /\ shared' = [c \in Conn |-> {}] /\ exclusive' = [c \in Conn |-> {}]
      /\ pWal' = [c \in Conn |-> Closed]
      /\ nFault < MaxFault /\ nFault' = nFault + 1 /\ nTxn' = nTxn
  BY DEF PowerLoss, Fault
<1>2. FilesTyped /\ SharedTyped
  BY DEF WInv
<1>3. PICK log \in LogRemains : wal' = log.wal /\ walHdr' = log.hdr
  BY DEF PowerLoss
<1>4. LogTyped(wal') /\ walHdr' \in WalHdr \cup {None}
  BY <1>2, <1>3, LogRemainsTyped
<1>5. db' \in Image
  <2> DEFINE S == 0 .. MaxTxn + 1
  <2>1. db \in [Page -> S] /\ \A p \in Page : dbOlder[p] \subseteq S
    BY <1>2 DEF FilesTyped, Image
  <2>2. HalfWritten \in S
    BY Numbers DEF HalfWritten
  <2>3. db' \in FileRemains(db, dbOlder, HalfWritten)
    BY <1>1 DEF DbRemains
  <2> HIDE DEF S
  <2>4. db' \in [Page -> S]
    BY <2>1, <2>2, <2>3, RemainsIn
  <2> QED
    BY <2>4 DEF S, Image
<1>6. FilesTyped'
  <2>1. wal' \in [Frames -> Frame \cup {None}] /\ \A k \in Frames : wal'[k] \in MayHold(k)'
    BY <1>1, <1>4 DEF LogTyped, MayHold
  <2> QED
    BY <1>1, <1>4, <1>5, <2>1 DEF FilesTyped, LogTyped
<1>7. SharedTyped'
  <2>1. 0 \in 0 .. MaxFrame /\ 0 \in 0 .. READMARK_NOT_USED /\ nTxn \in Txn
        /\ nFault + 1 \in 0 .. MaxFault
    BY <1>1, <1>2, Numbers, WalAssumption DEF READMARK_NOT_USED, SharedTyped
  <2>2. HdrBounded(aHdr[0])'
    BY <1>1 DEF HdrBounded
  <2>3. Closed \in WalObject
    BY ClosedType
  <2> QED
    BY <1>1, <2>1, <2>2, <2>3 DEF SharedTyped
<1>8. Exclusion' /\ Fresh'
  BY <1>1, ClosedType DEF Exclusion, Fresh, HdrBounded
<1> QED
  BY <1>6, <1>7, <1>8, FreshOK

-----------------------------------------------------------------------------
(* The invariant and what it implies *)

LEMMA InitInv ==
  ASSUME Init
  PROVE  WInv
<1> USE DEF Init
<1>1. FilesTyped
  <2>1. 0 \in 0 .. MaxTxn + 1
    BY Numbers
  <2>2. wal \in [Frames -> Frame \cup {None}] /\ \A k \in Frames : wal[k] \in MayHold(k)
    BY DEF MayHold
  <2> QED
    BY <2>1, <2>2 DEF FilesTyped, LogTyped, Image
<1>2. SharedTyped
  <2>1. 0 \in 0 .. MaxFrame /\ 0 \in 0 .. READMARK_NOT_USED /\ 0 \in Txn /\ 0 \in 0 .. MaxFault
    BY Numbers, WalAssumption DEF READMARK_NOT_USED, Txn
  <2>2. HdrBounded(aHdr[0])
    BY DEF HdrBounded
  <2> QED
    BY <2>1, <2>2, ClosedType DEF SharedTyped
<1>3. Exclusion /\ Fresh
  BY ClosedType DEF Exclusion, Fresh, HdrBounded
<1>4. LogOK /\ NBackfillInLog
  BY DEF LogOK, NBackfillInLog
<1>5. ASSUME NEW c \in Conn PROVE ConnOK(c)
  <2>1. Holds(c) /\ Control(c)
    BY <1>3 DEF Fresh, Holds, Control, Recovering, RestartSteps, CheckpointSteps, FrameSteps,
                WithoutHdr
  <2> QED
    BY <1>3, <2>1 DEF Fresh, ConnOK, WriterOK, RecoveryOK, RestartOK, CheckpointOK, Copies,
                      ReaderOK, RestartSteps
<1>6. RestartAlone /\ ReadersRespected
  BY <1>3 DEF Fresh, RestartAlone, ReadersRespected, At
<1> QED
  BY <1>1, <1>2, <1>3, <1>4, <1>5, <1>6 DEF WInv


LEMMA ReadStepKeeps ==
  ASSUME WInv, NEW c \in Conn, ReadHdr(c) \/ Read(c)
  PROVE  WInv'
<1>1. CASE read_hdr(c)
  BY <1>1, ReadHdrKeeps
<1>2. CASE hdr_busy(c)
  BY <1>2, HdrBusyKeeps
<1>3. CASE walIndexRecover(c)
  BY <1>3, RecoverKeeps
<1>4. CASE recover_publish(c)
  BY <1>4, RecoverPublishKeeps
<1>5. CASE recover_reset(c)
  BY <1>5, RecoverResetKeeps
<1>6. CASE recover_marks(c)
  BY <1>6, RecoverMarksKeeps
<1>7. CASE read_without_wal(c)
  BY <1>7, ReadWithoutWalKeeps
<1>8. CASE choose_mark(c)
  BY <1>8, ChooseMarkKeeps
<1>9. CASE lock_slot(c)
  BY <1>9, LockSlotKeeps
<1>10. CASE verify_slot(c)
  BY <1>10, VerifySlotKeeps
<1>11. CASE sqlite3WalEndReadTransaction(c)
  BY <1>11, EndReadKeeps
<1> QED
  BY <1>1, <1>2, <1>3, <1>4, <1>5, <1>6, <1>7, <1>8, <1>9, <1>10, <1>11 DEF ReadHdr, Read

LEMMA WriteStepKeeps ==
  ASSUME WInv, ~StaleCheckpoints, NEW c \in Conn, Write(c) \/ Restart(c)
  PROVE  WInv'
<1>1. CASE sqlite3WalBeginWriteTransaction(c)
  BY <1>1, BeginWriteKeeps
<1>2. ASSUME NEW p \in Page, NEW commit \in BOOLEAN, walFrames(c, p, commit) PROVE WInv'
  BY <1>2, WalFramesKeeps
<1>3. CASE write_wal_header(c)
  BY <1>3, WriteHeaderKeeps
<1>4. CASE sync_wal_header(c)
  BY <1>4, SyncHeaderKeeps
<1>5. CASE spill_frame(c)
  BY <1>5, SpillFrameKeeps
<1>6. CASE commit_frame(c)
  BY <1>6, CommitFrameKeeps
<1>7. CASE sync_frame(c)
  BY <1>7, SyncFrameKeeps
<1>8. CASE append_commit(c)
  BY <1>8, AppendCommitKeeps
<1>9. CASE publish_commit(c)
  BY <1>9, PublishCommitKeeps
<1>10. CASE sqlite3WalUndo(c)
  BY <1>10, UndoKeeps
<1>11. CASE walRestartLog(c)
  BY <1>11, RestartLogKeeps
<1>12. CASE restart_not_possible(c)
  BY <1>12, RestartNotPossibleKeeps
<1>13. CASE restart_publish(c)
  BY <1>13, RestartPublishKeeps
<1>14. CASE restart_reset(c)
  BY <1>14, RestartResetKeeps
<1>15. CASE restart_marks(c)
  BY <1>15, RestartMarksKeeps
<1> QED
  BY <1>1, <1>2, <1>3, <1>4, <1>5, <1>6, <1>7, <1>8, <1>9, <1>10, <1>11, <1>12, <1>13, <1>14, <1>15
     DEF Write, Restart

LEMMA CheckpointStepKeeps ==
  ASSUME WInv, NEW c \in Conn, Checkpoint(c)
  PROVE  WInv'
<1>1. ASSUME NEW mode \in Modes, sqlite3WalCheckpoint(c, mode) PROVE WInv'
  BY <1>1, BeginCheckpointKeeps
<1>2. CASE ck_start(c)
  BY <1>2, CheckpointStartKeeps
<1>3. CASE ck_slot(c)
  BY <1>3, CheckpointSlotKeeps
<1>4. CASE ck_lock(c)
  BY <1>4, CheckpointLockKeeps
<1>5. CASE ck_done(c)
  BY <1>5, CheckpointDoneKeeps
<1>6. ASSUME NEW k \in pWal[c].plan, ck_copy(c, k) PROVE WInv'
  BY <1>6, CheckpointCopyKeeps
<1>7. CASE ck_truncate(c)
  BY <1>7, CheckpointTruncateKeeps
<1>8. CASE truncate_wal(c)
  BY <1>8, TruncateKeeps
<1>9. CASE ck_return(c)
  BY <1>9, CheckpointReturnKeeps
<1> QED
  BY <1>1, <1>2, <1>3, <1>4, <1>5, <1>6, <1>7, <1>8, <1>9 DEF Checkpoint

LEMMA SameKeeps ==
  ASSUME WInv, UNCHANGED vars
  PROVE  WInv'
<1> USE DEF vars, files, shm, locks, bounds
<1>1. /\ UNCHANGED <<db, dbOlder, wal, walOlder, walHdr, walHdrOlder, walTruncated>>
      /\ UNCHANGED <<aHdr, nBackfill, aReadMark, aPgno, shared, exclusive, pWal>>
      /\ UNCHANGED <<nTxn, nFault, fullSync>>
  OBVIOUS
<1>2. FilesTyped'
  <2>1. \A f : LogTyped(f)' <=> LogTyped(f)
    BY <1>1 DEF LogTyped, MayHold
  <2> QED
    BY <1>1, <2>1 DEF WInv, FilesTyped, MayHold
<1>3. SharedTyped' /\ Exclusion'
  BY <1>1 DEF WInv, SharedTyped, Exclusion, HdrBounded
<1>4. LogOK' /\ NBackfillInLog'
  BY <1>1, LogSame DEF WInv, NBackfillInLog, Restarting, At
<1>5. ASSUME NEW c \in Conn PROVE ConnOK(c)'
  <2>1. ConnOK(c)
    BY DEF WInv
  <2>2. Holds(c)' /\ Control(c)' /\ RestartOK(c)' /\ CheckpointOK(c)' /\ ReaderOK(c)'
    BY <1>1, <2>1 DEF ConnOK, Holds, Control, HdrBounded, RestartOK, CheckpointOK, Copies,
                      ReaderOK, Last
  <2>3. \A h : (Chain(h)' <=> Chain(h)) /\ (CommitChain(h)' <=> CommitChain(h))
               /\ (HeadWritten(h)' <=> HeadWritten(h))
    BY <1>1 DEF CommitChain, Chain, ValidFrame, HeadWritten
  <2>4. Spilled(c)' = Spilled(c) /\ (NextWritten(c)' <=> NextWritten(c))
    BY <1>1 DEF Spilled, NextWritten, NextFrame
  <2>5. WriterOK(c)' /\ RecoveryOK(c)'
    BY <1>1, <2>1, <2>3, <2>4 DEF ConnOK, WriterOK, RecoveryOK
  <2> QED
    BY <2>2, <2>5 DEF ConnOK
<1>6. RestartAlone' /\ ReadersRespected'
  BY <1>1 DEF WInv, RestartAlone, ReadersRespected, At, Copies, Passed, Last
<1> QED
  BY <1>2, <1>3, <1>4, <1>5, <1>6 DEF WInv

LEMMA NextInv ==
  ASSUME WInv, ~StaleCheckpoints, ~RestartCrash, [Next]_vars
  PROVE  WInv'
<1>1. CASE UNCHANGED vars
  BY <1>1, SameKeeps
<1>2. CASE PowerLoss
  BY <1>2, PowerLossKeeps
<1>3. ASSUME NEW c \in Conn, sqlite3WalOpen(c) PROVE WInv'
  BY <1>3, OpenKeeps
<1>4. ASSUME NEW c \in Conn, Crash(c) PROVE WInv'
  BY <1>4, CrashKeeps
<1>5. ASSUME NEW c \in Conn, ReadHdr(c) \/ Read(c) PROVE WInv'
  BY <1>5, ReadStepKeeps
<1>6. ASSUME NEW c \in Conn, Write(c) \/ Restart(c) PROVE WInv'
  BY <1>6, WriteStepKeeps
<1>7. ASSUME NEW c \in Conn, Checkpoint(c) PROVE WInv'
  BY <1>7, CheckpointStepKeeps
<1> QED
  BY <1>1, <1>2, <1>3, <1>4, <1>5, <1>6, <1>7 DEF Next

LEMMA WInvAlways ==
  ASSUME ~StaleCheckpoints, ~RestartCrash
  PROVE  Spec => []WInv
<1>1. Init => WInv
  BY InitInv
<1>2. WInv /\ [Next]_vars => WInv'
  BY NextInv
<1> QED
  BY <1>1, <1>2, PTL DEF Spec


\* The shapes of the files, the wal-index and the Wal objects hold in every
\* state, and no connection holds a lock that another one holds exclusively, for
\* any connections, pages, slots and transactions, with processes that die and
\* power that fails: walLockShared and walLockExclusive are taken and given up by
\* every function of wal.c so that a writer always has the WRITE lock and a
\* reader that of its read mark.  (For logs whose restart leaves alone the
\* checkpointers that have read the header, and is not cut short between the
\* header and nBackfill: wal_reset.cfg shows the first of these going wrong.)
THEOREM WalTyped ==
  ASSUME ~StaleCheckpoints, ~RestartCrash
  PROVE  Spec => []TypeOK
<1>1. WInv => TypeOK
  <2> SUFFICES ASSUME WInv PROVE TypeOK
    OBVIOUS
  <2>1. /\ db \in [Page -> 0 .. MaxTxn + 1]
        /\ \A k \in Frames : {wal[k]} \cup walOlder[k] \subseteq Frame \cup {None}
        /\ {walHdr} \cup walHdrOlder \subseteq WalHdr \cup {None}
    BY DEF WInv, FilesTyped, LogTyped, Image
  <2>2. /\ {aHdr[0], aHdr[1]} \subseteq Header \cup {None}
        /\ nBackfill \in 0 .. MaxFrame
        /\ aReadMark \in [Slots -> 0 .. READMARK_NOT_USED]
        /\ aPgno \in [Frames -> Page \cup {None}]
        /\ nTxn \in Txn /\ nFault \in 0 .. MaxFault
    BY DEF WInv, SharedTyped
  <2>3. ASSUME NEW c \in Conn
        PROVE  /\ pWal[c].hdr \in Header \cup {None}
               /\ pWal[c].readLock >= 0 => READ_LOCK(pWal[c].readLock) \in shared[c]
               /\ pWal[c].txn # 0 => WRITE \in exclusive[c]
               /\ shared[c] \subseteq {READ_LOCK(i) : i \in 0 .. NSlot}
               /\ \A d \in Conn \ {c} : exclusive[c] \cap (shared[d] \cup exclusive[d]) = {}
    <3>1. Holds(c) /\ SharedTyped /\ Exclusion
      BY DEF WInv, ConnOK
    <3>2. pWal[c].hdr \in Header \cup {None}
      BY <3>1, ObjectTypes
    <3> QED
      BY <3>1, <3>2 DEF Holds, SharedTyped, Exclusion
  <2> QED
    BY <2>1, <2>2, <2>3 DEF TypeOK
<1> QED
  BY <1>1, WInvAlways, PTL

\* However checkpoints, commits, restarts of the log, recoveries and crashes
\* interleave, nBackfill counts frames of the log that is there: what walCheckpoint
\* stores, under CKPT and READ_LOCK(0), is not beyond the header it read, and a
\* restart or a recovery, under the WRITE lock, brings it back to 0.  (A
\* checkpointer that has read the header and not yet nBackfill breaks it,
\* wal_reset.cfg: ~StaleCheckpoints.)
THEOREM NBackfillStaysInLog ==
  ASSUME ~StaleCheckpoints, ~RestartCrash
  PROVE  Spec => []NBackfillInLog
<1>1. WInv => NBackfillInLog
  BY DEF WInv
<1> QED
  BY <1>1, WInvAlways, PTL

\* No checkpoint copies a frame into the database that is beyond the snapshot of
\* a reader of the log, nor counts one in nBackfill; and the reader's mark and its
\* first look at nBackfill stay within the snapshot, whoever commits, restarts
\* the log, recovers the index, dies, or takes over a slot in between: the second
\* look of walTryBeginRead at its mark and the header, and the locks that
\* walCheckpoint takes on the marks, are enough.
THEOREM SnapshotsStayProtected ==
  ASSUME ~StaleCheckpoints, ~RestartCrash
  PROVE  Spec => []SnapshotsProtected
<1>1. WInv => SnapshotsProtected
  <2> SUFFICES ASSUME WInv, NEW c \in Conn, pWal[c].readLock > 0
               PROVE  /\ {aReadMark[pWal[c].readLock], pWal[c].minFrame - 1, nBackfill}
                           \subseteq 0 .. pWal[c].hdr.mxFrame
                      /\ \A d \in Conn : At(d, "ck_copy") => pWal[d].mxSafe <= pWal[c].hdr.mxFrame
    BY DEF SnapshotsProtected
  <2> DEFINE last == pWal[c].hdr.mxFrame
  <2>1. ReaderOK(c) /\ Control(c) /\ pWal[c].readLock \in -1 .. NSlot
    BY ObjectTypes DEF WInv, ConnOK
  <2>2. Last(c) \in Nat /\ last \in Nat /\ Last(c) <= last
    <3>1. pWal[c].hdr # None
      BY <2>1 DEF Control, WithoutHdr, FrameSteps, RestartSteps
    <3> QED
      BY <2>1, <3>1, LastTypes, ObjectTypes DEF WInv, ReaderOK
  <2>3. {aReadMark[pWal[c].readLock], pWal[c].minFrame - 1, nBackfill} \subseteq 0 .. Last(c)
    BY <2>1 DEF ReaderOK
  <2>4. 0 .. Last(c) \subseteq 0 .. last
    BY <2>2
  <2>5. ASSUME NEW d \in Conn, At(d, "ck_copy") PROVE pWal[d].mxSafe <= last
    <3>1. pWal[d].mxSafe <= Last(c) /\ pWal[d].mxSafe \in Nat
      BY <2>5, CopiedInSnapshots, ObjectTypes DEF WInv, At
    <3> QED
      BY <2>2, <3>1
  <2> QED
    BY <2>3, <2>4, <2>5
<1> QED
  BY <1>1, WInvAlways, PTL


-----------------------------------------------------------------------------
(* What the log must hold until it begins anew *)

\* A copy that is complete has been synced; nBackfill > 0 leaves out the log that
\* has just begun.
CopiedIsSynced ==
  aHdr[0] # None /\ nBackfill > 0 /\ nBackfill = aHdr[0].mxFrame
    => \A p \in Page : dbOlder[p] = {}

\* A checkpointer that holds the WRITE lock has the header that is published.
Truncating(c) ==
  pWal[c].mode \in {"FULL", "TRUNCATE"} /\ pWal[c].pc \in CheckpointSteps \ {"ck_return"}

CopyInv ==
  /\ CopiedIsSynced
  /\ \A c \in Conn : At(c, "restart_publish") => nBackfill = aHdr[0].mxFrame
  /\ \A c \in Conn : Truncating(c) => pWal[c].hdr = aHdr[0]

\* A step that publishes nothing and copies nothing.
Calm(c) ==
  /\ aHdr'[0] = aHdr[0] /\ nBackfill' = nBackfill /\ dbOlder' = dbOlder
  /\ \A d \in Conn \ {c} : pWal'[d] = pWal[d]
  /\ pWal'[c].pc = "restart_publish" => nBackfill = aHdr[0].mxFrame
  /\ Truncating(c)' => pWal'[c].hdr = aHdr[0]

LEMMA CalmKeeps ==
  ASSUME CopyInv, NEW c \in Conn, Calm(c)
  PROVE  CopyInv'
<1>1. CopiedIsSynced'
  BY DEF CopyInv, Calm, CopiedIsSynced
<1>2. ASSUME NEW d \in Conn
      PROVE  /\ pWal'[d].pc = "restart_publish" => nBackfill' = aHdr'[0].mxFrame
             /\ Truncating(d)' => pWal'[d].hdr = aHdr'[0]
  BY DEF CopyInv, Calm, At, Truncating
<1> QED
  BY <1>1, <1>2 DEF CopyInv, At

LEMMA ReadsCalmly ==
  ASSUME WInv, CopyInv, NEW c \in Conn,
         \/ read_hdr(c) \/ hdr_busy(c) \/ walIndexRecover(c) \/ recover_marks(c) \/ Read(c)
  PROVE  Calm(c)
<1> USE DEF At, Truncating, CheckpointSteps
<1>1. SharedTyped /\ pWal[c] \in WalObject /\ DOMAIN pWal = Conn /\ DOMAIN aHdr = 0 .. 1
  BY ObjectTypes DEF WInv, SharedTyped
<1>2. CASE read_hdr(c)
  <2> DEFINE w == [WithHdr(pWal[c], aHdr[0]) EXCEPT !.pc = AfterHdr(c)]
  <2>1. /\ pWal' = [pWal EXCEPT ![c] = w] /\ UNCHANGED <<files, shm>> /\ aHdr[0] \in Header
    BY <1>1, <1>2, NoneAssumption DEF read_hdr, walIndexTryHdr, GoodHdr, SharedTyped
  <2>2. AfterHdr(c) \in {"try", "ck_start"} /\ AfterHdr(c) \in Labels
    BY DEF AfterHdr, Labels
  <2>3. w.hdr = aHdr[0] /\ w.pc = AfterHdr(c)
    BY <1>1, <2>1, <2>2, WithHdrFacts
  <2> HIDE DEF w
  <2> QED
    BY <1>1, <2>1, <2>2, <2>3 DEF Calm, files, shm
<1>3. CASE hdr_busy(c)
  BY <1>1, <1>3 DEF hdr_busy, Goto, Calm, files, shm, WalObject
<1>4. CASE walIndexRecover(c)
  <2>1. PICK h : /\ pWal' = [pWal EXCEPT ![c] = pWal'[c]] /\ pWal'[c].pc = "recover_publish"
                 /\ aHdr' = [aHdr EXCEPT ![1] = h] /\ UNCHANGED <<files, nBackfill>>
    <3>1. PICK h, seq :
            /\ pWal' = [pWal EXCEPT ![c].pc = "recover_publish", ![c].hdr = h, ![c].nCkpt = seq]
            /\ aHdr' = [aHdr EXCEPT ![1] = h]
      BY <1>4 DEF walIndexRecover
    <3>2. UNCHANGED <<files, nBackfill>>
      BY <1>4 DEF walIndexRecover
    <3> QED
      BY <1>1, <3>1, <3>2 DEF WalObject
  <2> QED
    BY <1>1, <2>1 DEF Calm, files
<1>5. CASE recover_marks(c)
  <2>1. /\ pWal' = [pWal EXCEPT ![c] = [Changed(pWal[c]) EXCEPT !.pc = AfterHdr(c)]]
        /\ UNCHANGED <<files, aHdr, nBackfill>> /\ pWal[c].hdr = aHdr[0]
    BY <1>5 DEF recover_marks, WInv, ConnOK, RecoveryOK
  <2>2. pWal'[c].hdr = pWal[c].hdr /\ pWal'[c].pc \in {"try", "ck_start"}
    BY <1>1, <2>1 DEF Changed, AfterHdr, WalObject
  <2> QED
    BY <1>1, <2>1, <2>2 DEF Calm, files
<1>6. CASE Read(c)
  <2>1. /\ UNCHANGED <<files, aHdr, nBackfill>> /\ \A d \in Conn \ {c} : pWal'[d] = pWal[d]
    BY <1>1, <1>6 DEF Read, read_without_wal, choose_mark, lock_slot, verify_slot,
                      sqlite3WalEndReadTransaction, Retry, shm
  <2>2. pWal'[c].pc \in {"reading", "rebegin", "hdr", "slot", "verify", "idle", "restart", "header", "frame"}
    <3>1. CASE read_without_wal(c)
      <4>1. CASE Retry(c)
        BY <1>1, <4>1 DEF Retry, WalObject
      <4>2. CASE pWal' = [pWal EXCEPT ![c] = Begun(pWal[c], 0)]
        BY <1>1, <4>2 DEF Begun, WalObject
      <4> QED
        BY <3>1, <4>1, <4>2 DEF read_without_wal
    <3>2. CASE choose_mark(c)
      <4>1. PICK i, m : pWal' = [pWal EXCEPT ![c].pc = "slot", ![c].slot = i, ![c].mark = m]
        BY <3>2 DEF choose_mark
      <4> QED
        BY <1>1, <4>1 DEF WalObject
    <3>3. CASE lock_slot(c)
      BY <1>1, <3>3 DEF lock_slot, Retry, WalObject
    <3>4. CASE verify_slot(c)
      <4>1. CASE Retry(c)
        BY <1>1, <4>1 DEF Retry, WalObject
      <4>2. CASE ~Retry(c)
        <5> DEFINE w == [pWal[c] EXCEPT !.readLock = pWal[c].slot]
        <5>1. pWal' = [pWal EXCEPT ![c] =
                         IF w.txn = 0 THEN Begun(w, w.slot)
                         ELSE [w EXCEPT !.pc = FrameStep(w), !.slot = 0, !.mark = 0]]
          BY <3>4, <4>2 DEF verify_slot
        <5>2. Begun(w, w.slot).pc = "reading"
          BY <1>1 DEF Begun, WalObject
        <5>3. [w EXCEPT !.pc = FrameStep(w), !.slot = 0, !.mark = 0].pc = FrameStep(w)
          BY <1>1 DEF WalObject
        <5> HIDE DEF w
        <5>4. FrameStep(w) \in {"restart", "header", "frame"}
          BY DEF FrameStep
        <5> QED
          BY <1>1, <5>1, <5>2, <5>3, <5>4
      <4> QED
        BY <4>1, <4>2
    <3>5. CASE sqlite3WalEndReadTransaction(c)
      BY <1>1, <3>5 DEF sqlite3WalEndReadTransaction, WalObject
    <3> QED
      BY <1>6, <3>1, <3>2, <3>3, <3>4, <3>5 DEF Read
  <2> QED
    BY <2>1, <2>2 DEF Calm, files
<1> QED
  BY <1>2, <1>3, <1>4, <1>5, <1>6

LEMMA WritesCalmly ==
  ASSUME WInv, CopyInv, NEW c \in Conn,
         \/ Write(c) /\ ~publish_commit(c)
         \/ walRestartLog(c) \/ restart_not_possible(c) \/ restart_marks(c)
  PROVE  Calm(c)
<1> USE DEF At, Truncating, CheckpointSteps
<1>1. SharedTyped /\ pWal[c] \in WalObject /\ DOMAIN pWal = Conn /\ DOMAIN aHdr = 0 .. 1
  BY ObjectTypes DEF WInv, SharedTyped
<1>2. CASE walRestartLog(c)
  <2>1. pWal[c].readLock = 0 /\ pWal[c].txn # 0 /\ WriterOK(c) /\ ReaderOK(c) /\ nBackfill > 0
    BY <1>2, AtReading DEF walRestartLog
  <2>2. nBackfill = aHdr[0].mxFrame
    BY <1>2, <2>1 DEF walRestartLog, WriterOK, ReaderOK
  <2>3. PICK h : /\ pWal'[c].pc = "restart_publish" /\ pWal' = [pWal EXCEPT ![c] = pWal'[c]]
                 /\ aHdr' = [aHdr EXCEPT ![1] = h] /\ UNCHANGED <<files, nBackfill>>
    BY <1>1, <1>2 DEF walRestartLog, RestartHdr, WalObject
  <2> QED
    BY <1>1, <2>2, <2>3 DEF Calm, files
<1>3. CASE restart_not_possible(c)
  BY <1>1, <1>3 DEF restart_not_possible, Calm, files, shm, WalObject
<1>4. CASE restart_marks(c)
  BY <1>1, <1>4 DEF restart_marks, RestartMarks, Calm, files, WalObject
<1>5. ASSUME NEW p \in Page, NEW commit \in BOOLEAN, walFrames(c, p, commit)
      PROVE  Calm(c)
  BY <1>1, <1>5 DEF walFrames, FrameStep, Calm, files, shm, WalObject
<1>6. CASE sqlite3WalBeginWriteTransaction(c)
  BY <1>1, <1>6 DEF sqlite3WalBeginWriteTransaction, Calm, files, shm, WalObject
<1>7. CASE write_wal_header(c)
  BY <1>1, <1>7 DEF write_wal_header, Calm, shm, WalObject
<1>8. CASE sync_wal_header(c) \/ sync_frame(c)
  BY <1>1, <1>8 DEF sync_wal_header, sync_frame, SyncWal, Goto, Calm, shm, WalObject
<1>9. CASE spill_frame(c)
  BY <1>1, <1>9 DEF spill_frame, WriteNextFrame, WriteFrame, Calm, WalObject
<1>10. CASE commit_frame(c)
  BY <1>1, <1>10 DEF commit_frame, WriteNextFrame, WriteFrame, Goto, Calm, shm, WalObject
<1>11. CASE append_commit(c)
  BY <1>1, <1>11 DEF append_commit, Calm, files, WalObject
<1>12. CASE sqlite3WalUndo(c)
  BY <1>1, <1>12 DEF sqlite3WalUndo, Calm, files, WalObject
<1> QED
  BY <1>2, <1>3, <1>4, <1>5, <1>6, <1>7, <1>8, <1>9, <1>10, <1>11, <1>12 DEF Write

LEMMA ChecksCalmly ==
  ASSUME WInv, CopyInv, NEW c \in Conn,
         \/ Checkpoint(c) /\ ~ck_done(c) /\ \A k \in pWal[c].plan : ~ck_copy(c, k)
         \/ Crash(c)
  PROVE  Calm(c)
<1> USE DEF At, Truncating, CheckpointSteps
<1>1. SharedTyped /\ pWal[c] \in WalObject /\ DOMAIN pWal = Conn /\ DOMAIN aHdr = 0 .. 1
  BY ObjectTypes DEF WInv, SharedTyped
<1>2. ASSUME NEW mode \in Modes, sqlite3WalCheckpoint(c, mode) PROVE Calm(c)
  <2>1. PICK own \in BOOLEAN :
          /\ pWal' = [pWal EXCEPT ![c].pc = "hdr", ![c].mode = IF own THEN mode ELSE "PASSIVE"]
          /\ UNCHANGED <<files, shm>>
    BY <1>2 DEF sqlite3WalCheckpoint
  <2>2. pWal'[c].pc = "hdr" /\ \A d \in Conn \ {c} : pWal'[d] = pWal[d]
    BY <1>1, <2>1 DEF WalObject
  <2> QED
    BY <2>1, <2>2 DEF Calm, files, shm
<1>3. Truncating(c) => pWal[c].hdr = aHdr[0]
  BY DEF CopyInv
<1>4. CASE ck_start(c)
  <2>1. PICK label \in {"ck_slots", "ck_end"} :
          /\ pWal' = [pWal EXCEPT ![c].pc = label, ![c].slot = 1, ![c].mxSafe = pWal[c].hdr.mxFrame]
          /\ UNCHANGED <<files, shm>> /\ pWal[c].pc = "ck_start"
    BY <1>4 DEF ck_start
  <2>2. /\ pWal'[c].pc = label /\ pWal'[c].hdr = pWal[c].hdr /\ pWal'[c].mode = pWal[c].mode
        /\ \A d \in Conn \ {c} : pWal'[d] = pWal[d]
    BY <1>1, <2>1 DEF WalObject
  <2> QED
    BY <1>3, <2>1, <2>2 DEF Calm, files, shm
<1>5. CASE ck_slot(c)
  <2> DEFINE i == pWal[c].slot
             below == aReadMark[i] < pWal[c].mxSafe
             safe == IF below /\ InUse(c, i) THEN aReadMark[i] ELSE pWal[c].mxSafe
             last == i = NSlot
             copies == last /\ nBackfill < safe
             label == IF ~last THEN pWal[c].pc ELSE IF copies THEN "ck_lock" ELSE "ck_end"
             plan == IF copies THEN Plan(c, safe) ELSE {}
             slot == IF last THEN 0 ELSE i + 1
  <2>1. pWal' = [pWal EXCEPT ![c] = [pWal[c] EXCEPT !.mxSafe = safe, !.slot = slot, !.pc = label,
                                                    !.plan = plan]]
    BY <1>1, <1>5 DEF ck_slot
  <2>2. /\ UNCHANGED <<files, aHdr, nBackfill>> /\ pWal[c].pc = "ck_slots"
        /\ label \in {"ck_slots", "ck_lock", "ck_end"}
    BY <1>5 DEF ck_slot
  <2> HIDE DEF safe, slot, label, plan
  <2>3. /\ pWal'[c].pc = label /\ pWal'[c].hdr = pWal[c].hdr /\ pWal'[c].mode = pWal[c].mode
        /\ \A d \in Conn \ {c} : pWal'[d] = pWal[d]
    BY <1>1, <2>1 DEF WalObject
  <2> QED
    BY <1>3, <2>2, <2>3 DEF Calm, files
<1>6. CASE ck_lock(c)
  BY <1>1, <1>3, <1>6 DEF ck_lock, SyncBeforeCopy, SyncWal, Goto, Calm, files, shm, WalObject
<1>7. CASE ck_truncate(c)
  <2>1. /\ pWal[c].mode = "TRUNCATE" /\ pWal[c].pc = "ck_end" /\ nBackfill >= pWal[c].hdr.mxFrame
        /\ pWal[c].hdr = aHdr[0]
    BY <1>3, <1>7 DEF ck_truncate, CanTruncate
  <2>2. aHdr[0] # None /\ Holds(c) /\ Control(c)
    BY <2>1, AtCheckpoint DEF WInv, ConnOK, Control, WithoutHdr
  <2>3. aHdr[0].mxFrame \in Nat /\ nBackfill \in Nat
    BY <1>1, <2>2 DEF SharedTyped, Header
  <2>4. ~Restarting
    <3>1. \A d \in Conn \ {c} : WRITE \notin exclusive[d]
      BY <2>1, <2>2 DEF Holds, WInv, Exclusion
    <3> QED
      BY <2>1, <3>1, NobodyRestarts DEF RestartSteps
  <2>5. nBackfill = aHdr[0].mxFrame
    BY <2>1, <2>2, <2>3, <2>4 DEF WInv, NBackfillInLog
  <2>6. PICK h : /\ pWal'[c].pc = "restart_publish" /\ pWal' = [pWal EXCEPT ![c] = pWal'[c]]
                 /\ aHdr' = [aHdr EXCEPT ![1] = h] /\ UNCHANGED <<files, nBackfill>>
    BY <1>1, <1>7 DEF ck_truncate, RestartHdr, WalObject
  <2> QED
    BY <1>1, <2>5, <2>6 DEF Calm, files
<1>8. CASE truncate_wal(c)
  BY <1>1, <1>8 DEF truncate_wal, RestartMarks, Goto, Calm, WalObject
<1>9. CASE ck_return(c)
  BY <1>1, <1>9 DEF ck_return, Closed, Calm, files, shm
<1>10. CASE Crash(c)
  BY <1>1, <1>10 DEF Crash, Closed, Calm, files, shm
<1> QED
  BY <1>2, <1>4, <1>5, <1>6, <1>7, <1>8, <1>9, <1>10 DEF Checkpoint


LEMMA CopyKeeps ==
  ASSUME WInv, CopyInv, NEW c \in Conn, NEW k \in pWal[c].plan, ck_copy(c, k)
  PROVE  CopyInv'
<1>1. /\ SharedTyped /\ pWal[c] \in WalObject /\ DOMAIN pWal = Conn
      /\ pWal[c].pc = "ck_copy" /\ pWal'[c].pc = "ck_copy" /\ pWal'[c].mode = pWal[c].mode
      /\ pWal'[c].hdr = pWal[c].hdr
      /\ aHdr' = aHdr /\ nBackfill' = nBackfill /\ \A d \in Conn \ {c} : pWal'[d] = pWal[d]
  BY ObjectTypes DEF WInv, SharedTyped, ck_copy, At, shm, WalObject
<1>2. nBackfill < aHdr[0].mxFrame
  <2>1. nBackfill < pWal[c].hdr.mxFrame /\ pWal[c].hdr.mxFrame <= aHdr[0].mxFrame
    BY <1>1 DEF WInv, ConnOK, CheckpointOK, Copies
  <2>2. pWal[c].hdr.mxFrame \in Nat /\ aHdr[0] \in Header
    BY <1>1, AtCheckpoint DEF CheckpointSteps
  <2> QED
    BY <1>1, <2>1, <2>2 DEF SharedTyped, Header
<1>3. CopiedIsSynced'
  BY <1>1, <1>2 DEF CopiedIsSynced, SharedTyped
<1>4. ASSUME NEW d \in Conn
      PROVE  /\ pWal'[d].pc = "restart_publish" => nBackfill' = aHdr'[0].mxFrame
             /\ Truncating(d)' => pWal'[d].hdr = aHdr'[0]
  BY <1>1 DEF CopyInv, At, Truncating
<1> QED
  BY <1>3, <1>4 DEF CopyInv, At

LEMMA DoneKeeps ==
  ASSUME WInv, CopyInv, NEW c \in Conn, ck_done(c)
  PROVE  CopyInv'
<1>1. /\ SharedTyped /\ pWal[c] \in WalObject /\ DOMAIN pWal = Conn
      /\ pWal[c].pc = "ck_copy" /\ pWal'[c].pc = "ck_end" /\ pWal'[c].mode = pWal[c].mode
      /\ pWal'[c].hdr = pWal[c].hdr /\ aHdr' = aHdr /\ nBackfill' = pWal[c].mxSafe
      /\ dbOlder' = SyncedWhenComplete(c) /\ \A d \in Conn \ {c} : pWal'[d] = pWal[d]
  BY ObjectTypes DEF WInv, SharedTyped, ck_done, At, WalObject
<1>2. CopiedIsSynced'
  BY <1>1 DEF CopiedIsSynced, SyncedWhenComplete
<1>3. ASSUME NEW d \in Conn, pWal'[d].pc = "restart_publish" PROVE FALSE
  <2>1. d # c /\ pWal[d].pc = "restart_publish"
    BY <1>1, <1>3
  <2>2. pWal[d].mode # "READ"
    BY <1>1, <2>1 DEF WInv, RestartAlone, Copies, At
  <2>3. CKPT \in exclusive[d]
    BY <2>2 DEF WInv, ConnOK, Holds
  <2>4. pWal[c].mode # "READ" /\ CKPT \in exclusive[c]
    BY <1>1 DEF WInv, ConnOK, Control, Holds, CheckpointSteps
  <2> QED
    BY <2>1, <2>3, <2>4 DEF WInv, Exclusion
<1>4. ASSUME NEW d \in Conn PROVE Truncating(d)' => pWal'[d].hdr = aHdr'[0]
  BY <1>1 DEF CopyInv, Truncating, CheckpointSteps
<1> QED
  BY <1>2, <1>3, <1>4 DEF CopyInv, At

\* While another connection holds the WRITE lock nobody restarts the log and no
\* checkpointer holds it.
LEMMA WriterAlone ==
  ASSUME WInv, NEW c \in Conn, WRITE \in exclusive[c], NEW d \in Conn \ {c}
  PROVE  pWal[d].pc # "restart_publish" /\ ~Truncating(d)
<1>1. WRITE \notin exclusive[d]
  BY DEF WInv, Exclusion
<1>2. pWal[d].pc # "restart_publish"
  BY <1>1, AtRestart DEF RestartSteps
<1> QED
  BY <1>1, <1>2 DEF WInv, ConnOK, Holds, Truncating

LEMMA IndexKeepsCopied ==
  ASSUME WInv, CopyInv, NEW c \in Conn,
         \/ recover_publish(c) \/ recover_reset(c) \/ restart_publish(c) \/ restart_reset(c)
         \/ publish_commit(c)
  PROVE  CopyInv'
<1>1. /\ SharedTyped /\ pWal[c] \in WalObject /\ DOMAIN pWal = Conn /\ DOMAIN aHdr = 0 .. 1
      /\ nBackfill \in Nat
  BY ObjectTypes DEF WInv, SharedTyped
<1>2. /\ WRITE \in exclusive[c] /\ dbOlder' = dbOlder
      /\ pWal'[c].pc \notin CheckpointSteps \cup {"restart_publish"}
      /\ \A d \in Conn \ {c} : pWal'[d] = pWal[d]
  <2>1. CASE recover_publish(c) \/ recover_reset(c)
    <3>1. WRITE \in exclusive[c]
      BY <2>1, AtRecovery DEF recover_publish, recover_reset, At, Recovering
    <3> QED
      BY <1>1, <2>1, <3>1
         DEF recover_publish, recover_reset, Goto, files, CheckpointSteps, WalObject
  <2>2. CASE restart_publish(c) \/ restart_reset(c)
    <3>1. WRITE \in exclusive[c]
      BY <2>2, AtRestart DEF restart_publish, restart_reset, At, RestartSteps
    <3> QED
      BY <1>1, <2>2, <3>1
         DEF restart_publish, restart_reset, Goto, files, CheckpointSteps, WalObject
  <2>3. CASE publish_commit(c)
    <3>1. WRITE \in exclusive[c]
      BY <2>3, AtFrame DEF publish_commit, At, FrameSteps
    <3> QED
      BY <1>1, <2>3, <3>1 DEF publish_commit, files, CheckpointSteps, WalObject
  <2> QED
    BY <2>1, <2>2, <2>3
<1>3. ASSUME NEW d \in Conn PROVE pWal'[d].pc # "restart_publish" /\ ~Truncating(d)'
  <2>1. CASE d = c
    BY <1>2, <2>1 DEF Truncating
  <2>2. CASE d # c
    BY <1>2, <2>2, WriterAlone DEF Truncating
  <2> QED
    BY <2>1, <2>2
<1>4. CopiedIsSynced'
  <2>1. CASE recover_reset(c) \/ restart_reset(c)
    BY <2>1 DEF recover_reset, restart_reset, CopiedIsSynced
  <2>2. CASE restart_publish(c)
    <3>1. pWal[c].hdr.mxFrame = 0 /\ aHdr'[0] = pWal[c].hdr /\ nBackfill' = nBackfill
      BY <1>1, <2>2 DEF restart_publish, At, WInv, ConnOK, RestartOK, RestartSteps
    <3> QED
      BY <1>1, <3>1 DEF CopiedIsSynced
  <2>3. CASE recover_publish(c) \/ publish_commit(c)
    <3>1. /\ aHdr'[0] = pWal[c].hdr /\ nBackfill' = nBackfill
          /\ pWal[c].hdr \in Header /\ (aHdr[0] # None => aHdr[0].mxFrame <= pWal[c].hdr.mxFrame)
      <4>1. CASE recover_publish(c)
        BY <1>1, <4>1, AtRecovery DEF recover_publish, At, Recovering, RecoveryOK
      <4>2. CASE publish_commit(c)
        BY <1>1, <4>2, AtFrame DEF publish_commit, At, FrameSteps, WriterOK, RestartSteps
      <4> QED
        BY <2>3, <4>1, <4>2
    <3>2. CASE aHdr[0] = None
      BY <3>1, <3>2 DEF WInv, LogOK, CopiedIsSynced
    <3>3. CASE aHdr[0] # None
      <4>1. ~Restarting
        <5>1. \A d \in Conn \ {c} : WRITE \notin exclusive[d]
          BY <1>2 DEF WInv, Exclusion
        <5>2. pWal[c].pc \notin RestartSteps
          BY <2>3 DEF recover_publish, publish_commit, At, RestartSteps
        <5> QED
          BY <5>1, <5>2, NobodyRestarts
      <4>2. nBackfill <= aHdr[0].mxFrame /\ aHdr[0].mxFrame \in Nat /\ pWal[c].hdr.mxFrame \in Nat
        BY <1>1, <3>1, <3>3, <4>1 DEF WInv, NBackfillInLog, SharedTyped, Header
      <4>3. nBackfill = pWal[c].hdr.mxFrame => nBackfill = aHdr[0].mxFrame
        BY <1>1, <3>1, <3>3, <4>2
      <4> QED
        BY <1>2, <3>1, <3>3, <4>3 DEF CopyInv, CopiedIsSynced
    <3> QED
      BY <3>2, <3>3
  <2> QED
    BY <2>1, <2>2, <2>3
<1> QED
  BY <1>3, <1>4 DEF CopyInv, At

LEMMA OpenKeepsCopied ==
  ASSUME WInv, CopyInv, PowerLoss \/ \E c \in Conn : sqlite3WalOpen(c)
  PROVE  CopyInv'
<1>1. CASE PowerLoss
  <2>1. aHdr'[0] = None /\ \A c \in Conn : pWal'[c].pc = "closed"
    BY <1>1, ClosedType DEF PowerLoss
  <2> QED
    BY <2>1 DEF CopyInv, CopiedIsSynced, Truncating, CheckpointSteps, At
<1>2. ASSUME NEW c \in Conn, sqlite3WalOpen(c) PROVE CopyInv'
  <2>1. /\ pWal[c] \in WalObject /\ DOMAIN pWal = Conn /\ pWal'[c].pc = "idle"
        /\ dbOlder' = dbOlder /\ \A d \in Conn \ {c} : pWal'[d] = pWal[d]
    BY <1>2, ObjectTypes DEF WInv, sqlite3WalOpen, Goto, files, WalObject
  <2>2. CASE UNCHANGED shm
    <3>1. Calm(c)
      BY <2>1, <2>2 DEF Calm, shm, Truncating, CheckpointSteps
    <3> QED
      BY <3>1, CalmKeeps
  <2>3. CASE ~UNCHANGED shm
    <3>1. aHdr'[0] = None /\ \A d \in Conn \ {c} : pWal[d].pc = "closed"
      BY <1>2, <2>3 DEF sqlite3WalOpen, At
    <3> QED
      BY <2>1, <3>1 DEF CopyInv, CopiedIsSynced, Truncating, CheckpointSteps, At
  <2> QED
    BY <2>2, <2>3
<1> QED
  BY <1>1, <1>2


\* The steps that are not calm.
Publishes(c) ==
  \/ recover_publish(c) \/ recover_reset(c) \/ restart_publish(c) \/ restart_reset(c)
  \/ publish_commit(c)

LEMMA KindsOfSteps ==
  ASSUME WInv, CopyInv, Next
  PROVE  \/ PowerLoss \/ \E c \in Conn : sqlite3WalOpen(c)
         \/ \E c \in Conn :
              \/ Calm(c) \/ Publishes(c) \/ ck_done(c)
              \/ \E k \in pWal[c].plan : ck_copy(c, k)
<1>1. ASSUME NEW c \in Conn, ReadHdr(c) \/ Read(c) PROVE Calm(c) \/ Publishes(c)
  BY <1>1, ReadsCalmly DEF ReadHdr, Publishes
<1>2. ASSUME NEW c \in Conn, Write(c) \/ Restart(c) PROVE Calm(c) \/ Publishes(c)
  <2>1. CASE Write(c)
    BY <2>1, WritesCalmly DEF Publishes
  <2>2. CASE Restart(c)
    BY <2>2, WritesCalmly DEF Publishes, Restart
  <2> QED
    BY <1>2, <2>1, <2>2
<1>3. ASSUME NEW c \in Conn, Checkpoint(c) \/ Crash(c)
      PROVE  Calm(c) \/ ck_done(c) \/ \E k \in pWal[c].plan : ck_copy(c, k)
  BY <1>3, ChecksCalmly
<1> QED
  BY <1>1, <1>2, <1>3 DEF Next

LEMMA CopyInvNext ==
  ASSUME WInv, CopyInv, [Next]_vars
  PROVE  CopyInv'
<1>1. CASE UNCHANGED vars
  BY <1>1 DEF vars, files, shm, CopyInv, CopiedIsSynced, Truncating, At
<1>2. CASE PowerLoss \/ \E c \in Conn : sqlite3WalOpen(c)
  BY <1>2, OpenKeepsCopied
<1>3. ASSUME NEW c \in Conn, Calm(c) PROVE CopyInv'
  BY <1>3, CalmKeeps
<1>4. ASSUME NEW c \in Conn, Publishes(c) PROVE CopyInv'
  BY <1>4, IndexKeepsCopied DEF Publishes
<1>5. ASSUME NEW c \in Conn, ck_done(c) PROVE CopyInv'
  BY <1>5, DoneKeeps
<1>6. ASSUME NEW c \in Conn, NEW k \in pWal[c].plan, ck_copy(c, k) PROVE CopyInv'
  BY <1>6, CopyKeeps
<1> QED
  BY <1>1, <1>2, <1>3, <1>4, <1>5, <1>6, KindsOfSteps

LEMMA CopyInvInit ==
  ASSUME Init
  PROVE  CopyInv
BY ClosedType DEF Init, CopyInv, CopiedIsSynced, Truncating, CheckpointSteps, At

\* The header of a log that begins anew, in place of one that has frames.
Shrinks == aHdr[0] # None /\ aHdr'[0] # None /\ aHdr'[0].mxFrame < aHdr[0].mxFrame

LEMMA OnlyRestartsShrink ==
  ASSUME WInv, CopyInv, Next, Shrinks
  PROVE  \E c \in Conn : restart_publish(c)
<1>1. SharedTyped /\ (aHdr[0] # None => aHdr[0].mxFrame \in Nat)
  BY DEF WInv, SharedTyped, Header
<1>2. aHdr'[0] # aHdr[0] /\ aHdr[0].mxFrame \in Nat
  BY <1>1 DEF Shrinks
<1>3. ~PowerLoss
  BY DEF PowerLoss, Shrinks
<1>4. ASSUME NEW c \in Conn PROVE ~sqlite3WalOpen(c) /\ ~Calm(c) /\ ~ck_done(c)
  BY <1>2 DEF sqlite3WalOpen, Shrinks, shm, Calm, ck_done
<1>5. ASSUME NEW c \in Conn, NEW k \in pWal[c].plan PROVE ~ck_copy(c, k)
  BY <1>2 DEF ck_copy, shm
<1>6. ASSUME NEW c \in Conn, Publishes(c) PROVE restart_publish(c)
  <2>1. CASE recover_reset(c) \/ restart_reset(c)
    BY <1>2, <2>1 DEF recover_reset, restart_reset
  <2>2. CASE recover_publish(c) \/ publish_commit(c)
    <3>1. /\ aHdr'[0] = pWal[c].hdr /\ pWal[c].hdr.mxFrame \in Nat
          /\ aHdr[0].mxFrame <= pWal[c].hdr.mxFrame
      <4>1. CASE recover_publish(c)
        <5>1. aHdr'[0] = pWal[c].hdr
          BY <1>1, <4>1 DEF recover_publish, SharedTyped
        <5> QED
          BY <4>1, <5>1, AtRecovery DEF recover_publish, At, Recovering, RecoveryOK, Shrinks, Header
      <4>2. CASE publish_commit(c)
        <5>1. aHdr'[0] = pWal[c].hdr
          BY <1>1, <4>2 DEF publish_commit, SharedTyped
        <5> QED
          BY <4>2, <5>1, AtFrame DEF publish_commit, At, FrameSteps, WriterOK, RestartSteps
      <4> QED
        BY <2>2, <4>1, <4>2
    <3> QED
      BY <1>2, <3>1 DEF Shrinks
  <2> QED
    BY <1>6, <2>1, <2>2 DEF Publishes
<1> QED
  BY <1>3, <1>4, <1>5, <1>6, KindsOfSteps

\* walRestartHdr, called for a writer (walRestartLog) or a truncating checkpoint
\* (walCheckpoint), is the only step that takes committed frames out of the log;
\* when it does, all of them have been copied, the database with the copy has
\* been synced, and nobody reads from the log: what walCheckpoint asserts before
\* it, and what the sync before nBackfill is stored is for.  A recovery never
\* publishes a shorter log than the one it replaces.
THEOREM RestartedLogsAreCopied ==
  ASSUME ~StaleCheckpoints, ~RestartCrash
  PROVE  Spec => OnlyCopiedLogsRestart
<1> DEFINE Copied == /\ nBackfill = aHdr[0].mxFrame /\ \A p \in Page : dbOlder[p] = {}
                     /\ \A c \in Conn : pWal[c].readLock <= 0
<1>1. Init => CopyInv
  BY CopyInvInit
<1>2. WInv /\ CopyInv /\ [Next]_vars => CopyInv'
  BY CopyInvNext
<1>3. ASSUME WInv, CopyInv, [Next]_vars, Shrinks PROVE Copied
  <2>1. Next
    BY <1>3 DEF vars, shm, Shrinks, WInv, SharedTyped, Header
  <2>2. PICK c \in Conn : restart_publish(c)
    BY <1>3, <2>1, OnlyRestartsShrink
  <2>3. /\ pWal[c].pc = "restart_publish" /\ ReadLocks \subseteq exclusive[c]
        /\ pWal[c].readLock \in {-1, 0}
    BY <1>3, <2>2, AtRestart DEF restart_publish, At, RestartSteps
  <2>4. aHdr'[0] = pWal[c].hdr /\ pWal[c].hdr.mxFrame = 0 /\ aHdr[0].mxFrame \in Nat
    BY <1>3, <2>2, <2>3, AtRestart DEF restart_publish, RestartSteps, SharedTyped, Header
  <2>5. nBackfill = aHdr[0].mxFrame /\ nBackfill > 0
    BY <1>3, <2>3, <2>4 DEF CopyInv, At, Shrinks
  <2>6. \A p \in Page : dbOlder[p] = {}
    BY <1>3, <2>5 DEF CopyInv, CopiedIsSynced, Shrinks
  <2>7. ASSUME NEW d \in Conn PROVE pWal[d].readLock <= 0
    <3>1. CASE d = c
      BY <2>3, <3>1
    <3>2. CASE d # c
      <4> SUFFICES ASSUME pWal[d].readLock > 0 PROVE FALSE
        BY <1>3, ObjectTypes DEF WInv
      <4>1. pWal[d].readLock \in Slots
        BY <1>3, ObjectTypes, Numbers DEF WInv, Slots
      <4>2. READ_LOCK(pWal[d].readLock) \in shared[d]
        BY <1>3, <4>1 DEF WInv, ConnOK, Holds, Slots
      <4>3. READ_LOCK(pWal[d].readLock) \in exclusive[c]
        BY <2>3, <4>1, LockNumbers
      <4> QED
        BY <1>3, <3>2, <4>2, <4>3 DEF WInv, Exclusion
    <3> QED
      BY <3>1, <3>2
  <2> QED
    BY <2>5, <2>6, <2>7
<1>4. WInv /\ CopyInv /\ [Next]_vars => [Shrinks => Copied]_vars
  BY <1>3
<1>5. Spec => [][Shrinks => Copied]_vars
  <2>1. Spec => []WInv
    BY WInvAlways
  <2> HIDE DEF Copied
  <2> QED
    BY <1>1, <1>2, <1>4, <2>1, PTL DEF Spec
<1> QED
  BY <1>5 DEF OnlyCopiedLogsRestart, Shrinks
==============================================================================
