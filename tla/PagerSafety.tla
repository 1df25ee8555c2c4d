----------------------------- MODULE PagerSafety -----------------------------
(***************************************************************************)
(* The rollback journal keeps the committed image, whatever fails: an      *)
(* inductive invariant of Pager, for any connections, pages and            *)
(* transactions, of a database that is not empty at the beginning.         *)
(***************************************************************************)
EXTENDS PagerProofs, FiniteSetTheorems, SequenceTheorems

-----------------------------------------------------------------------------
(* The journal and the images *)

\* Each page has one record, headers count what is there, and the disk has no
\* more of the journal than the file.
JournalOK(j) ==
  /\ \A i \in DOMAIN j.recs : j.recs[i].pgno <= j.orig
  /\ \A i, k \in DOMAIN j.recs : j.recs[i].pgno = j.recs[k].pgno => i = k
  /\ j.syncedCount <= j.synced /\ j.synced <= Len(j.recs)
  /\ j.syncedCount <= j.counted /\ j.counted <= Len(j.recs)
  /\ j.syncedMagic => j.magic
  /\ ~j.magic => j.counted = 0
  /\ ~j.syncedMagic => j.syncedCount = 0

\* An image of n pages that transactions have written.
Sized(image, n) ==
  \A p \in Page : IF p <= n THEN image[p] \in Written ELSE image[p] = Absent

\* A committed image, and the change counter that nTxn transactions can reach.
ImageOK(image) ==
  /\ \E n \in 1 .. MaxPage : Sized(image, n)
  /\ VersionOf(image[1])[1] <= nTxn + 1

\* The page is on the disk what the last commit made of it.
Settled(p) == unsynced[p] \cup {db[p]} = {Committed[p]}

CommittedVers == VersionOf(Committed[1])

\* A journal that a power failure may bring back undoes a commit as a whole, or
\* nothing at all.
UnlinkedOK ==
  unlinked # None =>
    /\ JournalOK(unlinked) /\ unlinked.entry
    /\ jrnl = None \/ ~jrnl.entry
    /\ \A p \in Page : Settled(p)
    /\ unlinked.magic =>
         /\ ImageOK(Restored(db, unlinked)) /\ unlinked.orig >= 1
         /\ \A p \in Page : db[p] # Restored(db, unlinked)[p] =>
              /\ unlinked.syncedMagic
              /\ p > unlinked.orig \/ \E i \in 1 .. unlinked.syncedCount :
                                        unlinked.recs[i].pgno = p

\* A hot journal leaves nobody who would use the database without playing it back.
HotAlone ==
  IsHot(jrnl) =>
    /\ jrnl.orig >= 1
    /\ \A c \in Conn :
         /\ eState[c] \notin {"READER", "WRITER_LOCKED"} /\ pc[c] # "version"
         /\ pc[c] = "unlock" => eState[c] = "ERROR"
         /\ lock[c] >= FL!RESERVED_LOCK => lock[c] = FL!EXCLUSIVE_LOCK

FilesOK ==
  /\ jrnl # None => JournalOK(jrnl)
  /\ ImageOK(Committed)
  /\ Absent \notin unsynced[1] \cup {db[1]}
  /\ OriginalsAreSafe
  /\ UnlinkedOK
  /\ HotAlone

-----------------------------------------------------------------------------
(* A connection *)

\* the statements that each state is left at, and for which job
InPhaseOne(label, what) ==
  \/ what = "commit" /\ label \in {"lock", "sync", "header", "resync"}
  \/ what = "spill" /\ label \in {"lock", "sync", "header", "resync"}
RollsBack(label, what) == what = "rollback" /\ label \in {"playback", "finalize", "unlock"}

ControlOK(state, label, what) ==
  \/ /\ state \in {"OPEN", "READER", "WRITER_LOCKED", "WRITER_CACHEMOD", "WRITER_DBMOD", "ERROR"}
     /\ label = "idle" /\ what = "none"
  \/ state = "OPEN" /\ label \in Opening \ {"remnant", "remnant_unlock"} /\ what = "none"
  \/ state = "OPEN" /\ label \in {"playback", "finalize", "unlock"} /\ what = "recover"
  \/ state = "READER" /\ label = "page1" /\ what = "none"
  \/ state \in Writer /\ (InPhaseOne(label, what) \/ RollsBack(label, what))
  \/ state = "WRITER_DBMOD" /\ label = "pages" /\ what = "commit"
  \/ state = "WRITER_DBMOD" /\ label = "spill" /\ what = "spill"
  \/ state = "WRITER_FINISHED" /\ label \in {"finalize", "unlock"} /\ what = "commit"
  \/ state = "ERROR" /\ label = "unlock" /\ what = "none"

Fresh(c) == \A p \in Page : cache[c][p] \in {None, Committed[p]}

\* A cache that is kept without a lock: with the current change counter it is
\* fresh, and no commit will produce the change counter that it has again.
OpenOK(c) ==
  \/ cache[c] = EmptyCache
  \/ /\ cache[c][1] \in Written /\ dbFileVers[c] = cache[c][1].vers
     /\ dbFileVers[c][1] <= CommittedVers[1]
     /\ dbFileVers[c] = CommittedVers => Fresh(c)

\* What a connection knows that sees the committed image.
Knows(c) ==
  /\ Fresh(c)
  /\ cache[c][1] # None /\ dbFileVers[c] = CommittedVers

ReaderOK(c) ==
  /\ Knows(c) \/ (pc[c] = "page1" /\ cache[c] = EmptyCache)
  /\ eState[c] = "WRITER_LOCKED" => CommittedVers[1] <= nTxn

\* Play back of the records up to at[c]: in the file, if it was written, ...
PlayedBack(c) ==
  /\ at[c] >= 1 => \A p \in Page : p > jrnl.orig => db[p] = Absent
  /\ \A i \in DOMAIN jrnl.recs : i < at[c] => db[jrnl.recs[i].pgno] = jrnl.recs[i].content

\* ... and in the cache.
PlayedBackCache(c) ==
  /\ \A p \in Page : p <= jrnl.orig /\ p \notin InJournal => cache[c][p] \in {None, Committed[p]}
  /\ \A i \in DOMAIN jrnl.recs : i < at[c] =>
       cache[c][jrnl.recs[i].pgno] \in {None, jrnl.recs[i].content}
  /\ (\A i \in DOMAIN jrnl.recs : jrnl.recs[i].pgno = 1 => i < at[c]) =>
       dbFileVers[c] = CommittedVers

RecoverOK(c) ==
  pc[c] # "unlock" =>
    /\ jrnl # None
    /\ jrnl.synced = Len(jrnl.recs) /\ jrnl.syncedCount = jrnl.counted
    /\ jrnl.syncedMagic = jrnl.magic
    /\ journalHdr[c] = Len(jrnl.recs)
    /\ pc[c] = "playback" /\ jrnl.magic =>
         /\ at[c] <= jrnl.counted + 1
         /\ PlayedBack(c)
         /\ at[c] >= 1 /\ jrnl.counted > 0 => cache[c] = EmptyCache
    /\ pc[c] = "playback" /\ ~jrnl.magic => at[c] <= 1
    /\ pc[c] = "finalize" => \A p \in Page : Settled(p)

\* The journal of a write transaction, and what of the file it covers.
WriterJournalOK(c) ==
  /\ jrnl # None
  /\ \A i \in DOMAIN jrnl.recs : jrnl.recs[i].content = Committed[jrnl.recs[i].pgno]
  /\ Sized(Committed, jrnl.orig)
  /\ jrnl.orig >= 1
  /\ journalHdr[c] <= jrnl.syncedCount
  /\ CommittedVers[1] <= nTxn
  /\ eState[c] = "WRITER_CACHEMOD" => \A p \in Page : Settled(p)
  /\ eState[c] \in {"WRITER_DBMOD", "WRITER_FINISHED"} =>
       /\ jrnl.magic /\ jrnl.syncedMagic /\ jrnl.entry /\ unlinked = None
       /\ \A p \in Page : \/ Settled(p) \/ p > jrnl.orig
                          \/ \E i \in 1 .. journalHdr[c] : jrnl.recs[i].pgno = p

\* The image that a write transaction makes.
WriterImageOK(c) ==
  /\ \E n \in jrnl.orig .. MaxPage : Sized(View(c), n)
  /\ cache[c][1] # None
  /\ \A p \in dirty[c] : cache[c][p] # None /\ (p <= jrnl.orig => p \in InJournal)
  /\ \A p \in Page \ dirty[c] : cache[c][p] \in {None, db[p]}
  /\ dbFileVers[c] = VersionOf(db[1])
  /\ pc[c] \notin {"pages", "finalize"} => dbFileVers[c] = CommittedVers
  /\ job[c] = "commit" => VersionOf(cache[c][1])[1] = CommittedVers[1] + 1
  /\ job[c] = "spill" => at[c] \in dirty[c] \ {1}
  /\ pc[c] = "resync" => jrnl.magic /\ jrnl.counted = Len(jrnl.recs)
  /\ pc[c] = "pages" => journalHdr[c] = Len(jrnl.recs)
  /\ pc[c] = "spill" /\ at[c] <= jrnl.orig =>
       \E i \in 1 .. journalHdr[c] : jrnl.recs[i].pgno = at[c]
  /\ pc[c] = "finalize" =>
       dirty[c] = {} /\ \A p \in Page : unsynced[p] = {}

RollbackOK(c) ==
  /\ cache[c][1] # None
  /\ pc[c] = "playback" =>
       /\ at[c] <= Len(jrnl.recs) + 1
       /\ PlayedBackCache(c)
       /\ eState[c] = "WRITER_DBMOD" => PlayedBack(c)
  /\ pc[c] = "finalize" =>
       /\ \A p \in Page : Settled(p)
       /\ \A p \in Page : p <= jrnl.orig => cache[c][p] \in {None, Committed[p]}
       /\ dbFileVers[c] = CommittedVers

WriterOK(c) ==
  IF pc[c] = "unlock" THEN Knows(c)
  ELSE WriterJournalOK(c) /\ IF job[c] = "rollback" THEN RollbackOK(c) ELSE WriterImageOK(c)

ConnOK(c) ==
  /\ ControlOK(eState[c], pc[c], job[c])
  /\ \/ eState[c] \in {"OPEN", "READER", "WRITER_LOCKED"}
     \/ pc[c] = "unlock" /\ eState[c] # "ERROR"
     => dirty[c] = {}
  /\ eState[c] = "OPEN" => OpenOK(c)
  /\ eState[c] \in {"READER", "WRITER_LOCKED"} => ReaderOK(c)
  /\ job[c] = "recover" => RecoverOK(c)
  /\ eState[c] \in Writer \cup {"WRITER_FINISHED"} => WriterOK(c)

DbInv == TypeOK /\ FilesOK /\ \A c \in Conn : ConnOK(c)

PInv == LockInv /\ DbInv

-----------------------------------------------------------------------------
(* Lemmas about images and journals *)

LEMMA RecordsOf ==
  ASSUME NEW j \in Journal
  PROVE  /\ j.recs \in Seq([pgno : Page, content : Content])
         /\ Len(j.recs) \in Nat /\ DOMAIN j.recs = 1 .. Len(j.recs)
         /\ \A i \in DOMAIN j.recs : j.recs[i] \in [pgno : Page, content : Content]
         /\ j.orig \in Nat /\ j.orig <= MaxPage
         /\ j.counted \in Nat /\ j.synced \in Nat /\ j.syncedCount \in Nat
         /\ j.magic \in BOOLEAN /\ j.entry \in BOOLEAN /\ j.syncedMagic \in BOOLEAN
         /\ j # None
<1>1. j.recs \in Seq([pgno : Page, content : Content])
  BY DEF Journal
<1>2. \A i \in 1 .. Len(j.recs) : j.recs[i] \in [pgno : Page, content : Content]
  BY <1>1, ElementOfSeq
<1> QED
  BY <1>1, <1>2, LenProperties, ValueAssumption, PagerAssumption DEF Journal

LEMMA PageRange == Page \subseteq Nat /\ MaxPage \in Nat /\ (\A p \in Page : p <= MaxPage /\ p >= 1)
BY PagerAssumption DEF Page

\* What the playback makes of a page that has a record.
LEMMA RestoredRecord ==
  ASSUME NEW image, NEW j \in Journal, JournalOK(j), NEW i \in 1 .. j.counted
  PROVE  /\ j.recs[i].pgno \in Page
         /\ Restored(image, j)[j.recs[i].pgno] = j.recs[i].content
<1> DEFINE p == j.recs[i].pgno
           P(k) == j.recs[k].pgno = p
           k0 == CHOOSE k \in 1 .. j.counted : P(k)
<1>1. 1 .. j.counted \subseteq DOMAIN j.recs /\ p \in Page /\ p <= j.orig
  BY RecordsOf DEF JournalOK
<1>2. P(i)
  OBVIOUS
<1>3. k0 \in 1 .. j.counted /\ P(k0)
  <2> HIDE DEF P
  <2> QED
    BY <1>2
<1>4. k0 = i
  BY <1>1, <1>3 DEF JournalOK
<1>5. ~(p > j.orig)
  <2>1. p \in Nat
    BY <1>1, PageRange
  <2>2. j.orig \in Nat
    BY RecordsOf
  <2> QED
    BY <1>1, <2>1, <2>2
<1>6. Restored(image, j)[p] = j.recs[k0].content
  BY <1>1, <1>3, <1>5 DEF Restored
<1> QED
  BY <1>1, <1>4, <1>6

LEMMA RestoredOther ==
  ASSUME NEW image, NEW j, NEW p \in Page
  PROVE  /\ p > j.orig => Restored(image, j)[p] = Absent
         /\ ~(p > j.orig) /\ (\A i \in 1 .. j.counted : j.recs[i].pgno # p)
              => Restored(image, j)[p] = image[p]
BY DEF Restored

LEMMA RestoredIsFunction ==
  ASSUME NEW image, NEW j
  PROVE  Restored(image, j) = [p \in Page |-> Restored(image, j)[p]]
BY DEF Restored

LEMMA CommittedHot ==
  /\ IsHot(jrnl) => Committed = Restored(db, jrnl)
  /\ ~IsHot(jrnl) => Committed = db
BY DEF Committed

LEMMA VersionType ==
  ASSUME NEW content \in Content
  PROVE  VersionOf(content) \in Version /\ VersionOf(content)[1] \in Nat
<1>1. VersionOf(content) \in Version
  BY PagerAssumption DEF Content, Written, VersionOf, NoVersion, Version
<1> QED
  BY <1>1, PagerAssumption DEF Version

LEMMA WrittenVersion ==
  ASSUME NEW content \in Written
  PROVE  VersionOf(content) = content.vers /\ content.vers \in Version
         /\ content \notin {None, Absent, Torn} /\ content \in Content
BY ValueAssumption DEF VersionOf, Written, Content

LEMMA RestoredType ==
  ASSUME NEW image \in [Page -> Content], NEW j \in Journal, JournalOK(j)
  PROVE  Restored(image, j) \in [Page -> Content]
<1>1. ASSUME NEW p \in Page PROVE Restored(image, j)[p] \in Content
  <2>1. CASE p > j.orig
    BY <2>1, RestoredOther DEF Content
  <2>2. CASE ~(p > j.orig) /\ \A i \in 1 .. j.counted : j.recs[i].pgno # p
    BY <2>2, RestoredOther
  <2>3. CASE \E i \in 1 .. j.counted : j.recs[i].pgno = p
    <3>1. PICK i \in 1 .. j.counted : j.recs[i].pgno = p
      BY <2>3
    <3>2. i \in DOMAIN j.recs
      BY RecordsOf DEF JournalOK
    <3>3. j.recs[i].content \in Content
      BY <3>2, RecordsOf
    <3> QED
      BY <3>1, <3>3, RestoredRecord
  <2> QED
    BY <2>1, <2>2, <2>3
<1> QED
  BY <1>1, RestoredIsFunction

LEMMA CommittedType ==
  ASSUME TypeOK, jrnl # None => JournalOK(jrnl)
  PROVE  Committed \in [Page -> Content]
<1>1. CASE IsHot(jrnl)
  <2>1. jrnl \in Journal
    BY <1>1 DEF TypeOK, IsHot
  <2> QED
    BY <1>1, <2>1, RestoredType, CommittedHot DEF TypeOK, IsHot
<1>2. CASE ~IsHot(jrnl)
  BY <1>2, CommittedHot DEF TypeOK
<1> QED
  BY <1>1, <1>2

\* Page 1 is there, and was written by a transaction.
LEMMA PageOne ==
  ASSUME NEW image, ImageOK(image)
  PROVE  1 \in Page /\ image[1] \in Written /\ VersionOf(image[1]) = image[1].vers
<1>1. PICK n \in 1 .. MaxPage : Sized(image, n)
  BY DEF ImageOK
<1>2. 1 \in Page
  BY PagerAssumption DEF Page
<1>3. image[1] \in Written
  BY <1>1, <1>2, PagerAssumption DEF Sized
<1> QED
  BY <1>2, <1>3, WrittenVersion

LEMMA CommittedFacts ==
  ASSUME TypeOK, FilesOK
  PROVE  /\ Committed \in [Page -> Content] /\ 1 \in Page
         /\ Committed[1] \in Written /\ CommittedVers = Committed[1].vers
         /\ CommittedVers \in Version /\ CommittedVers[1] \in Nat
         /\ CommittedVers[1] <= nTxn + 1
<1>1. Committed \in [Page -> Content] /\ ImageOK(Committed)
  BY CommittedType DEF FilesOK
<1>2. 1 \in Page /\ Committed[1] \in Written
  BY <1>1, PageOne
<1>3. CommittedVers = Committed[1].vers
  BY <1>2, WrittenVersion DEF CommittedVers
<1>4. CommittedVers \in Version /\ CommittedVers[1] \in Nat
  BY <1>2, WrittenVersion, VersionType DEF CommittedVers
<1> QED
  BY <1>1, <1>2, <1>3, <1>4 DEF ImageOK, CommittedVers

-----------------------------------------------------------------------------
(* What a step leaves alone *)

Untouched(d) ==
  UNCHANGED <<eState[d], pc[d], job[d], cache[d], dirty[d], dbFileVers[d], journalHdr[d],
              at[d], lock[d]>>

LEMMA FilesSame ==
  ASSUME UNCHANGED <<db, jrnl>>
  PROVE  Committed' = Committed /\ CommittedVers' = CommittedVers
         /\ (IsHot(jrnl) <=> IsHot(jrnl'))
BY DEF Committed, CommittedVers, IsHot, Restored, VersionOf

\* A connection without RESERVED sees nothing but the committed image.
LEMMA ReaderKept ==
  ASSUME LockInv, NEW d \in Conn, ConnOK(d), Untouched(d), lock[d] < FL!RESERVED_LOCK,
         Committed' = Committed
  PROVE  ConnOK(d)'
<1>1. CommittedVers' = CommittedVers
  BY DEF CommittedVers, VersionOf
<1>2. Stands(lock[d], eState[d], pc[d]) /\ lock[d] \in Levels
  BY Now
<1>3. /\ eState[d] \notin Writer \cup {"WRITER_LOCKED", "WRITER_FINISHED"}
      /\ job[d] # "recover"
  <2>1. ~(lock[d] >= FL!RESERVED_LOCK) /\ lock[d] # FL!EXCLUSIVE_LOCK
    BY <1>2 DEF Levels, FL!NO_LOCK, FL!SHARED_LOCK, FL!RESERVED_LOCK, FL!PENDING_LOCK,
         FL!EXCLUSIVE_LOCK
  <2>2. eState[d] \notin Writer \cup {"WRITER_LOCKED", "WRITER_FINISHED"}
    BY <1>2, <2>1 DEF Stands
  <2>3. ~(eState[d] = "OPEN" /\ pc[d] \in {"playback", "finalize", "unlock"})
    BY <1>2, <2>1 DEF Stands
  <2> QED
    BY <2>2, <2>3 DEF ConnOK, ControlOK, Writer, InPhaseOne, RollsBack
<1>4. ControlOK(eState[d], pc[d], job[d])' /\ Fresh(d)' = Fresh(d)
  BY DEF Untouched, ConnOK, Fresh
<1>5. eState'[d] = "OPEN" => OpenOK(d)'
  BY <1>1, <1>4 DEF Untouched, ConnOK, OpenOK, EmptyCache
<1>6. eState'[d] \in {"READER", "WRITER_LOCKED"} => ReaderOK(d)'
  BY <1>1, <1>3, <1>4 DEF Untouched, ConnOK, ReaderOK, Knows, EmptyCache
<1> QED
  BY <1>3, <1>4, <1>5, <1>6 DEF Untouched, ConnOK

LEMMA ConnKept ==
  ASSUME TypeOK, FilesOK, NEW d \in Conn, ConnOK(d), Untouched(d),
         UNCHANGED <<db, unsynced, jrnl, unlinked>>, nTxn' \in {nTxn, nTxn + 1}
  PROVE  ConnOK(d)'
<1>1. Committed' = Committed /\ CommittedVers' = CommittedVers
  BY FilesSame
<1>2. nTxn \in Nat /\ CommittedVers[1] \in Nat
  BY CommittedFacts, PagerAssumption DEF TypeOK
<1>3. CommittedVers[1] <= nTxn => CommittedVers[1] <= nTxn'
  BY <1>2
<1>4. Fresh(d)' = Fresh(d) /\ Knows(d)' = Knows(d)
  BY <1>1 DEF Untouched, Fresh, Knows
<1>5. OpenOK(d) => OpenOK(d)'
  BY <1>1, <1>4 DEF Untouched, OpenOK, EmptyCache
<1>6. ReaderOK(d) => ReaderOK(d)'
  BY <1>1, <1>3, <1>4 DEF Untouched, ReaderOK, EmptyCache
<1>7. PlayedBack(d)' = PlayedBack(d)
  BY DEF Untouched, PlayedBack
<1>8. PlayedBackCache(d)' = PlayedBackCache(d)
  BY <1>1 DEF Untouched, PlayedBackCache, InJournal
<1>9. \A p \in Page : Settled(p)' = Settled(p)
  BY <1>1 DEF Settled
<1>10. RecoverOK(d) => RecoverOK(d)'
  BY <1>7, <1>9 DEF Untouched, RecoverOK, EmptyCache
<1>11. WriterJournalOK(d) => WriterJournalOK(d)'
  BY <1>1, <1>3, <1>9 DEF Untouched, WriterJournalOK, Sized
<1>12. WriterImageOK(d) => WriterImageOK(d)'
  <2>1. View(d)' = View(d)
    BY DEF Untouched, View
  <2> QED
    BY <1>1, <2>1 DEF Untouched, WriterImageOK, Sized, InJournal, VersionOf
<1>13. RollbackOK(d) => RollbackOK(d)'
  BY <1>1, <1>7, <1>8, <1>9 DEF Untouched, RollbackOK
<1>14. WriterOK(d) => WriterOK(d)'
  BY <1>4, <1>11, <1>12, <1>13 DEF Untouched, WriterOK
<1> QED
  BY <1>5, <1>6, <1>10, <1>14 DEF Untouched, ConnOK, ControlOK

\* Whoever has EXCLUSIVE is alone.
LEMMA Alone ==
  ASSUME LockInv, NEW c \in Conn, lock[c] = FL!EXCLUSIVE_LOCK
  PROVE  \A d \in Conn \ {c} :
           lock[d] = FL!NO_LOCK /\ eState[d] \in {"OPEN", "ERROR"} /\ pc[d] = "idle"
<1>1. ASSUME NEW d \in Conn \ {c} PROVE lock[d] = FL!NO_LOCK
  BY DEF LockInv, FL!Compatible
<1>2. ASSUME NEW d \in Conn \ {c} PROVE eState[d] \in {"OPEN", "ERROR"} /\ pc[d] = "idle"
  <2>1. ~(lock[d] >= FL!SHARED_LOCK)
    BY <1>1, <1>2 DEF FL!NO_LOCK, FL!SHARED_LOCK
  <2> QED
    BY <2>1, <1>2, Now DEF Stands
<1> QED
  BY <1>1, <1>2

LEMMA OneReserved ==
  ASSUME LockInv, NEW c \in Conn, lock[c] >= FL!RESERVED_LOCK
  PROVE  \A d \in Conn \ {c} : lock[d] < FL!RESERVED_LOCK
BY DEF LockInv, FL!Compatible

\* What the state of c must be while the journal is hot.
HotHere(c) ==
  /\ eState[c] \notin {"READER", "WRITER_LOCKED"} /\ pc[c] # "version"
  /\ pc[c] = "unlock" => eState[c] = "ERROR"
  /\ lock[c] >= FL!RESERVED_LOCK => lock[c] = FL!EXCLUSIVE_LOCK

LEMMA HotStep ==
  ASSUME LockInv, HotAlone, NEW c \in Conn, \A d \in Conn \ {c} : Untouched(d),
         IsHot(jrnl') => /\ IsHot(jrnl) \/ lock[c] = FL!EXCLUSIVE_LOCK
                         /\ jrnl'.orig >= 1 /\ HotHere(c)'
  PROVE  HotAlone'
<1> SUFFICES ASSUME IsHot(jrnl') PROVE HotAlone'
  BY DEF HotAlone, IsHot
<1>1. ASSUME NEW d \in Conn \ {c} PROVE HotHere(d)
  <2>1. CASE IsHot(jrnl)
    BY <2>1 DEF HotAlone, HotHere
  <2>2. CASE lock[c] = FL!EXCLUSIVE_LOCK
    BY <2>2, Alone DEF HotHere, FL!NO_LOCK, FL!RESERVED_LOCK
  <2> QED
    BY <2>1, <2>2
<1>2. ASSUME NEW d \in Conn \ {c} PROVE HotHere(d)'
  BY <1>1 DEF HotHere, Untouched
<1> QED
  BY <1>2 DEF HotAlone, HotHere

\* The invariant holds after the step, and the committed image is the same.
ImageKept == DbInv' /\ Committed' = Committed

\* A step of c that leaves the files alone.
LEMMA QuietStep ==
  ASSUME PInv, NEW c \in Conn, UNCHANGED <<db, unsynced, jrnl, unlinked>>,
         nTxn' \in {nTxn, nTxn + 1}, \A d \in Conn \ {c} : Untouched(d),
         TypeOK', ConnOK(c)', IsHot(jrnl) => HotHere(c)'
  PROVE  ImageKept
<1>1. /\ Committed' = Committed /\ CommittedVers' = CommittedVers
      /\ IsHot(jrnl) <=> IsHot(jrnl')
  BY FilesSame
<1>2. \A d \in Conn : ConnOK(d)'
  BY ConnKept DEF PInv, DbInv
<1>3. \A p \in Page : Settled(p)' = Settled(p)
  BY <1>1 DEF Settled
<1>4. nTxn \in Nat /\ VersionOf(Committed[1])[1] \in Nat
  BY CommittedFacts, PagerAssumption DEF PInv, DbInv, TypeOK, CommittedVers
<1>5. ASSUME NEW image, ImageOK(image), VersionOf(image[1])[1] \in Nat
      PROVE  ImageOK(image)'
  BY <1>4, <1>5 DEF ImageOK, Sized, VersionOf
<1>6. ImageOK(Committed)'
  BY <1>1, <1>4 DEF ImageOK, PInv, DbInv, FilesOK, Sized, VersionOf
<1>7. UnlinkedOK'
  <2> SUFFICES ASSUME unlinked' # None PROVE UnlinkedOK'
    BY DEF UnlinkedOK
  <2>1. UnlinkedOK /\ unlinked # None
    BY DEF PInv, DbInv, FilesOK
  <2>2. unlinked.magic => ImageOK(Restored(db, unlinked))'
    <3> SUFFICES ASSUME unlinked.magic PROVE ImageOK(Restored(db, unlinked))'
      OBVIOUS
    <3>1. ImageOK(Restored(db, unlinked))
      BY <2>1 DEF UnlinkedOK
    <3>2. VersionOf(Restored(db, unlinked)[1])[1] \in Nat
      BY <3>1, PageOne, WrittenVersion, VersionType
    <3>3. Restored(db, unlinked)' = Restored(db, unlinked)
      BY DEF Restored
    <3> QED
      BY <1>4, <3>1, <3>2, <3>3 DEF ImageOK, Sized, VersionOf
  <2>3. Restored(db, unlinked)' = Restored(db, unlinked)
    BY DEF Restored
  <2> QED
    BY <1>3, <2>1, <2>2, <2>3 DEF UnlinkedOK, JournalOK
<1>8. HotAlone'
  BY <1>1, HotStep DEF PInv, DbInv, FilesOK, HotAlone
<1>9. OriginalsAreSafe'
  BY <1>1 DEF PInv, DbInv, FilesOK, OriginalsAreSafe, IsHot
<1>10. (jrnl' # None => JournalOK(jrnl')) /\ Absent \notin unsynced'[1] \cup {db'[1]}
  BY DEF PInv, DbInv, FilesOK
<1> QED
  BY <1>1, <1>2, <1>6, <1>7, <1>8, <1>9, <1>10 DEF DbInv, FilesOK, ImageKept

-----------------------------------------------------------------------------
(* Steps that change no file *)

Jobs == {"none", "recover", "commit", "rollback", "spill"}

LocalTypes(c) ==
  /\ job[c] \in Jobs
  /\ cache[c] \in [Page -> Content \cup {None}]
  /\ dirty[c] \in SUBSET Page
  /\ dbFileVers[c] \in Version
  /\ journalHdr[c] \in Nat
  /\ at[c] \in Nat

FileTypes ==
  /\ db \in [Page -> Content]
  /\ unsynced \in [Page -> SUBSET Content]
  /\ {jrnl, unlinked} \subseteq Journal \cup {None}
  /\ nTxn \in 0 .. MaxTxn
  /\ setting \in Settings

\* Only c's own variables change.
StepOf(c) ==
  /\ eState' = [eState EXCEPT ![c] = eState'[c]] /\ pc' = [pc EXCEPT ![c] = pc'[c]]
  /\ job' = [job EXCEPT ![c] = job'[c]] /\ cache' = [cache EXCEPT ![c] = cache'[c]]
  /\ dirty' = [dirty EXCEPT ![c] = dirty'[c]]
  /\ dbFileVers' = [dbFileVers EXCEPT ![c] = dbFileVers'[c]]
  /\ journalHdr' = [journalHdr EXCEPT ![c] = journalHdr'[c]]
  /\ at' = [at EXCEPT ![c] = at'[c]] /\ lock' = [lock EXCEPT ![c] = lock'[c]]

LEMMA StepTypes ==
  ASSUME TypeOK, LockInv', NEW c \in Conn, StepOf(c), LocalTypes(c)', FileTypes'
  PROVE  TypeOK' /\ \A d \in Conn \ {c} : Untouched(d)
<1>1. \A d \in Conn \ {c} : Untouched(d)
  BY DEF StepOf, Untouched, TypeOK
<1>2. lock' \in [Conn -> FL!LockLevel] /\ eState' \in [Conn -> States] /\ pc' \in [Conn -> Labels]
  BY DEF LockInv
<1>3. /\ job' \in [Conn -> Jobs] /\ cache' \in [Conn -> [Page -> Content \cup {None}]]
      /\ dirty' \in [Conn -> SUBSET Page] /\ dbFileVers' \in [Conn -> Version]
      /\ journalHdr' \in [Conn -> Nat] /\ at' \in [Conn -> Nat]
  BY DEF StepOf, LocalTypes, TypeOK, Jobs
<1> QED
  BY <1>1, <1>2, <1>3 DEF TypeOK, FileTypes, Jobs

LEMMA HaveTypes ==
  ASSUME TypeOK
  PROVE  FileTypes /\ \A c \in Conn : LocalTypes(c)
BY DEF TypeOK, FileTypes, LocalTypes, Jobs

LEMMA Quiet ==
  ASSUME PInv, LockInv', NEW c \in Conn, UNCHANGED <<files, setting>>,
         nTxn' = nTxn \/ (nTxn' = nTxn + 1 /\ nTxn < MaxTxn),
         StepOf(c), LocalTypes(c)', ConnOK(c)',
         IsHot(jrnl) => HotHere(c)'
  PROVE  ImageKept
<1>1. FileTypes'
  BY PagerAssumption, HaveTypes DEF PInv, DbInv, FileTypes, files
<1>2. TypeOK' /\ \A d \in Conn \ {c} : Untouched(d)
  BY <1>1, StepTypes DEF PInv, DbInv
<1> QED
  BY <1>2, QuietStep DEF files

LEMMA NotEmpty == ASSUME TypeOK, FilesOK PROVE Size(db) # 0
<1> DEFINE there == {p \in Page : db[p] # Absent}
<1>1. IsFiniteSet(Page)
  BY PageRange, FS_Interval DEF Page
<1>2. IsFiniteSet(there)
  BY <1>1, FS_Subset
<1>3. 1 \in there
  BY CommittedFacts DEF FilesOK
<1> QED
  BY <1>2, <1>3, FS_EmptySet DEF Size

\* A step of sqlite3PagerSharedLock() that only takes or gives a lock and goes on.
LEMMA OpeningStep ==
  ASSUME PInv, LockInv', NEW c \in Conn, eState[c] = "OPEN", job[c] = "none",
         UNCHANGED <<files, eState, job, cache, dirty, dbFileVers, journalHdr, at, nTxn, setting>>,
         NEW label \in {"idle", "access", "reserved", "peek", "recover", "reopen", "version"},
         pc' = [pc EXCEPT ![c] = label],
         NEW level, lock' = [lock EXCEPT ![c] = level],
         IsHot(jrnl) => label # "version" /\ (level >= FL!RESERVED_LOCK => level = FL!EXCLUSIVE_LOCK)
  PROVE  ImageKept
<1>1. pc'[c] = label /\ lock'[c] = level
  BY DEF PInv, LockInv
<1>2. StepOf(c)
  BY <1>1 DEF PInv, DbInv, TypeOK, StepOf
<1>3. LocalTypes(c)'
  BY HaveTypes DEF PInv, DbInv, LocalTypes
<1>4. OpenOK(c)'
  BY FilesSame DEF PInv, DbInv, ConnOK, OpenOK, files, EmptyCache, Fresh
<1>5. ConnOK(c)'
  BY <1>1, <1>4 DEF PInv, DbInv, ConnOK, ControlOK, Opening, Writer
<1>6. IsHot(jrnl) => HotHere(c)'
  BY <1>1 DEF HotHere
<1> QED
  <2>1. UNCHANGED <<files, setting>> /\ nTxn' = nTxn
    BY DEF files
  <2> QED
    BY <1>2, <1>3, <1>5, <1>6, <2>1, Quiet

LEMMA OpeningKeeps ==
  ASSUME PInv, LockInv', NEW c \in Conn,
         \/ shared_lock(c) \/ access_journal(c) \/ check_reserved(c) \/ delete_remnant(c)
         \/ remnant_unlock(c) \/ peek_journal(c) \/ recover_lock(c) \/ recover_busy(c)
  PROVE  ImageKept
<1> USE DEF PInv, DbInv
<1>1. eState[c] = "OPEN" /\ job[c] = "none" /\ pc[c] \notin {"remnant", "remnant_unlock"}
  <2>1. pc[c] \in {"idle", "access", "reserved", "remnant", "remnant_unlock", "peek", "recover"}
        /\ (pc[c] = "idle" => eState[c] = "OPEN")
    BY DEF shared_lock, access_journal, check_reserved, delete_remnant, remnant_unlock,
       peek_journal, recover_lock, recover_busy
  <2>2. ControlOK(eState[c], pc[c], job[c])
    BY DEF ConnOK
  <2> QED
    BY <2>1, <2>2 DEF ControlOK, Opening, InPhaseOne, RollsBack
<1>2. LockInv /\ HotAlone /\ lock = [lock EXCEPT ![c] = lock[c]]
  BY DEF FilesOK, TypeOK
<1>3. IsHot(jrnl) => (lock[c] >= FL!RESERVED_LOCK => lock[c] = FL!EXCLUSIVE_LOCK)
  BY <1>2 DEF HotAlone
<1>4. CASE shared_lock(c)
  <2>1. lock' = [lock EXCEPT ![c] = FL!SHARED_LOCK]
    BY <1>2, <1>4, SharedCompatible DEF shared_lock
  <2>2. ~(FL!SHARED_LOCK >= FL!RESERVED_LOCK)
    BY DEF FL!SHARED_LOCK, FL!RESERVED_LOCK
  <2> QED
    BY <1>1, <1>4, <2>1, <2>2, OpeningStep DEF shared_lock, Goto
<1>5. CASE access_journal(c)
  <2>1. (IF jrnl = None THEN "version" ELSE "reserved") \in {"version", "reserved"}
        /\ (IsHot(jrnl) => (IF jrnl = None THEN "version" ELSE "reserved") # "version")
    BY DEF IsHot
  <2> QED
    BY <1>1, <1>2, <1>3, <1>5, <2>1, OpeningStep DEF access_journal, Goto
<1>6. CASE check_reserved(c)
  <2>1. Size(db) # 0
    BY NotEmpty
  <2>2. ReservedElsewhere(c) => ~IsHot(jrnl)
    <3> SUFFICES ASSUME NEW d \in Conn \ {c}, lock[d] >= FL!RESERVED_LOCK, IsHot(jrnl) PROVE FALSE
      BY DEF ReservedElsewhere
    <3>1. lock[d] = FL!EXCLUSIVE_LOCK
      BY <1>2 DEF HotAlone
    <3>2. pc[c] = "idle"
      BY <1>2, <3>1, Alone
    <3> QED
      BY <1>6, <3>2 DEF check_reserved
  <2>3. PICK label \in {"version", "peek"} :
          pc' = [pc EXCEPT ![c] = label] /\ (IsHot(jrnl) => label # "version")
    BY <1>6, <2>1, <2>2 DEF check_reserved, Goto
  <2> QED
    BY <1>1, <1>2, <1>3, <1>6, <2>3, OpeningStep DEF check_reserved
<1>7. CASE peek_journal(c)
  <2>3. PICK label \in {"version", "recover"} :
          pc' = [pc EXCEPT ![c] = label] /\ (IsHot(jrnl) => label # "version")
    BY <1>7 DEF peek_journal, Goto
  <2> QED
    BY <1>1, <1>2, <1>3, <1>7, <2>3, OpeningStep DEF peek_journal
<1>8. CASE recover_lock(c)
  <2>1. lock' = [lock EXCEPT ![c] = FL!EXCLUSIVE_LOCK]
    BY <1>2, <1>8, ExclusiveCompatible DEF recover_lock
  <2> QED
    BY <1>1, <1>8, <2>1, OpeningStep DEF recover_lock, Goto
<1>9. CASE recover_busy(c)
  <2>1. lock' = [lock EXCEPT ![c] = FL!NO_LOCK]
    BY <1>2, <1>9, ReleaseOne DEF recover_busy
  <2>2. ~(FL!NO_LOCK >= FL!RESERVED_LOCK)
    BY DEF FL!NO_LOCK, FL!RESERVED_LOCK
  <2> QED
    BY <1>1, <1>9, <2>1, <2>2, OpeningStep DEF recover_busy, Goto
<1>10. ~delete_remnant(c) /\ ~remnant_unlock(c)
  BY <1>1 DEF delete_remnant, remnant_unlock
<1> QED
  BY <1>4, <1>5, <1>6, <1>7, <1>8, <1>9, <1>10

LEMMA NoneIsNoContent ==
  /\ None \notin Content /\ Absent \in Content /\ Torn \in Content /\ Written \subseteq Content
  /\ Absent \notin Written /\ Torn \notin Written /\ None \notin Written
BY ValueAssumption, PagerAssumption DEF Content

\* Nobody reads, or begins to read, while there is a hot journal.
LEMMA ReadsCommitted ==
  ASSUME PInv, NEW c \in Conn,
         eState[c] \in {"READER", "WRITER_LOCKED"} \/ pc[c] = "version"
  PROVE  ~IsHot(jrnl) /\ Committed = db
BY CommittedHot DEF PInv, DbInv, FilesOK, HotAlone

LEMMA CheckVersionKeeps ==
  ASSUME PInv, LockInv', NEW c \in Conn, check_version(c)
  PROVE  ImageKept
<1> USE DEF PInv, DbInv
<1>1. eState[c] = "OPEN" /\ job[c] = "none"
  BY DEF check_version, ConnOK, ControlOK, Opening, InPhaseOne, RollsBack
<1>2. ~IsHot(jrnl) /\ Committed = db
  BY ReadsCommitted DEF check_version
<1>3. UNCHANGED <<files, setting>> /\ nTxn' = nTxn
  BY DEF check_version
<1>4. /\ eState'[c] = "READER" /\ pc'[c] = "page1" /\ job'[c] = job[c]
      /\ cache'[c] \in {cache[c], EmptyCache} /\ dbFileVers'[c] = dbFileVers[c]
      /\ dbFileVers[c] # VersionOf(db[1]) => cache'[c] = EmptyCache
  BY DEF check_version, TypeOK, SetState, Goto, Reset
<1>5. StepOf(c) /\ LocalTypes(c)'
  <2>1. StepOf(c)
    BY DEF check_version, TypeOK, SetState, Goto, Reset, StepOf
  <2>2. LocalTypes(c) /\ EmptyCache \in [Page -> Content \cup {None}]
    BY HaveTypes DEF EmptyCache
  <2> QED
    BY <1>4, <2>1, <2>2 DEF LocalTypes, check_version
<1>6. cache'[c] = EmptyCache \/ Knows(c)'
  <2>1. Committed' = Committed /\ CommittedVers' = CommittedVers
    BY <1>3, FilesSame DEF files
  <2>2. SUFFICES ASSUME dbFileVers[c] = CommittedVers, cache'[c] = cache[c], cache[c] # EmptyCache
                 PROVE  Knows(c)'
    BY <1>2, <1>4 DEF CommittedVers
  <2>3. OpenOK(c)
    BY <1>1 DEF ConnOK
  <2>4. Fresh(c) /\ cache[c][1] # None
    BY <2>2, <2>3, NoneIsNoContent DEF OpenOK
  <2> QED
    BY <1>4, <2>1, <2>2, <2>4 DEF Knows, Fresh
<1>7. ConnOK(c)'
  BY <1>1, <1>4, <1>6 DEF ConnOK, ControlOK, ReaderOK, EmptyCache, Writer, check_version
<1> QED
  BY <1>2, <1>3, <1>5, <1>7, Quiet

LEMMA GetPage1Keeps ==
  ASSUME PInv, LockInv', NEW c \in Conn, get_page1(c)
  PROVE  ImageKept
<1> USE DEF PInv, DbInv
<1>1. eState[c] = "READER" /\ job[c] = "none"
  BY DEF get_page1, ConnOK, ControlOK, Opening, InPhaseOne, RollsBack
<1>2. ~IsHot(jrnl) /\ Committed = db
  BY <1>1, ReadsCommitted
<1>3. UNCHANGED <<files, setting>> /\ nTxn' = nTxn
  BY DEF get_page1
<1>4. 1 \in Page /\ db[1] \in Content /\ db[1] # Absent /\ db[1] # None
  BY CommittedFacts, NoneIsNoContent DEF FilesOK, TypeOK
<1>5. /\ eState'[c] = eState[c] /\ pc'[c] = "idle" /\ job'[c] = job[c]
      /\ cache'[c] = [cache[c] EXCEPT ![1] = View(c)[1]]
      /\ dbFileVers'[c] = IF cache[c][1] = None THEN VersionOf(db[1]) ELSE dbFileVers[c]
  BY <1>4 DEF get_page1, TypeOK, Goto, Fetch
<1>6. View(c)[1] = IF cache[c][1] = None THEN db[1] ELSE cache[c][1]
  BY <1>4 DEF View
<1>7. StepOf(c) /\ LocalTypes(c)'
  <2>1. StepOf(c)
    BY DEF get_page1, TypeOK, Goto, Fetch, StepOf
  <2>2. LocalTypes(c) /\ VersionOf(db[1]) \in Version /\ View(c)[1] \in Content \cup {None}
    BY <1>4, <1>6, HaveTypes, VersionType DEF LocalTypes
  <2> QED
    BY <1>5, <2>1, <2>2 DEF LocalTypes, get_page1
<1>8. Knows(c)'
  <2>1. Committed' = Committed /\ CommittedVers' = CommittedVers
    BY <1>3, FilesSame DEF files
  <2>2. Knows(c) \/ cache[c] = EmptyCache
    BY <1>1 DEF ConnOK, ReaderOK
  <2>3. cache[c] \in [Page -> Content \cup {None}]
    BY HaveTypes DEF LocalTypes
  <2>4. CASE Knows(c)
    BY <1>5, <1>6, <2>1, <2>3, <2>4 DEF Knows, Fresh
  <2>5. CASE cache[c] = EmptyCache
    BY <1>2, <1>4, <1>5, <1>6, <2>1, <2>5 DEF Knows, Fresh, EmptyCache, CommittedVers
  <2> QED
    BY <2>2, <2>4, <2>5
<1>9. ConnOK(c)'
  BY <1>1, <1>5, <1>8 DEF ConnOK, ControlOK, ReaderOK, Writer, get_page1
<1> QED
  BY <1>2, <1>3, <1>7, <1>9, Quiet

LEMMA KnowsMeansOpen ==
  ASSUME TypeOK, FilesOK, NEW c \in Conn, Knows(c)
  PROVE  OpenOK(c)
<1>1. cache[c][1] = Committed[1]
  BY CommittedFacts DEF Knows, Fresh
<1> QED
  BY <1>1, CommittedFacts DEF Knows, OpenOK

\* The state between two transactions, and the beginning of one.
LEMMA TransactionEnds ==
  ASSUME PInv, LockInv', NEW c \in Conn,
         end_read(c) \/ sqlite3PagerBegin(c) \/ end_unchanged(c)
  PROVE  ImageKept
<1> USE DEF PInv, DbInv
<1>1. eState[c] \in {"READER", "WRITER_LOCKED"} /\ pc[c] = "idle" /\ job[c] = "none"
  BY DEF end_read, sqlite3PagerBegin, end_unchanged, ConnOK, ControlOK, InPhaseOne, RollsBack,
     Writer
<1>2. ~IsHot(jrnl)
  BY <1>1, ReadsCommitted
<1>3. UNCHANGED <<files, setting>> /\ (nTxn' = nTxn \/ (nTxn' = nTxn + 1 /\ nTxn < MaxTxn))
  BY DEF end_read, sqlite3PagerBegin, end_unchanged
<1>4. /\ UNCHANGED <<pc, job, cache, dirty, dbFileVers, journalHdr, at>>
      /\ eState' = [eState EXCEPT ![c] = eState'[c]]
      /\ \/ eState'[c] = "OPEN" \/ eState'[c] = "READER"
         \/ eState'[c] = "WRITER_LOCKED" /\ nTxn' = nTxn + 1
  BY DEF end_read, sqlite3PagerBegin, end_unchanged, SetState, TypeOK
<1>5. lock' = [lock EXCEPT ![c] = lock'[c]]
  <2>1. LockInv
    OBVIOUS
  <2>2. PICK level : lock' = [lock EXCEPT ![c] = level]
    BY <2>1, ReleaseOne, ReservedCompatible, DowngradeCompatible
       DEF end_read, sqlite3PagerBegin, end_unchanged
  <2> QED
    BY <2>2 DEF TypeOK
<1>6. StepOf(c) /\ LocalTypes(c)'
  BY <1>4, <1>5, HaveTypes DEF StepOf, TypeOK, LocalTypes
<1>7. Committed' = Committed /\ CommittedVers' = CommittedVers
  BY <1>3, FilesSame DEF files
<1>8. Knows(c)
  BY <1>1 DEF ConnOK, ReaderOK
<1>9. Knows(c)' /\ OpenOK(c)'
  BY <1>4, <1>7, <1>8, KnowsMeansOpen DEF Knows, Fresh, OpenOK
<1>10. eState'[c] = "WRITER_LOCKED" => CommittedVers'[1] <= nTxn'
  BY <1>4, <1>7, CommittedFacts
<1>11. ConnOK(c)'
  BY <1>1, <1>4, <1>9, <1>10 DEF ConnOK, ControlOK, ReaderOK, Writer
<1> QED
  BY <1>2, <1>3, <1>6, <1>11, Quiet

LEMMA EndTransactionKeeps ==
  ASSUME PInv, LockInv', NEW c \in Conn, end_transaction(c)
  PROVE  ImageKept
<1> USE DEF PInv, DbInv
<1>1. pc[c] = "unlock" /\ (eState[c] # "ERROR" => ~IsHot(jrnl))
  BY DEF FilesOK, HotAlone, end_transaction
<1>2. UNCHANGED <<files, setting>> /\ nTxn' = nTxn
  BY DEF end_transaction
<1>3. /\ UNCHANGED <<cache, dirty, dbFileVers>> /\ job'[c] = "none"
      /\ eState[c] = "OPEN" => eState'[c] = "OPEN" /\ pc'[c] = "version"
      /\ eState[c] = "ERROR" => eState'[c] = "ERROR" /\ pc'[c] = "idle"
      /\ eState[c] \notin {"OPEN", "ERROR"} => eState'[c] = "READER" /\ pc'[c] = "idle"
  BY DEF end_transaction, TypeOK, SetState, Goto
<1>4. LockInv /\ lock' = [lock EXCEPT ![c] = FL!SHARED_LOCK]
  BY DowngradeCompatible DEF end_transaction
<1>5. StepOf(c)
  BY <1>4 DEF StepOf, end_transaction, SetState, Goto, TypeOK
<1>6. LocalTypes(c)'
  BY HaveTypes DEF LocalTypes, Jobs, end_transaction, TypeOK
<1>7. Committed' = Committed /\ CommittedVers' = CommittedVers
  BY <1>2, FilesSame DEF files
<1>8. CASE eState[c] = "OPEN"
  <2>1. OpenOK(c)
    BY <1>8 DEF ConnOK
  <2>2. OpenOK(c)'
    BY <1>3, <1>7, <2>1 DEF OpenOK, Fresh, EmptyCache
  <2>3. ConnOK(c)'
    BY <1>1, <1>3, <1>8, <2>2 DEF ConnOK, ControlOK, Opening, Writer
  <2> QED
    BY <1>1, <1>2, <1>5, <1>6, <1>8, <2>3, Quiet
<1>9. CASE eState[c] \notin {"OPEN", "ERROR"}
  <2>1. Knows(c)
    BY <1>1, <1>9 DEF ConnOK, ControlOK, Writer, InPhaseOne, RollsBack, WriterOK, Opening
  <2>2. Knows(c)'
    BY <1>3, <1>7, <2>1 DEF Knows, Fresh
  <2>3. ConnOK(c)'
    BY <1>1, <1>3, <1>9, <2>2 DEF ConnOK, ControlOK, ReaderOK, Writer
  <2> QED
    BY <1>1, <1>2, <1>5, <1>6, <1>9, <2>3, Quiet
<1>10. CASE eState[c] = "ERROR"
  <2>1. ConnOK(c)'
    BY <1>3, <1>10 DEF ConnOK, ControlOK, Writer
  <2>2. lock'[c] = FL!SHARED_LOCK /\ ~(FL!SHARED_LOCK >= FL!RESERVED_LOCK)
    BY <1>4 DEF TypeOK, FL!SHARED_LOCK, FL!RESERVED_LOCK
  <2>3. HotHere(c)'
    BY <1>3, <1>10, <2>2 DEF HotHere
  <2> QED
    BY <1>2, <1>5, <1>6, <2>1, <2>3, Quiet
<1> QED
  BY <1>8, <1>9, <1>10

LEMMA ForgetsKeeps ==
  ASSUME PInv, LockInv', NEW c \in Conn, unlock_error(c) \/ Crash(c)
  PROVE  ImageKept
<1> USE DEF PInv, DbInv
<1>1. PICK versions \in {dbFileVers, [dbFileVers EXCEPT ![c] = NoVersion]} : Forgotten({c}, versions)
  BY DEF unlock_error, Crash
<1>2. UNCHANGED <<files, setting>> /\ nTxn' = nTxn
  BY DEF unlock_error, Crash
<1>3. LockInv /\ lock' = [lock EXCEPT ![c] = FL!NO_LOCK]
  BY <1>1, ReleaseOne DEF Forgotten
<1>4. /\ eState' = [eState EXCEPT ![c] = "OPEN"] /\ pc' = [pc EXCEPT ![c] = "idle"]
      /\ job' = [job EXCEPT ![c] = "none"] /\ cache' = [cache EXCEPT ![c] = EmptyCache]
      /\ dirty' = [dirty EXCEPT ![c] = {}] /\ journalHdr' = [journalHdr EXCEPT ![c] = 0]
      /\ at' = [at EXCEPT ![c] = 0]
  BY <1>1 DEF Forgotten, TypeOK
<1>5. NoVersion \in Version /\ EmptyCache \in [Page -> Content \cup {None}]
  BY PagerAssumption DEF NoVersion, Version, EmptyCache
<1>6. /\ dbFileVers' = [dbFileVers EXCEPT ![c] = dbFileVers'[c]] /\ dbFileVers'[c] \in Version
  BY <1>1, <1>5 DEF Forgotten, TypeOK
<1>7. StepOf(c) /\ LocalTypes(c)'
  <2>1. StepOf(c)
    BY <1>3, <1>4, <1>6 DEF StepOf, TypeOK
  <2> QED
    BY <1>4, <1>5, <1>6, <2>1 DEF LocalTypes, Jobs, TypeOK
<1>8. eState'[c] = "OPEN" /\ pc'[c] = "idle" /\ job'[c] = "none" /\ cache'[c] = EmptyCache
      /\ lock'[c] = FL!NO_LOCK /\ dirty'[c] = {}
  BY <1>3, <1>4 DEF TypeOK
<1>9. ConnOK(c)'
  BY <1>8 DEF ConnOK, ControlOK, OpenOK, Writer, EmptyCache
<1>10. HotHere(c)'
  BY <1>8 DEF HotHere, FL!NO_LOCK, FL!RESERVED_LOCK
<1> QED
  BY <1>2, <1>7, <1>9, <1>10, Quiet

LEMMA WriterJournalSame ==
  ASSUME NEW c \in Conn, WriterJournalOK(c), UNCHANGED <<files, nTxn>>,
         eState'[c] = eState[c], journalHdr'[c] = journalHdr[c]
  PROVE  WriterJournalOK(c)'
<1>1. Committed' = Committed /\ CommittedVers' = CommittedVers
  BY FilesSame DEF files
<1>2. \A p \in Page : Settled(p)' = Settled(p)
  BY <1>1 DEF Settled, files
<1> QED
  BY <1>1, <1>2 DEF WriterJournalOK, Sized, files

\* A clean page comes into the cache, or leaves it.
LEMMA CleanPageStep ==
  ASSUME PInv, LockInv', NEW c \in Conn, InUse(c), NEW p \in Page, NEW content,
         content \in {None, db[p]}, cache[c][p] \in {None, db[p]}, p # 1,
         eState[c] \in Writer => p \notin dirty[c],
         cache' = [cache EXCEPT ![c][p] = content],
         UNCHANGED <<files, lock, eState, pc, job, dirty, dbFileVers, journalHdr, at, nTxn, setting>>
  PROVE  ImageKept
<1> USE DEF PInv, DbInv
<1>1. pc[c] = "idle" /\ job[c] = "none" /\ eState[c] \in Writer \cup {"READER", "WRITER_LOCKED"}
  BY DEF InUse, ConnOK, ControlOK, InPhaseOne, RollsBack, Writer
<1>2. UNCHANGED <<files, setting>> /\ nTxn' = nTxn
  BY DEF files
<1>3. /\ cache[c] \in [Page -> Content \cup {None}] /\ db[p] \in Content /\ db[p] # None
      /\ cache'[c] = [cache[c] EXCEPT ![p] = content]
  BY NoneIsNoContent DEF TypeOK
<1>4. StepOf(c) /\ LocalTypes(c)'
  <2>1. StepOf(c)
    BY DEF StepOf, TypeOK
  <2>2. cache'[c] \in [Page -> Content \cup {None}]
    BY <1>3
  <2> QED
    BY <2>1, <2>2, HaveTypes DEF LocalTypes
<1>5. Committed' = Committed /\ CommittedVers' = CommittedVers
  BY <1>2, FilesSame DEF files
<1>6. IsHot(jrnl) => HotHere(c)'
  BY DEF HotHere, FilesOK, HotAlone
<1>7. CASE eState[c] \in {"READER", "WRITER_LOCKED"}
  <2>1. Knows(c) /\ Committed = db
    BY <1>1, <1>7, ReadsCommitted DEF ConnOK, ReaderOK
  <2>2. Fresh(c)'
    BY <1>3, <1>5, <2>1 DEF Knows, Fresh
  <2>3. Knows(c)'
    BY <1>3, <1>5, <2>1, <2>2 DEF Knows
  <2>4. ConnOK(c)'
    BY <1>1, <1>5, <1>7, <2>3 DEF ConnOK, ReaderOK, Writer, ControlOK
  <2> QED
    BY <1>2, <1>4, <1>6, <2>4, Quiet
<1>8. CASE eState[c] \in Writer
  <2>1. WriterJournalOK(c) /\ WriterImageOK(c)
    BY <1>1, <1>8 DEF ConnOK, WriterOK
  <2>2. View(c)' = View(c)
    <3>1. \A q \in Page : (IF cache'[c][q] = None THEN db[q] ELSE cache'[c][q]) =
                          (IF cache[c][q] = None THEN db[q] ELSE cache[c][q])
      BY <1>3
    <3> QED
      BY <3>1 DEF View, files
  <2>3. /\ \E n \in jrnl'.orig .. MaxPage : Sized(View(c)', n)
        /\ \A q \in dirty'[c] : cache'[c][q] # None /\ (q <= jrnl'.orig => q \in InJournal')
    BY <1>3, <1>8, <2>1, <2>2 DEF WriterImageOK, files, Sized, InJournal
  <2>4. \A q \in Page \ dirty'[c] : cache'[c][q] \in {None, db'[q]}
    BY <1>3, <2>1 DEF WriterImageOK, files
  <2>5. cache'[c][1] # None
    BY <1>3, <2>1 DEF WriterImageOK
  <2>6. WriterImageOK(c)'
    BY <1>1, <1>5, <2>1, <2>3, <2>4, <2>5 DEF WriterImageOK, files, Sized, VersionOf
  <2>7. WriterJournalOK(c)'
    BY <2>1, WriterJournalSame DEF files
  <2>8. ConnOK(c)'
    BY <1>1, <1>8, <2>6, <2>7 DEF ConnOK, ControlOK, WriterOK, Writer
  <2> QED
    BY <1>2, <1>4, <1>6, <2>8, Quiet
<1> QED
  BY <1>1, <1>7, <1>8

LEMMA ReadKeeps ==
  ASSUME PInv, LockInv', NEW c \in Conn, NEW p \in Page,
         sqlite3PagerGet(c, p) \/ recycle_page(c, p)
  PROVE  ImageKept
<1> USE DEF PInv, DbInv
<1>1. InUse(c) /\ pc[c] = "idle" /\ job[c] = "none"
      /\ eState[c] \in Writer \cup {"READER", "WRITER_LOCKED"}
  BY DEF sqlite3PagerGet, recycle_page, InUse, ConnOK, ControlOK, InPhaseOne, RollsBack, Writer
<1>2. eState[c] \in {"READER", "WRITER_LOCKED"} =>
        Knows(c) /\ Committed = db
  BY <1>1, ReadsCommitted DEF ConnOK, ReaderOK
<1>3. eState[c] \in Writer => WriterImageOK(c)
  BY <1>1 DEF ConnOK, WriterOK
<1>4. cache[c][1] # None
  BY <1>1, <1>2, <1>3 DEF Knows, WriterImageOK
<1>5. eState[c] \in Writer /\ cache[c][p] = None => p \notin dirty[c]
  BY <1>3 DEF WriterImageOK
<1>6. CASE sqlite3PagerGet(c, p)
  <2>1. cache[c][p] = None /\ p # 1 /\ View(c)[p] = db[p]
    BY <1>4, <1>6 DEF sqlite3PagerGet, View
  <2>2. cache' = [cache EXCEPT ![c][p] = db[p]] /\ dbFileVers' = dbFileVers
    BY <1>6, <2>1 DEF sqlite3PagerGet, Fetch
  <2> QED
    BY <1>1, <1>5, <1>6, <2>1, <2>2, CleanPageStep DEF sqlite3PagerGet
<1>7. CASE recycle_page(c, p)
  <2>1. cache[c][p] \in {None, db[p]}
    BY <1>1, <1>2, <1>3, <1>7 DEF recycle_page, Knows, Fresh, WriterImageOK
  <2> QED
    BY <1>1, <1>7, <2>1, CleanPageStep DEF recycle_page
<1> QED
  BY <1>6, <1>7

\* What makes a rollback possible: the pages without a record are as they were.
Undoable(c) ==
  /\ cache[c][1] # None
  /\ \A p \in Page : p <= jrnl.orig /\ p \notin InJournal => cache[c][p] \in {None, Committed[p]}
  /\ 1 \notin InJournal => dbFileVers[c] = CommittedVers

\* A page of the old file that has no record was not written.
LEMMA Unrecorded ==
  ASSUME TypeOK, FilesOK, NEW c \in Conn, eState[c] \in Writer \cup {"WRITER_FINISHED"},
         WriterJournalOK(c), NEW p \in Page, p <= jrnl.orig, p \notin InJournal
  PROVE  Settled(p) /\ db[p] = Committed[p]
<1>1. jrnl \in Journal /\ jrnl.orig \in Nat
  BY RecordsOf DEF WriterJournalOK, TypeOK
<1>2. ~(p > jrnl.orig)
  BY <1>1, PageRange
<1>3. ~\E i \in 1 .. journalHdr[c] : jrnl.recs[i].pgno = p
  <2> SUFFICES ASSUME NEW i \in 1 .. journalHdr[c], jrnl.recs[i].pgno = p PROVE FALSE
    OBVIOUS
  <2>1. jrnl.syncedCount \in Nat /\ jrnl.synced \in Nat /\ Len(jrnl.recs) \in Nat
        /\ DOMAIN jrnl.recs = 1 .. Len(jrnl.recs) /\ journalHdr[c] \in Nat
    BY <1>1, RecordsOf DEF TypeOK
  <2>2. i \in DOMAIN jrnl.recs
    BY <2>1 DEF WriterJournalOK, FilesOK, JournalOK
  <2> QED
    BY <2>2 DEF InJournal, WriterJournalOK
<1>4. Settled(p)
  BY <1>2, <1>3 DEF WriterJournalOK, Writer
<1> QED
  BY <1>4 DEF Settled

LEMMA WriterUndoable ==
  ASSUME TypeOK, FilesOK, NEW c \in Conn, eState[c] \in Writer \cup {"WRITER_FINISHED"},
         WriterJournalOK(c), WriterImageOK(c)
  PROVE  Undoable(c)
<1>1. 1 \in Page
  BY CommittedFacts
<1>2. ASSUME NEW p \in Page, p <= jrnl.orig, p \notin InJournal
      PROVE  cache[c][p] \in {None, Committed[p]}
  BY <1>2, Unrecorded DEF WriterImageOK
<1>3. 1 \notin InJournal => dbFileVers[c] = CommittedVers
  BY <1>1, Unrecorded DEF WriterImageOK, WriterJournalOK, CommittedVers
<1> QED
  BY <1>2, <1>3 DEF Undoable, WriterImageOK

LEMMA UndoableRollback ==
  ASSUME jrnl' \in Journal, JournalOK(jrnl'), NEW c \in Conn, Undoable(c)',
         pc'[c] = "playback", at'[c] = 0
  PROVE  RollbackOK(c)'
<1>1. /\ Len(jrnl'.recs) \in Nat /\ DOMAIN jrnl'.recs = 1 .. Len(jrnl'.recs)
      /\ \A i \in DOMAIN jrnl'.recs : ~(i < 0)
  BY RecordsOf
<1>2. InJournal' = {jrnl'.recs[i].pgno : i \in DOMAIN jrnl'.recs}
  BY RecordsOf DEF InJournal
<1>3. (\A i \in DOMAIN jrnl'.recs : jrnl'.recs[i].pgno # 1) => 1 \notin InJournal'
  BY <1>2
<1>4. PlayedBackCache(c)' /\ PlayedBack(c)'
  BY <1>1, <1>3 DEF Undoable, PlayedBackCache, PlayedBack
<1> QED
  BY <1>1, <1>4 DEF RollbackOK, Undoable

\* A writer goes on without touching a page.
LEMMA WriterStep ==
  ASSUME PInv, LockInv', NEW c \in Conn, eState[c] \in Writer, job[c] # "rollback",
         UNCHANGED <<files, eState, cache, dirty, dbFileVers, journalHdr, nTxn, setting>>,
         StepOf(c), LocalTypes(c)', ControlOK(eState[c], pc'[c], job'[c]),
         IsHot(jrnl) => (lock'[c] >= FL!RESERVED_LOCK => lock'[c] = FL!EXCLUSIVE_LOCK),
         \/ /\ job'[c] = "rollback" /\ at'[c] = 0 /\ pc'[c] = "playback"
         \/ /\ job'[c] \in {"none", "commit", "spill"} /\ pc[c] # "pages"
            /\ pc'[c] \in {"idle", "lock", "sync", "header", "spill"}
            /\ job'[c] = "commit" => job[c] = "commit"
            /\ job'[c] = "spill" => at'[c] \in dirty[c] \ {1}
            /\ pc'[c] = "spill" => (at'[c] <= jrnl.orig =>
                 \E i \in 1 .. journalHdr[c] : jrnl.recs[i].pgno = at'[c])
  PROVE  ImageKept
<1> USE DEF PInv, DbInv
<1>1. WriterJournalOK(c) /\ WriterImageOK(c) /\ pc[c] \notin {"unlock", "finalize"}
  BY DEF ConnOK, WriterOK, ControlOK, Writer, InPhaseOne, RollsBack
<1>2. UNCHANGED <<files, setting>> /\ nTxn' = nTxn
  BY DEF files
<1>3. Committed' = Committed /\ CommittedVers' = CommittedVers
  BY <1>2, FilesSame DEF files
<1>4. WriterJournalOK(c)'
  BY <1>1, WriterJournalSame DEF files
<1>5. jrnl \in Journal /\ JournalOK(jrnl)
  BY <1>1 DEF WriterJournalOK, TypeOK, FilesOK
<1>7. WriterOK(c)'
  <2>1. pc'[c] # "unlock"
    OBVIOUS
  <2>2. CASE job'[c] = "rollback"
    <3>1. at'[c] = 0 /\ pc'[c] = "playback"
      BY <2>2
    <3>2. Undoable(c)'
      BY <1>1, <1>3, WriterUndoable DEF Undoable, InJournal, files
    <3>3. jrnl' \in Journal /\ JournalOK(jrnl')
      BY <1>5 DEF files
    <3>4. RollbackOK(c)'
      BY <3>1, <3>2, <3>3, UndoableRollback
    <3> QED
      BY <1>4, <2>1, <2>2, <3>4 DEF WriterOK
  <2>3. CASE job'[c] # "rollback"
    <3>1. View(c)' = View(c)
      BY DEF View, files
    <3>2. WriterImageOK(c)'
      BY <1>1, <1>3, <2>3, <3>1 DEF WriterImageOK, files, Sized, InJournal, VersionOf
    <3> QED
      BY <1>4, <2>1, <2>3, <3>2 DEF WriterOK
  <2> QED
    BY <2>2, <2>3
<1>8. ConnOK(c)'
  BY <1>7 DEF ConnOK, Writer
<1>9. IsHot(jrnl) => HotHere(c)'
  BY DEF HotHere, Writer
<1> QED
  BY <1>2, <1>8, <1>9, Quiet

LEMMA LockAndSpillKeeps ==
  ASSUME PInv, LockInv', NEW c \in Conn,
         pending_lock(c) \/ exclusive_lock(c) \/ exclusive_busy(c) \/ \E p \in Page : pagerStress(c, p)
  PROVE  ImageKept
<1> USE DEF PInv, DbInv
<1>1. /\ UNCHANGED <<files, eState, cache, dirty, dbFileVers, journalHdr, nTxn, setting>>
      /\ pc[c] \in {"lock", "idle"} /\ (pc[c] = "idle" => eState[c] \in Writer)
      /\ pc' = [pc EXCEPT ![c] = pc'[c]] /\ job' = [job EXCEPT ![c] = job'[c]]
      /\ at' = [at EXCEPT ![c] = at'[c]]
  BY DEF pending_lock, exclusive_lock, exclusive_busy, pagerStress, pager, files, Goto, TypeOK
<1>2. eState[c] \in Writer /\ job[c] \in {"none", "commit", "spill"}
      /\ (pc[c] = "lock" => job[c] \in {"commit", "spill"})
  BY <1>1 DEF ConnOK, ControlOK, InPhaseOne, RollsBack, Writer, Opening
<1>3. LockInv
  OBVIOUS
<1>4. WriterJournalOK(c) /\ WriterImageOK(c)
  BY <1>1, <1>2 DEF ConnOK, WriterOK
<1>5. IsHot(jrnl) => (lock[c] >= FL!RESERVED_LOCK => lock[c] = FL!EXCLUSIVE_LOCK)
  BY DEF FilesOK, HotAlone
<1>6. CASE pending_lock(c)
  <2>1. /\ lock' = [lock EXCEPT ![c] = FL!PENDING_LOCK] /\ lock[c] = FL!RESERVED_LOCK
        /\ UNCHANGED <<pc, job, at>> /\ pc[c] = "lock"
    BY <1>3, <1>6, PendingCompatible DEF pending_lock, FL!Pending, pager
  <2>2. ~IsHot(jrnl)
    BY <1>5, <2>1 DEF FL!RESERVED_LOCK, FL!EXCLUSIVE_LOCK
  <2>3. StepOf(c) /\ LocalTypes(c)'
    BY <1>1, <2>1, HaveTypes DEF StepOf, LocalTypes, TypeOK
  <2>4. ControlOK(eState[c], pc'[c], job'[c])
    BY <2>1 DEF ConnOK
  <2>5. job'[c] = "spill" => at'[c] \in dirty[c] \ {1}
    BY <1>4, <2>1 DEF WriterImageOK
  <2> QED
    BY <1>1, <1>2, <2>1, <2>2, <2>3, <2>4, <2>5, WriterStep
<1>7. CASE exclusive_lock(c)
  <2>1. /\ lock' = [lock EXCEPT ![c] = FL!EXCLUSIVE_LOCK] /\ UNCHANGED <<job, at>>
        /\ pc[c] = "lock" /\ pc'[c] \in {"sync", "header"}
    BY <1>3, <1>7, ExclusiveCompatible DEF exclusive_lock, TypeOK, Goto
  <2>2. StepOf(c) /\ LocalTypes(c)'
    BY <1>1, <2>1, HaveTypes DEF StepOf, LocalTypes, TypeOK
  <2>3. ControlOK(eState[c], pc'[c], job'[c])
    BY <1>2, <2>1 DEF ControlOK, InPhaseOne
  <2>4. (job'[c] = "spill" => at'[c] \in dirty[c] \ {1}) /\ lock'[c] = FL!EXCLUSIVE_LOCK
    BY <1>4, <2>1 DEF WriterImageOK, TypeOK
  <2> QED
    BY <1>1, <1>2, <2>1, <2>2, <2>3, <2>4, WriterStep
<1>8. CASE exclusive_busy(c)
  <2>1. /\ lock' = lock /\ pc'[c] = "idle" /\ job'[c] = "none" /\ at'[c] = 0 /\ pc[c] = "lock"
    BY <1>8 DEF exclusive_busy, TypeOK, Goto
  <2>2. StepOf(c) /\ LocalTypes(c)'
    BY <1>1, <2>1, HaveTypes DEF StepOf, LocalTypes, TypeOK, Jobs
  <2>3. ControlOK(eState[c], pc'[c], job'[c])
    BY <1>2, <2>1 DEF ControlOK, Writer
  <2> QED
    BY <1>1, <1>2, <1>5, <2>1, <2>2, <2>3, WriterStep
<1>9. ASSUME NEW p \in Page, pagerStress(c, p) PROVE ImageKept
  <2>1. /\ lock' = lock /\ pc[c] = "idle" /\ job'[c] = "spill" /\ at'[c] = p /\ p \in dirty[c] \ {1}
        /\ \/ pc'[c] = "lock"
           \/ pc'[c] = "spill" /\ eState[c] = "WRITER_DBMOD" /\ ~NeedSync(c, p)
    BY <1>9 DEF pagerStress, TypeOK, Goto, Writer
  <2>2. StepOf(c) /\ LocalTypes(c)'
    BY <1>1, <2>1, HaveTypes, PageRange DEF StepOf, LocalTypes, TypeOK, Jobs
  <2>3. ControlOK(eState[c], pc'[c], job'[c])
    BY <1>2, <2>1 DEF ControlOK, InPhaseOne
  <2>4. ASSUME pc'[c] = "spill", p <= jrnl.orig
        PROVE  \E i \in 1 .. journalHdr[c] : jrnl.recs[i].pgno = p
    <3>1. jrnl \in Journal
      BY <1>4 DEF WriterJournalOK, TypeOK
    <3>2. p \in InJournal
      BY <1>4, <2>1, <2>4 DEF WriterImageOK
    <3>3. PICK i \in DOMAIN jrnl.recs : jrnl.recs[i].pgno = p
      BY <3>1, <3>2, RecordsOf DEF InJournal
    <3>4. ~(i > journalHdr[c])
      BY <2>1, <2>4, <3>3 DEF NeedSync
    <3>5. journalHdr[c] \in Nat /\ Len(jrnl.recs) \in Nat /\ i \in 1 .. Len(jrnl.recs)
      BY <3>1, <3>3, RecordsOf DEF TypeOK
    <3> QED
      BY <3>3, <3>4, <3>5
  <2> QED
    BY <1>1, <1>2, <1>5, <2>1, <2>2, <2>3, <2>4, WriterStep
<1> QED
  BY <1>6, <1>7, <1>8, <1>9

LEMMA RollbackKeeps ==
  ASSUME PInv, LockInv', NEW c \in Conn,
         \/ sqlite3PagerRollback(c)
         \/ commit_fails(c) /\ UNCHANGED <<db, unsynced>>
  PROVE  ImageKept
<1> USE DEF PInv, DbInv
<1>1. /\ UNCHANGED <<files, lock, eState, cache, dirty, dbFileVers, journalHdr, nTxn, setting>>
      /\ pc' = [pc EXCEPT ![c] = "playback"] /\ job' = [job EXCEPT ![c] = "rollback"]
      /\ at' = [at EXCEPT ![c] = 0]
      /\ \/ pc[c] = "idle" /\ eState[c] \in Writer
         \/ job[c] = "commit" /\ pc[c] \in PhaseOne
  BY DEF sqlite3PagerRollback, commit_fails, files, Goto
<1>2. eState[c] \in Writer /\ job[c] \in {"none", "commit"}
  BY <1>1 DEF ConnOK, ControlOK, InPhaseOne, RollsBack, Writer, PhaseOne
<1>3. StepOf(c) /\ LocalTypes(c)' /\ pc'[c] = "playback" /\ job'[c] = "rollback" /\ at'[c] = 0
  BY <1>1, HaveTypes DEF StepOf, LocalTypes, TypeOK, Jobs
<1>4. ControlOK(eState[c], pc'[c], job'[c])
  BY <1>2, <1>3 DEF ControlOK, RollsBack
<1>5. IsHot(jrnl) => (lock'[c] >= FL!RESERVED_LOCK => lock'[c] = FL!EXCLUSIVE_LOCK)
  BY <1>1 DEF FilesOK, HotAlone
<1> QED
  BY <1>1, <1>2, <1>3, <1>4, <1>5, WriterStep

LEMMA ErrorKeeps ==
  ASSUME PInv, LockInv', NEW c \in Conn, pager_error(c), UNCHANGED <<db, unsynced>>
  PROVE  ImageKept
<1> USE DEF PInv, DbInv
<1>1. /\ UNCHANGED <<files, lock, cache, dirty, dbFileVers, journalHdr, nTxn, setting>>
      /\ pc' = [pc EXCEPT ![c] = "idle"] /\ job' = [job EXCEPT ![c] = "none"]
      /\ at' = [at EXCEPT ![c] = 0] /\ eState' = [eState EXCEPT ![c] = "ERROR"]
  BY DEF pager_error, files, Goto, SetState
<1>2. StepOf(c) /\ LocalTypes(c)' /\ pc'[c] = "idle" /\ job'[c] = "none" /\ eState'[c] = "ERROR"
  BY <1>1, HaveTypes DEF StepOf, LocalTypes, TypeOK, Jobs
<1>3. ConnOK(c)'
  BY <1>2 DEF ConnOK, ControlOK, Writer
<1>4. IsHot(jrnl) => HotHere(c)'
  BY <1>1, <1>2 DEF FilesOK, HotAlone, HotHere
<1> QED
  BY <1>1, <1>2, <1>3, <1>4, Quiet DEF files

-----------------------------------------------------------------------------
(* Steps of the one that changes the files, and keeps the committed image *)

\* The original of the page is safe on the disk.
Covered(p) ==
  /\ IsHot(jrnl) /\ jrnl.syncedMagic /\ jrnl.entry
  /\ p > jrnl.orig \/ \E i \in 1 .. jrnl.syncedCount :
                        jrnl.recs[i] = [pgno |-> p, content |-> Committed[p]]

LEMMA MinOfTwo ==
  ASSUME NEW a \in Nat, NEW b \in Nat, a <= b
  PROVE  Min({a, b}) = a
<1>1. \E x \in {a, b} : \A y \in {a, b} : x <= y
  OBVIOUS
<1>2. Min({a, b}) \in {a, b} /\ \A y \in {a, b} : Min({a, b}) <= y
  BY <1>1 DEF Min
<1> QED
  BY <1>2

LEMMA SafeMeansCovered ==
  ASSUME jrnl \in Journal \cup {None}, jrnl # None => JournalOK(jrnl)
  PROVE  OriginalsAreSafe <=> \A p \in Page : Settled(p) \/ Covered(p)
<1>1. ASSUME IsHot(jrnl) PROVE Min({jrnl.syncedCount, jrnl.synced}) = jrnl.syncedCount
  BY <1>1, RecordsOf, MinOfTwo DEF IsHot, JournalOK
<1> QED
  BY <1>1 DEF OriginalsAreSafe, Covered, Settled

LEMMA SafeNow ==
  ASSUME TypeOK, FilesOK, NEW p \in Page
  PROVE  Settled(p) \/ Covered(p)
BY SafeMeansCovered DEF TypeOK, FilesOK

LEMMA SafeThen ==
  ASSUME jrnl' \in Journal \cup {None}, jrnl' # None => JournalOK(jrnl'),
         \A p \in Page : Settled(p)' \/ Covered(p)'
  PROVE  OriginalsAreSafe'
<1>1. ASSUME IsHot(jrnl') PROVE Min({jrnl'.syncedCount, jrnl'.synced}) = jrnl'.syncedCount
  BY <1>1, RecordsOf, MinOfTwo DEF IsHot, JournalOK
<1> QED
  BY <1>1 DEF OriginalsAreSafe, Covered, Settled, IsHot

LEMMA FileStep ==
  ASSUME PInv, LockInv', NEW c \in Conn, lock[c] >= FL!RESERVED_LOCK,
         StepOf(c), LocalTypes(c)', UNCHANGED <<nTxn, setting>>,
         db' \in [Page -> Content], unsynced' \in [Page -> SUBSET Content],
         jrnl' \in Journal \cup {None}, unlinked' \in Journal \cup {None},
         Committed' = Committed,
         jrnl' # None => JournalOK(jrnl'), Absent \notin unsynced'[1] \cup {db'[1]},
         \A p \in Page : Settled(p)' \/ Covered(p)', UnlinkedOK',
         IsHot(jrnl') => /\ IsHot(jrnl) \/ lock[c] = FL!EXCLUSIVE_LOCK
                         /\ jrnl'.orig >= 1 /\ HotHere(c)',
         ConnOK(c)'
  PROVE  ImageKept
<1> USE DEF PInv, DbInv
<1>1. TypeOK' /\ \A d \in Conn \ {c} : Untouched(d)
  <2>1. FileTypes'
    BY HaveTypes DEF FileTypes
  <2> QED
    BY <2>1, StepTypes
<1>2. \A d \in Conn \ {c} : ConnOK(d)'
  BY <1>1, OneReserved, ReaderKept
<1>3. ImageOK(Committed)'
  BY DEF FilesOK, ImageOK, Sized, VersionOf
<1>4. OriginalsAreSafe' /\ HotAlone'
  BY <1>1, SafeThen, HotStep DEF FilesOK
<1> QED
  BY <1>1, <1>2, <1>3, <1>4 DEF FilesOK, ImageKept

\* The playback takes the same of two journals that count the same records.
LEMMA SameCounted ==
  ASSUME NEW image, NEW j \in Journal, NEW k \in Journal, JournalOK(j), JournalOK(k),
         j.orig = k.orig, j.counted = k.counted, \A i \in 1 .. j.counted : j.recs[i] = k.recs[i]
  PROVE  Restored(image, j) = Restored(image, k)
<1>1. ASSUME NEW p \in Page PROVE Restored(image, j)[p] = Restored(image, k)[p]
  <2>1. CASE p > j.orig
    BY <2>1, RestoredOther
  <2>2. CASE ~(p > j.orig) /\ \A i \in 1 .. j.counted : j.recs[i].pgno # p
    BY <2>2, RestoredOther
  <2>3. CASE \E i \in 1 .. j.counted : j.recs[i].pgno = p
    <3>1. PICK i \in 1 .. j.counted : j.recs[i].pgno = p
      BY <2>3
    <3> QED
      BY <3>1, RestoredRecord
  <2> QED
    BY <2>1, <2>2, <2>3
<1> QED
  BY <1>1, RestoredIsFunction

LEMMA SyncedFacts ==
  ASSUME NEW j \in Journal, JournalOK(j), NEW entry \in BOOLEAN
  PROVE  LET k == [SyncedJournal(j) EXCEPT !.entry = entry]
         IN  /\ k \in Journal /\ JournalOK(k)
             /\ k.recs = j.recs /\ k.orig = j.orig /\ k.magic = j.magic /\ k.counted = j.counted
             /\ k.entry = entry /\ k.synced = Len(j.recs) /\ k.syncedMagic = j.magic
             /\ k.syncedCount = j.counted
             /\ j.syncedCount <= k.syncedCount
<1>1. Len(j.recs) \in Nat /\ j.counted \in Nat
  BY RecordsOf
<1> DEFINE k == [SyncedJournal(j) EXCEPT !.entry = entry]
<1>2. /\ k.recs = j.recs /\ k.orig = j.orig /\ k.magic = j.magic /\ k.counted = j.counted
      /\ k.entry = entry /\ k.synced = Len(j.recs) /\ k.syncedMagic = j.magic
      /\ k.syncedCount = j.counted /\ k \in Journal
  BY <1>1 DEF SyncedJournal, Journal
<1>3. JournalOK(k)
  <2> HIDE DEF k
  <2> QED
    BY <1>1, <1>2, RecordsOf DEF JournalOK
<1> QED
  BY <1>2, <1>3 DEF JournalOK

LEMMA CoveredStays ==
  ASSUME TypeOK, jrnl' \in Journal, NEW p \in Page, Covered(p), Committed' = Committed,
         \A i \in 1 .. jrnl.syncedCount : jrnl'.recs[i] = jrnl.recs[i],
         jrnl'.orig = jrnl.orig, jrnl'.magic, jrnl'.syncedMagic, jrnl'.entry, jrnl.syncedCount <= jrnl'.syncedCount
  PROVE  Covered(p)'
<1>1. jrnl \in Journal /\ jrnl.syncedCount \in Nat /\ jrnl'.syncedCount \in Nat /\ jrnl' # None
  BY RecordsOf DEF Covered, IsHot, TypeOK
<1> QED
  BY <1>1 DEF Covered, IsHot

\* The same records, counted by the same headers, whatever of them is on the disk.
LEMMA SameRestored ==
  ASSUME jrnl # None, jrnl' # None, db' = db, jrnl'.recs = jrnl.recs, jrnl'.orig = jrnl.orig,
         jrnl'.magic = jrnl.magic, jrnl'.counted = jrnl.counted
  PROVE  Committed' = Committed /\ CommittedVers' = CommittedVers
<1>1. (IsHot(jrnl)' <=> IsHot(jrnl)) /\ Restored(db, jrnl)' = Restored(db, jrnl)
  BY DEF IsHot, Restored
<1>2. Committed' = Committed
  BY <1>1 DEF Committed
<1> QED
  BY <1>2 DEF CommittedVers, VersionOf

LEMMA LevelOfState ==
  ASSUME LockInv, NEW c \in Conn
  PROVE  /\ eState[c] \in Writer \cup {"WRITER_LOCKED", "WRITER_FINISHED"} => lock[c] >= FL!RESERVED_LOCK
         /\ \/ eState[c] \in {"WRITER_DBMOD", "WRITER_FINISHED"}
            \/ pc[c] \in {"reopen", "sync", "header", "resync", "pages", "spill"}
            \/ eState[c] = "OPEN" /\ pc[c] \in {"playback", "finalize", "unlock"}
            => lock[c] = FL!EXCLUSIVE_LOCK /\ lock[c] >= FL!RESERVED_LOCK
BY Now DEF Stands, FL!RESERVED_LOCK, FL!EXCLUSIVE_LOCK

LEMMA ReopenKeeps ==
  ASSUME PInv, LockInv', NEW c \in Conn, reopen_journal(c)
  PROVE  ImageKept
<1> USE DEF PInv, DbInv
<1>1. eState[c] = "OPEN" /\ job[c] = "none" /\ pc[c] = "reopen"
  BY DEF reopen_journal, ConnOK, ControlOK, Opening, InPhaseOne, RollsBack
<1>2. LockInv /\ lock[c] = FL!EXCLUSIVE_LOCK /\ lock[c] >= FL!RESERVED_LOCK
  BY <1>1, LevelOfState
<1>3. CASE jrnl = None
  <2>1. lock' = [lock EXCEPT ![c] = FL!SHARED_LOCK] /\ ~IsHot(jrnl)
    BY <1>2, <1>3, DowngradeCompatible DEF reopen_journal, IsHot
  <2> QED
    BY <1>1, <1>3, <2>1, OpeningStep DEF reopen_journal, Goto, files
<1>4. CASE jrnl # None
  <2>1. jrnl \in Journal /\ JournalOK(jrnl) /\ jrnl.entry \in BOOLEAN
    BY <1>4, RecordsOf DEF TypeOK, FilesOK
  <2>2. /\ jrnl' \in Journal /\ JournalOK(jrnl') /\ jrnl' # None
        /\ jrnl'.recs = jrnl.recs /\ jrnl'.orig = jrnl.orig /\ jrnl'.magic = jrnl.magic
        /\ jrnl'.counted = jrnl.counted /\ jrnl'.entry = jrnl.entry
        /\ jrnl'.synced = Len(jrnl.recs) /\ jrnl'.syncedMagic = jrnl.magic
        /\ jrnl'.syncedCount = jrnl.counted /\ jrnl.syncedCount <= jrnl'.syncedCount
    <3>1. jrnl' = [SyncedJournal(jrnl) EXCEPT !.entry = jrnl.entry]
      BY <1>4 DEF reopen_journal
    <3>2. jrnl' \in Journal /\ JournalOK(jrnl')
      BY <2>1, <3>1, SyncedFacts
    <3>3. jrnl' # None
      BY <3>2, RecordsOf
    <3> QED
      BY <2>1, <3>1, <3>2, <3>3, SyncedFacts
  <2>3. /\ job' = [job EXCEPT ![c] = "recover"] /\ at' = [at EXCEPT ![c] = 0]
        /\ journalHdr' = [journalHdr EXCEPT ![c] = Len(jrnl.recs)]
        /\ pc' = [pc EXCEPT ![c] = "playback"]
        /\ UNCHANGED <<db, unsynced, lock, eState, cache, dirty, dbFileVers, nTxn, setting>>
        /\ unlinked' = None \/ unlinked' = unlinked
    BY <1>4 DEF reopen_journal, Goto
  <2>4. Committed' = Committed /\ CommittedVers' = CommittedVers
    BY <1>4, <2>2, <2>3, SameRestored
  <2>5. StepOf(c) /\ LocalTypes(c)'
    BY <2>1, <2>3, HaveTypes, RecordsOf DEF StepOf, LocalTypes, TypeOK, Jobs
  <2>6. \A p \in Page : Settled(p)' = Settled(p)
    BY <2>3, <2>4 DEF Settled
  <2>7. \A p \in Page : Settled(p)' \/ Covered(p)'
    <3>1. SUFFICES ASSUME NEW p \in Page, Covered(p) PROVE Covered(p)'
      BY <2>6, SafeNow
    <3>2. jrnl'.magic /\ jrnl'.syncedMagic /\ jrnl'.entry
      BY <2>2, <3>1 DEF Covered, IsHot
    <3> QED
      BY <2>2, <2>4, <3>1, <3>2, CoveredStays
  <2>8. UnlinkedOK'
    <3>1. CASE unlinked' = unlinked
      <4>1. Restored(db, unlinked)' = Restored(db, unlinked)
        BY <2>3, <3>1 DEF Restored
      <4> QED
        BY <1>4, <2>2, <2>3, <2>6, <3>1, <4>1
           DEF UnlinkedOK, FilesOK, JournalOK, ImageOK, Sized, VersionOf
    <3>2. CASE unlinked' = None
      BY <3>2 DEF UnlinkedOK
    <3> QED
      BY <2>3, <3>1, <3>2
  <2>9. HotHere(c)' /\ (IsHot(jrnl') => jrnl'.orig >= 1)
    BY <1>1, <1>2, <1>4, <2>2, <2>3 DEF HotHere, IsHot, FilesOK, HotAlone, TypeOK
  <2>10. ConnOK(c)'
    <3>1. /\ job'[c] = "recover" /\ at'[c] = 0 /\ journalHdr'[c] = Len(jrnl.recs)
          /\ pc'[c] = "playback" /\ eState'[c] = "OPEN"
      BY <1>1, <2>3 DEF TypeOK
    <3>2. RecoverOK(c)'
      <4>1. jrnl'.counted \in Nat /\ DOMAIN jrnl'.recs = 1 .. Len(jrnl'.recs)
            /\ Len(jrnl'.recs) \in Nat
        BY <2>2, RecordsOf
      <4>2. PlayedBack(c)'
        BY <3>1, <4>1 DEF PlayedBack
      <4> QED
        BY <2>2, <3>1, <4>1, <4>2 DEF RecoverOK
    <3>3. OpenOK(c)'
      BY <1>1, <2>3, <2>4 DEF ConnOK, OpenOK, Fresh, EmptyCache
    <3> QED
      BY <1>1, <2>3, <3>1, <3>2, <3>3 DEF ConnOK, ControlOK, Writer
  <2>11. jrnl' \in Journal \cup {None} /\ unlinked' \in Journal \cup {None}
        /\ db' \in [Page -> Content] /\ unsynced' \in [Page -> SUBSET Content]
        /\ Absent \notin unsynced'[1] \cup {db'[1]}
    BY <2>2, <2>3 DEF TypeOK, FilesOK
  <2> QED
    BY <1>2, <2>2, <2>3, <2>4, <2>5, <2>7, <2>8, <2>9, <2>10, <2>11, FileStep
<1> QED
  BY <1>3, <1>4

\* An fsync of the journal, and what it does for the journal of a transaction.
LEMMA SyncStep ==
  ASSUME TypeOK, FilesOK, NEW c \in Conn, WriterJournalOK(c),
         jrnl' = SyncedJournal(jrnl), unlinked' = None, UNCHANGED <<db, unsynced>>
  PROVE  /\ jrnl \in Journal /\ jrnl' \in Journal /\ JournalOK(jrnl') /\ jrnl' # None
         /\ jrnl'.recs = jrnl.recs /\ jrnl'.orig = jrnl.orig /\ jrnl'.magic = jrnl.magic
         /\ jrnl'.counted = jrnl.counted /\ jrnl'.entry = TRUE
         /\ jrnl'.synced = Len(jrnl.recs) /\ jrnl'.syncedMagic = jrnl.magic
         /\ jrnl'.syncedCount = jrnl.counted /\ jrnl.syncedCount <= jrnl'.syncedCount
         /\ Committed' = Committed /\ CommittedVers' = CommittedVers
         /\ InJournal' = InJournal
         /\ \A p \in Page : Settled(p)' = Settled(p)
         /\ \A p \in Page : Settled(p)' \/ Covered(p)'
<1>1. jrnl \in Journal /\ JournalOK(jrnl) /\ jrnl # None
  BY RecordsOf DEF TypeOK, FilesOK, WriterJournalOK
<1>2. jrnl' = [SyncedJournal(jrnl) EXCEPT !.entry = TRUE]
  BY <1>1 DEF SyncedJournal, Journal
<1>3. jrnl' \in Journal /\ JournalOK(jrnl') /\ jrnl' # None
  <2>1. jrnl' \in Journal /\ JournalOK(jrnl')
    BY <1>1, <1>2, SyncedFacts
  <2> QED
    BY <2>1, RecordsOf
<1>4. /\ jrnl'.recs = jrnl.recs /\ jrnl'.orig = jrnl.orig /\ jrnl'.magic = jrnl.magic
      /\ jrnl'.counted = jrnl.counted /\ jrnl'.entry = TRUE
      /\ jrnl'.synced = Len(jrnl.recs) /\ jrnl'.syncedMagic = jrnl.magic
      /\ jrnl'.syncedCount = jrnl.counted /\ jrnl.syncedCount <= jrnl'.syncedCount
  BY <1>1, <1>2, SyncedFacts
<1>5. Committed' = Committed /\ CommittedVers' = CommittedVers
  BY <1>1, <1>3, <1>4, SameRestored
<1>6. InJournal' = InJournal /\ \A p \in Page : Settled(p)' = Settled(p)
  BY <1>1, <1>3, <1>4, <1>5 DEF InJournal, Settled
<1>7. \A p \in Page : Settled(p)' \/ Covered(p)'
  <2>1. SUFFICES ASSUME NEW p \in Page, Covered(p) PROVE Covered(p)'
    BY <1>6, SafeNow
  <2>2. jrnl'.magic /\ jrnl'.syncedMagic /\ jrnl'.entry
    BY <1>4, <2>1 DEF Covered, IsHot
  <2> QED
    BY <1>3, <1>4, <1>5, <2>1, <2>2, CoveredStays
<1> QED
  BY <1>1, <1>3, <1>4, <1>5, <1>6, <1>7

LEMMA SyncJournalKeeps ==
  ASSUME PInv, LockInv', NEW c \in Conn, sync_journal(c)
  PROVE  ImageKept
<1> USE DEF PInv, DbInv
<1>1. /\ pc[c] = "sync" /\ pc' = [pc EXCEPT ![c] = "header"]
      /\ jrnl' = SyncedJournal(jrnl) /\ unlinked' = None
      /\ UNCHANGED <<db, unsynced, lock, eState, job, cache, dirty, dbFileVers, journalHdr, at,
                     nTxn, setting>>
  BY DEF sync_journal, Goto
<1>2. eState[c] \in Writer /\ job[c] \in {"commit", "spill"}
  BY <1>1 DEF ConnOK, ControlOK, Opening, InPhaseOne, RollsBack
<1>3. LockInv /\ lock[c] = FL!EXCLUSIVE_LOCK /\ lock[c] >= FL!RESERVED_LOCK
  BY <1>1, LevelOfState
<1>4. WriterJournalOK(c) /\ WriterImageOK(c)
  BY <1>1, <1>2 DEF ConnOK, WriterOK
<1>5. /\ jrnl \in Journal /\ jrnl' \in Journal /\ JournalOK(jrnl') /\ jrnl' # None
      /\ jrnl'.recs = jrnl.recs /\ jrnl'.orig = jrnl.orig /\ jrnl'.magic = jrnl.magic
      /\ jrnl'.counted = jrnl.counted /\ jrnl'.entry = TRUE
      /\ jrnl'.synced = Len(jrnl.recs) /\ jrnl'.syncedMagic = jrnl.magic
      /\ jrnl'.syncedCount = jrnl.counted /\ jrnl.syncedCount <= jrnl'.syncedCount
      /\ Committed' = Committed /\ CommittedVers' = CommittedVers
      /\ InJournal' = InJournal
      /\ \A p \in Page : Settled(p)' = Settled(p)
      /\ \A p \in Page : Settled(p)' \/ Covered(p)'
  BY <1>1, <1>4, SyncStep
<1>6. StepOf(c) /\ LocalTypes(c)' /\ pc'[c] = "header"
  BY <1>1, HaveTypes DEF StepOf, LocalTypes, TypeOK
<1>7. jrnl.syncedCount \in Nat /\ jrnl'.syncedCount \in Nat /\ journalHdr[c] \in Nat
  BY <1>5, RecordsOf DEF TypeOK
<1>8. WriterJournalOK(c)'
  <2>1. journalHdr'[c] <= jrnl'.syncedCount
    BY <1>1, <1>4, <1>5, <1>7 DEF WriterJournalOK
  <2> QED
    BY <1>1, <1>4, <1>5, <2>1 DEF WriterJournalOK, Sized
<1>9. WriterImageOK(c)'
  <2>1. View(c)' = View(c)
    BY <1>1 DEF View
  <2> QED
    BY <1>1, <1>2, <1>4, <1>5, <1>6, <2>1 DEF WriterImageOK, Sized, VersionOf
<1>10. ConnOK(c)'
  BY <1>1, <1>2, <1>6, <1>8, <1>9 DEF ConnOK, ControlOK, InPhaseOne, WriterOK, Writer
<1>11. HotHere(c)' /\ jrnl'.orig >= 1
  BY <1>1, <1>2, <1>3, <1>4, <1>5, <1>6 DEF HotHere, Writer, WriterJournalOK
<1>12. UnlinkedOK' /\ Absent \notin unsynced'[1] \cup {db'[1]}
       /\ db' \in [Page -> Content] /\ unsynced' \in [Page -> SUBSET Content]
  BY <1>1 DEF UnlinkedOK, FilesOK, TypeOK
<1> QED
  BY <1>1, <1>3, <1>5, <1>6, <1>10, <1>11, <1>12, FileStep

LEMMA SyncHeaderKeeps ==
  ASSUME PInv, LockInv', NEW c \in Conn, sync_header(c)
  PROVE  ImageKept
<1> USE DEF PInv, DbInv
<1>1. /\ pc[c] = "resync" /\ jrnl' = SyncedJournal(jrnl) /\ unlinked' = None
      /\ journalHdr' = [journalHdr EXCEPT ![c] = Len(jrnl.recs)]
      /\ eState' = [eState EXCEPT ![c] = "WRITER_DBMOD"]
      /\ pc' = [pc EXCEPT ![c] = IF job[c] = "commit" THEN "pages" ELSE "spill"]
      /\ UNCHANGED <<db, unsynced, lock, job, cache, dirty, dbFileVers, at, nTxn, setting>>
  BY DEF sync_header, Goto, SetState
<1>2. eState[c] \in Writer /\ job[c] \in {"commit", "spill"}
  BY <1>1 DEF ConnOK, ControlOK, Opening, InPhaseOne, RollsBack
<1>3. LockInv /\ lock[c] = FL!EXCLUSIVE_LOCK /\ lock[c] >= FL!RESERVED_LOCK
  BY <1>1, LevelOfState
<1>4. WriterJournalOK(c) /\ WriterImageOK(c)
  BY <1>1, <1>2 DEF ConnOK, WriterOK
<1>5. /\ jrnl \in Journal /\ jrnl' \in Journal /\ JournalOK(jrnl') /\ jrnl' # None
      /\ jrnl'.recs = jrnl.recs /\ jrnl'.orig = jrnl.orig /\ jrnl'.magic = jrnl.magic
      /\ jrnl'.counted = jrnl.counted /\ jrnl'.entry = TRUE
      /\ jrnl'.synced = Len(jrnl.recs) /\ jrnl'.syncedMagic = jrnl.magic
      /\ jrnl'.syncedCount = jrnl.counted /\ jrnl.syncedCount <= jrnl'.syncedCount
      /\ Committed' = Committed /\ CommittedVers' = CommittedVers
      /\ InJournal' = InJournal
      /\ \A p \in Page : Settled(p)' = Settled(p)
      /\ \A p \in Page : Settled(p)' \/ Covered(p)'
  BY <1>1, <1>4, SyncStep
<1>6. Len(jrnl.recs) \in Nat /\ DOMAIN jrnl.recs = 1 .. Len(jrnl.recs)
      /\ jrnl.syncedCount \in Nat /\ jrnl.synced \in Nat /\ journalHdr[c] \in Nat
  BY <1>5, RecordsOf DEF TypeOK
<1>7. /\ pc'[c] = (IF job[c] = "commit" THEN "pages" ELSE "spill") /\ journalHdr'[c] = Len(jrnl.recs)
      /\ eState'[c] = "WRITER_DBMOD"
  BY <1>1 DEF TypeOK
<1>8. StepOf(c) /\ LocalTypes(c)'
  BY <1>1, <1>6, HaveTypes DEF StepOf, LocalTypes, TypeOK
<1>9. jrnl.magic /\ jrnl.counted = Len(jrnl.recs)
  BY <1>1, <1>4 DEF WriterImageOK
<1>10. ASSUME NEW p \in Page
       PROVE  \/ Settled(p) \/ p > jrnl.orig
              \/ \E i \in 1 .. Len(jrnl.recs) : jrnl.recs[i].pgno = p
  <2>1. CASE eState[c] = "WRITER_CACHEMOD"
    BY <1>4, <2>1 DEF WriterJournalOK
  <2>2. CASE eState[c] = "WRITER_DBMOD"
    <3>1. journalHdr[c] <= Len(jrnl.recs)
      BY <1>4, <1>6 DEF WriterJournalOK, FilesOK, JournalOK
    <3> QED
      BY <1>4, <1>6, <2>2, <3>1 DEF WriterJournalOK
  <2> QED
    BY <1>2, <2>1, <2>2 DEF Writer
<1>11. WriterJournalOK(c)'
  BY <1>1, <1>4, <1>5, <1>6, <1>7, <1>9, <1>10 DEF WriterJournalOK, Sized
<1>12. WriterImageOK(c)'
  <2>1. View(c)' = View(c)
    BY <1>1 DEF View
  <2>2. ASSUME pc'[c] = "spill", at[c] <= jrnl.orig
        PROVE  \E i \in 1 .. Len(jrnl.recs) : jrnl.recs[i].pgno = at[c]
    <3>1. at[c] \in InJournal
      BY <1>2, <1>4, <1>7, <2>2 DEF WriterImageOK, TypeOK
    <3> QED
      BY <1>5, <1>6, <3>1 DEF InJournal
  <2> QED
    BY <1>1, <1>2, <1>4, <1>5, <1>7, <2>1, <2>2 DEF WriterImageOK, Sized, VersionOf
<1>13. ConnOK(c)'
  BY <1>1, <1>2, <1>7, <1>11, <1>12 DEF ConnOK, ControlOK, InPhaseOne, WriterOK, Writer
<1>14. HotHere(c)' /\ jrnl'.orig >= 1
  BY <1>1, <1>3, <1>4, <1>5, <1>7 DEF HotHere, WriterJournalOK
<1>15. UnlinkedOK' /\ Absent \notin unsynced'[1] \cup {db'[1]}
       /\ db' \in [Page -> Content] /\ unsynced' \in [Page -> SUBSET Content]
  BY <1>1 DEF UnlinkedOK, FilesOK, TypeOK
<1> QED
  BY <1>1, <1>3, <1>5, <1>8, <1>13, <1>14, <1>15, FileStep

\* The whole journal of a transaction restores the committed image.
LEMMA JournalRestores ==
  ASSUME TypeOK, FilesOK, NEW c \in Conn, eState[c] \in Writer \cup {"WRITER_FINISHED"},
         WriterJournalOK(c), NEW j \in Journal, JournalOK(j), j.recs = jrnl.recs,
         j.orig = jrnl.orig, j.counted = Len(jrnl.recs)
  PROVE  Restored(db, j) = Committed
<1>1. jrnl \in Journal
  BY DEF WriterJournalOK, TypeOK
<1>2. /\ DOMAIN jrnl.recs = 1 .. j.counted /\ jrnl.orig \in Nat
      /\ InJournal = {jrnl.recs[i].pgno : i \in DOMAIN jrnl.recs}
  BY <1>1, RecordsOf DEF InJournal, WriterJournalOK
<1>3. ASSUME NEW p \in Page PROVE Restored(db, j)[p] = Committed[p]
  <2>1. CASE p > j.orig
    <3>1. ~(p <= jrnl.orig)
      BY <1>2, <2>1, PageRange
    <3>2. Committed[p] = Absent
      BY <3>1 DEF WriterJournalOK, Sized
    <3> QED
      BY <2>1, <3>2, RestoredOther
  <2>2. CASE ~(p > j.orig) /\ p \notin InJournal
    <3>1. p <= jrnl.orig
      BY <1>2, <2>2, PageRange
    <3>2. db[p] = Committed[p]
      BY <2>2, <3>1, Unrecorded
    <3> QED
      BY <1>2, <2>2, <3>2, RestoredOther
  <2>3. CASE p \in InJournal
    <3>1. PICK i \in 1 .. j.counted : jrnl.recs[i].pgno = p
      BY <1>2, <2>3
    <3>2. jrnl.recs[i].content = Committed[p]
      BY <1>2, <3>1 DEF WriterJournalOK
    <3> QED
      BY <3>1, <3>2, RestoredRecord
  <2> QED
    BY <2>1, <2>2, <2>3
<1>4. Committed \in [Page -> Content]
  BY CommittedFacts
<1> QED
  BY <1>3, <1>4, RestoredIsFunction

LEMMA UnlinkedSame ==
  ASSUME FilesOK, UNCHANGED <<db, unsynced, unlinked, nTxn>>, Committed' = Committed,
         unlinked # None => jrnl' = None \/ ~jrnl'.entry
  PROVE  UnlinkedOK'
<1>1. Restored(db, unlinked)' = Restored(db, unlinked)
  BY DEF Restored
<1>2. \A p \in Page : Settled(p)' = Settled(p)
  BY DEF Settled
<1> QED
  BY <1>1, <1>2 DEF UnlinkedOK, FilesOK, JournalOK, ImageOK, Sized, VersionOf

LEMMA WriteHeaderKeeps ==
  ASSUME PInv, LockInv', NEW c \in Conn, write_header(c)
  PROVE  ImageKept
<1> USE DEF PInv, DbInv
<1>1. /\ pc[c] = "header" /\ jrnl' = [jrnl EXCEPT !.magic = TRUE, !.counted = Len(jrnl.recs)]
      /\ pc' = [pc EXCEPT ![c] = "resync"]
      /\ UNCHANGED <<db, unsynced, unlinked, lock, eState, job, cache, dirty, dbFileVers,
                     journalHdr, at, nTxn, setting>>
  BY DEF write_header, Goto
<1>2. eState[c] \in Writer /\ job[c] \in {"commit", "spill"}
  BY <1>1 DEF ConnOK, ControlOK, Opening, InPhaseOne, RollsBack
<1>3. LockInv /\ lock[c] = FL!EXCLUSIVE_LOCK /\ lock[c] >= FL!RESERVED_LOCK
  BY <1>1, LevelOfState
<1>4. WriterJournalOK(c) /\ WriterImageOK(c)
  BY <1>1, <1>2 DEF ConnOK, WriterOK
<1>5. jrnl \in Journal /\ JournalOK(jrnl) /\ Len(jrnl.recs) \in Nat /\ jrnl.counted \in Nat
      /\ jrnl.syncedCount \in Nat
  BY <1>4, RecordsOf DEF WriterJournalOK, TypeOK, FilesOK
<1>6. /\ jrnl' \in Journal /\ jrnl'.recs = jrnl.recs /\ jrnl'.orig = jrnl.orig
      /\ jrnl'.magic = TRUE /\ jrnl'.counted = Len(jrnl.recs) /\ jrnl'.entry = jrnl.entry
      /\ jrnl'.synced = jrnl.synced /\ jrnl'.syncedMagic = jrnl.syncedMagic
      /\ jrnl'.syncedCount = jrnl.syncedCount
  BY <1>1, <1>5 DEF Journal
<1>7. JournalOK(jrnl') /\ jrnl' # None
  <2>1. jrnl.syncedCount <= Len(jrnl.recs)
    BY <1>5 DEF JournalOK
  <2> QED
    BY <1>5, <1>6, <2>1, RecordsOf DEF JournalOK
<1>8. Committed' = Committed /\ CommittedVers' = CommittedVers
  <2>1. Restored(db, jrnl') = Committed
    BY <1>2, <1>4, <1>6, <1>7, JournalRestores
  <2>2. Committed' = Restored(db, jrnl')
    BY <1>1, <1>6, <1>7 DEF Committed, IsHot, Restored
  <2>3. Committed' = Committed
    BY <2>1, <2>2
  <2> QED
    BY <2>3 DEF CommittedVers, VersionOf
<1>9. InJournal' = InJournal /\ \A p \in Page : Settled(p)' = Settled(p)
  BY <1>1, <1>4, <1>6, <1>7, <1>8 DEF InJournal, Settled, WriterJournalOK
<1>10. \A p \in Page : Settled(p)' \/ Covered(p)'
  <2>1. SUFFICES ASSUME NEW p \in Page, Covered(p) PROVE Covered(p)'
    BY <1>9, SafeNow
  <2>2. jrnl'.magic /\ jrnl'.syncedMagic /\ jrnl'.entry /\ jrnl.syncedCount <= jrnl'.syncedCount
    BY <1>5, <1>6, <2>1 DEF Covered
  <2> QED
    BY <1>6, <1>8, <2>1, <2>2, CoveredStays
<1>11. StepOf(c) /\ LocalTypes(c)' /\ pc'[c] = "resync"
  BY <1>1, HaveTypes DEF StepOf, LocalTypes, TypeOK
<1>12. WriterJournalOK(c)'
  BY <1>1, <1>4, <1>6, <1>7, <1>8, <1>9 DEF WriterJournalOK, Sized
<1>13. WriterImageOK(c)'
  <2>1. View(c)' = View(c)
    BY <1>1 DEF View
  <2> QED
    BY <1>1, <1>2, <1>4, <1>6, <1>8, <1>9, <1>11, <2>1 DEF WriterImageOK, Sized, VersionOf
<1>14. ConnOK(c)'
  BY <1>1, <1>2, <1>11, <1>12, <1>13 DEF ConnOK, ControlOK, InPhaseOne, WriterOK, Writer
<1>15. HotHere(c)' /\ jrnl'.orig >= 1
  BY <1>1, <1>2, <1>3, <1>4, <1>6, <1>11 DEF HotHere, Writer, WriterJournalOK
<1>16. UnlinkedOK'
  <2>1. unlinked # None => ~jrnl'.entry
    BY <1>4, <1>6 DEF FilesOK, UnlinkedOK, WriterJournalOK
  <2> QED
    BY <1>1, <1>8, <2>1, UnlinkedSame
<1>17. Absent \notin unsynced'[1] \cup {db'[1]} /\ unlinked' \in Journal \cup {None}
       /\ db' \in [Page -> Content] /\ unsynced' \in [Page -> SUBSET Content]
  BY <1>1 DEF FilesOK, TypeOK
<1> QED
  BY <1>1, <1>3, <1>6, <1>7, <1>8, <1>10, <1>11, <1>14, <1>15, <1>16, <1>17, FileStep

-----------------------------------------------------------------------------
(* Changing a page in the cache *)

LEMMA SizeOfImage ==
  ASSUME NEW image, NEW n \in 0 .. MaxPage, Sized(image, n)
  PROVE  Size(image) = n
<1>1. {p \in Page : image[p] # Absent} = 1 .. n
  BY PageRange, NoneIsNoContent DEF Sized, Page
<1>2. Cardinality(1 .. n) = n
  BY FS_Interval, PageRange
<1> QED
  BY <1>1, <1>2 DEF Size

\* A record is appended for a page that has none.
WithRecord(o, p, content) ==
  [o EXCEPT !.recs = Append(o.recs, [pgno |-> p, content |-> content])]

LEMMA AppendRecord ==
  ASSUME NEW o \in Journal, JournalOK(o), NEW p \in Page, p <= o.orig, NEW content \in Content,
         \A i \in DOMAIN o.recs : o.recs[i].pgno # p
  PROVE  LET k == WithRecord(o, p, content) IN
         /\ k \in Journal /\ JournalOK(k)
         /\ k.orig = o.orig /\ k.magic = o.magic /\ k.counted = o.counted /\ k.entry = o.entry
         /\ k.synced = o.synced /\ k.syncedMagic = o.syncedMagic /\ k.syncedCount = o.syncedCount
         /\ DOMAIN k.recs = DOMAIN o.recs \cup {Len(o.recs) + 1}
         /\ k.recs[Len(o.recs) + 1] = [pgno |-> p, content |-> content]
         /\ \A i \in DOMAIN o.recs : k.recs[i] = o.recs[i]
<1> DEFINE r == [pgno |-> p, content |-> content]
           k == WithRecord(o, p, content)
<1>1. o.recs \in Seq([pgno : Page, content : Content]) /\ Len(o.recs) \in Nat
      /\ DOMAIN o.recs = 1 .. Len(o.recs)
  BY RecordsOf
<1>2. r \in [pgno : Page, content : Content]
  OBVIOUS
<1>3. /\ k.recs = Append(o.recs, r) /\ k.orig = o.orig /\ k.magic = o.magic
      /\ k.counted = o.counted /\ k.entry = o.entry
      /\ k.synced = o.synced /\ k.syncedMagic = o.syncedMagic /\ k.syncedCount = o.syncedCount
      /\ k.recs \in Seq([pgno : Page, content : Content]) => k \in Journal
  BY DEF Journal, WithRecord
<1> HIDE DEF k
<1>4. /\ k.recs \in Seq([pgno : Page, content : Content]) /\ Len(k.recs) = Len(o.recs) + 1
      /\ \A i \in 1 .. Len(o.recs) : k.recs[i] = o.recs[i]
      /\ k.recs[Len(o.recs) + 1] = r
  BY <1>1, <1>2, <1>3, AppendProperties
<1>5. k \in Journal /\ DOMAIN k.recs = 1 .. Len(k.recs)
  BY <1>3, <1>4, LenProperties
<1>6. DOMAIN k.recs = DOMAIN o.recs \cup {Len(o.recs) + 1}
  BY <1>1, <1>4, <1>5
<1>7. JournalOK(k)
  <2>1. /\ o.counted \in Nat /\ o.synced \in Nat /\ o.syncedCount \in Nat
    BY RecordsOf
  <2>2. \A i \in DOMAIN k.recs : k.recs[i].pgno <= k.orig
    BY <1>1, <1>3, <1>4, <1>6 DEF JournalOK
  <2>3. \A i, l \in DOMAIN k.recs : k.recs[i].pgno = k.recs[l].pgno => i = l
    <3>1. k.recs[Len(o.recs) + 1].pgno = p
      BY <1>4
    <3>2. \A i \in DOMAIN o.recs : k.recs[i] = o.recs[i]
      BY <1>1, <1>4
    <3> QED
      BY <1>6, <3>1, <3>2 DEF JournalOK
  <2> QED
    BY <1>1, <1>3, <1>4, <2>1, <2>2, <2>3 DEF JournalOK
<1> QED
  BY <1>1, <1>3, <1>4, <1>5, <1>6, <1>7 DEF k

\* The journal that Change() writes to, before it does.
Opened(c) ==
  IF eState[c] = "WRITER_LOCKED" THEN NewJournal(dbSize(c), jrnl # None /\ jrnl.entry) ELSE jrnl
OpenedHdr(c) == IF eState[c] = "WRITER_LOCKED" THEN 0 ELSE journalHdr[c]

LEMMA NewJournalOK ==
  ASSUME NEW size \in 0 .. MaxPage, NEW there \in BOOLEAN
  PROVE  LET j == NewJournal(size, there)
         IN  j \in Journal /\ JournalOK(j) /\ j # None /\ ~j.magic /\ j.orig = size
             /\ j.entry = there /\ j.recs = <<>> /\ DOMAIN j.recs = {} /\ j.syncedCount = 0
<1> DEFINE j == NewJournal(size, there)
<1>1. /\ j.recs = <<>> /\ ~j.magic /\ j.orig = size /\ j.entry = there /\ j.counted = 0
      /\ j.synced = 0 /\ ~j.syncedMagic /\ j.syncedCount = 0
  BY DEF NewJournal
<1>2. <<>> \in Seq([pgno : Page, content : Content]) /\ Len(<<>>) = 0 /\ DOMAIN <<>> = {}
  BY EmptySeq
<1>3. j \in Journal
  BY <1>2 DEF NewJournal, Journal
<1>4. JournalOK(j)
  BY <1>1, <1>2 DEF JournalOK
<1> QED
  BY <1>1, <1>2, <1>3, <1>4, RecordsOf

LEMMA OpenedLocked ==
  ASSUME PInv, NEW c \in Conn, pc[c] = "idle", eState[c] = "WRITER_LOCKED"
  PROVE  /\ ~IsHot(jrnl) /\ Committed = db /\ View(c) = db /\ dirty[c] = {}
         /\ dbSize(c) \in 1 .. MaxPage /\ Sized(Committed, dbSize(c))
         /\ \A p \in Page : Settled(p)
         /\ Knows(c) /\ CommittedVers[1] <= nTxn
<1> USE DEF PInv, DbInv
<1>1. ~IsHot(jrnl) /\ Committed = db
  BY ReadsCommitted
<1>2. dirty[c] = {} /\ Knows(c) /\ CommittedVers[1] <= nTxn
  BY DEF ConnOK, ReaderOK
<1>3. View(c) = db
  <2>1. \A p \in Page : (IF cache[c][p] = None THEN db[p] ELSE cache[c][p]) = db[p]
    BY <1>1, <1>2 DEF Knows, Fresh
  <2>2. db = [p \in Page |-> db[p]]
    BY DEF TypeOK
  <2> QED
    BY <2>1, <2>2 DEF View
<1>4. PICK n \in 1 .. MaxPage : Sized(Committed, n)
  BY DEF FilesOK, ImageOK
<1>5. dbSize(c) = n
  BY <1>1, <1>3, <1>4, SizeOfImage, PageRange DEF dbSize
<1>6. \A p \in Page : Settled(p)
  BY <1>1, SafeNow DEF Covered
<1> QED
  BY <1>1, <1>2, <1>3, <1>4, <1>5, <1>6

LEMMA OpenedFacts ==
  ASSUME PInv, NEW c \in Conn, pc[c] = "idle", eState[c] \in Writer \cup {"WRITER_LOCKED"}
  PROVE  /\ Opened(c) \in Journal /\ JournalOK(Opened(c)) /\ Opened(c) # None
         /\ Sized(Committed, Opened(c).orig) /\ Opened(c).orig >= 1
         /\ \A i \in DOMAIN Opened(c).recs :
              Opened(c).recs[i].content = Committed[Opened(c).recs[i].pgno]
         /\ OpenedHdr(c) <= Opened(c).syncedCount /\ OpenedHdr(c) \in Nat
         /\ CommittedVers[1] <= nTxn
         /\ IsHot(Opened(c)) => Opened(c) = jrnl
         /\ ~IsHot(Opened(c)) => Committed = db
         /\ unlinked # None => ~Opened(c).entry
         /\ eState[c] # "WRITER_DBMOD" => \A p \in Page : Settled(p)
<1> USE DEF PInv, DbInv
<1>1. CASE eState[c] = "WRITER_LOCKED"
  <2>1. /\ ~IsHot(jrnl) /\ Committed = db /\ dbSize(c) \in 1 .. MaxPage
        /\ Sized(Committed, dbSize(c)) /\ (\A p \in Page : Settled(p)) /\ CommittedVers[1] <= nTxn
    BY <1>1, OpenedLocked
  <2>2. Opened(c) = NewJournal(dbSize(c), jrnl # None /\ jrnl.entry) /\ OpenedHdr(c) = 0
    BY <1>1 DEF Opened, OpenedHdr
  <2>3. (jrnl # None /\ jrnl.entry) \in BOOLEAN /\ dbSize(c) \in 0 .. MaxPage
    BY <2>1
  <2>4. /\ Opened(c) \in Journal /\ JournalOK(Opened(c)) /\ Opened(c) # None /\ ~Opened(c).magic
        /\ Opened(c).orig = dbSize(c) /\ Opened(c).entry = (jrnl # None /\ jrnl.entry)
        /\ DOMAIN Opened(c).recs = {} /\ Opened(c).syncedCount = 0
    <3> DEFINE size == dbSize(c)
               there == jrnl # None /\ jrnl.entry
               j == NewJournal(size, there)
    <3>1. size \in 0 .. MaxPage /\ there \in BOOLEAN
      BY <2>3
    <3> HIDE DEF size, there
    <3>2. /\ j \in Journal /\ JournalOK(j) /\ j # None /\ ~j.magic /\ j.orig = size
          /\ j.entry = there /\ DOMAIN j.recs = {} /\ j.syncedCount = 0
      BY <3>1, NewJournalOK
    <3> QED
      BY <2>2, <3>2 DEF size, there
  <2>5. unlinked # None => ~Opened(c).entry
    BY <2>4 DEF FilesOK, UnlinkedOK
  <2> QED
    BY <2>1, <2>2, <2>4, <2>5 DEF IsHot
<1>2. CASE eState[c] \in Writer
  <2>1. WriterJournalOK(c) /\ Opened(c) = jrnl /\ OpenedHdr(c) = journalHdr[c]
    BY <1>2 DEF ConnOK, ControlOK, InPhaseOne, RollsBack, WriterOK, Opened, OpenedHdr, Writer
  <2>2. jrnl \in Journal /\ JournalOK(jrnl) /\ jrnl # None /\ journalHdr[c] \in Nat
    BY <2>1 DEF WriterJournalOK, TypeOK, FilesOK
  <2>3. eState[c] # "WRITER_DBMOD" => \A p \in Page : Settled(p)
    BY <1>2, <2>1 DEF WriterJournalOK, Writer
  <2>4. unlinked # None => ~jrnl.entry
    BY <2>2 DEF FilesOK, UnlinkedOK
  <2> QED
    BY <2>1, <2>2, <2>3, <2>4, CommittedHot DEF WriterJournalOK
<1> QED
  BY <1>1, <1>2

\* The image that the transaction has made so far.
LEMMA OpenedImage ==
  ASSUME PInv, NEW c \in Conn, pc[c] = "idle", eState[c] \in Writer \cup {"WRITER_LOCKED"}
  PROVE  /\ dbSize(c) \in 1 .. MaxPage /\ Opened(c).orig <= dbSize(c) /\ Sized(View(c), dbSize(c))
         /\ cache[c][1] # None
         /\ \A p \in dirty[c] : cache[c][p] # None /\
              (p <= Opened(c).orig => \E i \in DOMAIN Opened(c).recs : Opened(c).recs[i].pgno = p)
         /\ \A p \in Page \ dirty[c] : cache[c][p] \in {None, db[p]}
         /\ dbFileVers[c] = VersionOf(db[1]) /\ dbFileVers[c] = CommittedVers
<1> USE DEF PInv, DbInv
<1>1. CASE eState[c] = "WRITER_LOCKED"
  <2>1. /\ Committed = db /\ View(c) = db /\ dirty[c] = {} /\ dbSize(c) \in 1 .. MaxPage
        /\ Sized(Committed, dbSize(c)) /\ Knows(c)
    BY <1>1, OpenedLocked
  <2>2. Opened(c).orig = dbSize(c)
    BY <1>1 DEF Opened, NewJournal
  <2>3. dbSize(c) <= dbSize(c)
    BY <2>1
  <2> QED
    BY <2>1, <2>2, <2>3 DEF Knows, Fresh, CommittedVers
<1>2. CASE eState[c] \in Writer
  <2>1. WriterJournalOK(c) /\ WriterImageOK(c) /\ Opened(c) = jrnl
    BY <1>2 DEF ConnOK, ControlOK, InPhaseOne, RollsBack, WriterOK, Opened, Writer
  <2>2. jrnl \in Journal /\ jrnl.orig \in Nat /\ jrnl.orig >= 1
        /\ InJournal = {jrnl.recs[i].pgno : i \in DOMAIN jrnl.recs}
    BY <2>1, RecordsOf DEF WriterJournalOK, TypeOK, InJournal
  <2>3. PICK n \in jrnl.orig .. MaxPage : Sized(View(c), n)
    BY <2>1 DEF WriterImageOK
  <2>4. dbSize(c) = n /\ n \in 1 .. MaxPage /\ jrnl.orig <= n
    BY <2>2, <2>3, SizeOfImage, PageRange DEF dbSize
  <2>5. \A p \in dirty[c] : cache[c][p] # None /\
              (p <= jrnl.orig => \E i \in DOMAIN jrnl.recs : jrnl.recs[i].pgno = p)
    BY <2>1, <2>2 DEF WriterImageOK
  <2> QED
    BY <1>2, <2>1, <2>3, <2>4, <2>5 DEF WriterImageOK
<1> QED
  BY <1>1, <1>2

LEMMA ChangeJournal ==
  ASSUME PInv, NEW c \in Conn, pc[c] = "idle", eState[c] \in Writer \cup {"WRITER_LOCKED"},
         NEW p \in Page, p <= dbSize(c) => cache[c][p] # None,
         NEW content, Change(c, p, content)
  PROVE  /\ jrnl' \in Journal /\ JournalOK(jrnl') /\ jrnl' # None
         /\ jrnl'.orig = Opened(c).orig /\ jrnl'.magic = Opened(c).magic
         /\ jrnl'.counted = Opened(c).counted /\ jrnl'.entry = Opened(c).entry
         /\ jrnl'.syncedMagic = Opened(c).syncedMagic
         /\ jrnl'.syncedCount = Opened(c).syncedCount
         /\ \A i \in DOMAIN Opened(c).recs : i \in DOMAIN jrnl'.recs /\ jrnl'.recs[i] = Opened(c).recs[i]
         /\ \A i \in DOMAIN jrnl'.recs : jrnl'.recs[i].content = Committed[jrnl'.recs[i].pgno]
         /\ p <= jrnl'.orig => \E i \in DOMAIN jrnl'.recs : jrnl'.recs[i].pgno = p
<1> USE DEF PInv, DbInv
<1> DEFINE o == Opened(c)
           known == {o.recs[i].pgno : i \in DOMAIN o.recs}
           record == [pgno |-> p, content |-> cache[c][p]]
<1>1. o \in Journal /\ JournalOK(o) /\ o # None /\ Sized(Committed, o.orig)
      /\ (\A i \in DOMAIN o.recs : o.recs[i].content = Committed[o.recs[i].pgno])
  BY OpenedFacts
<1>2. dbSize(c) \in Nat /\ o.orig \in Nat /\ o.orig <= dbSize(c)
  BY <1>1, OpenedImage, RecordsOf
<1>3. jrnl' = IF p <= o.orig /\ p \notin known
              THEN [o EXCEPT !.recs = Append(o.recs, record)] ELSE o
  BY DEF Change, Opened
<1>4. CASE p <= o.orig /\ p \notin known
  <2>1. cache[c][p] # None
    BY <1>2, <1>4, PageRange
  <2>2. p \notin dirty[c]
    BY <1>4, OpenedImage
  <2>3. cache[c][p] = db[p]
    BY <2>1, <2>2, OpenedImage
  <2>4. db[p] = Committed[p]
    <3>1. CASE eState[c] = "WRITER_LOCKED"
      BY <3>1, OpenedLocked
    <3>2. CASE eState[c] \in Writer
      <4>1. WriterJournalOK(c) /\ o = jrnl
        BY <3>2 DEF ConnOK, ControlOK, InPhaseOne, RollsBack, WriterOK, Opened, Writer
      <4>2. p \notin InJournal /\ p <= jrnl.orig
        BY <1>4, <4>1 DEF InJournal, WriterJournalOK
      <4> QED
        BY <3>2, <4>1, <4>2, Unrecorded
    <3> QED
      BY <3>1, <3>2
  <2>5. cache[c][p] \in Content
    BY <2>3 DEF TypeOK
  <2>6. jrnl' = WithRecord(o, p, cache[c][p]) /\ \A i \in DOMAIN o.recs : o.recs[i].pgno # p
    BY <1>3, <1>4 DEF WithRecord
  <2> HIDE DEF o
  <2>7. /\ jrnl' \in Journal /\ JournalOK(jrnl')
        /\ jrnl'.orig = o.orig /\ jrnl'.magic = o.magic /\ jrnl'.counted = o.counted
        /\ jrnl'.entry = o.entry /\ jrnl'.syncedMagic = o.syncedMagic
        /\ jrnl'.syncedCount = o.syncedCount
        /\ DOMAIN jrnl'.recs = DOMAIN o.recs \cup {Len(o.recs) + 1}
        /\ jrnl'.recs[Len(o.recs) + 1] = [pgno |-> p, content |-> cache[c][p]]
        /\ \A i \in DOMAIN o.recs : jrnl'.recs[i] = o.recs[i]
    <3>1. o \in Journal /\ JournalOK(o) /\ p <= o.orig
      BY <1>1, <1>4
    <3> QED
      BY ONLY <3>1, <2>5, <2>6, p \in Page, AppendRecord
  <2>8. jrnl' # None
    BY <2>7, RecordsOf
  <2>9. \A i \in DOMAIN jrnl'.recs : jrnl'.recs[i].content = Committed[jrnl'.recs[i].pgno]
    BY <1>1, <2>3, <2>4, <2>7
  <2>10. jrnl'.recs[Len(o.recs) + 1].pgno = p /\ Len(o.recs) + 1 \in DOMAIN jrnl'.recs
    BY <2>7
  <2> USE DEF o
  <2> QED
    BY <2>7, <2>8, <2>9, <2>10
<1>5. CASE ~(p <= o.orig /\ p \notin known)
  <2>1. jrnl' = o
    BY <1>3, <1>5
  <2>2. p <= o.orig => \E i \in DOMAIN o.recs : o.recs[i].pgno = p
    BY <1>5
  <2> QED
    BY <1>1, <2>1, <2>2
<1> QED
  BY <1>4, <1>5

LEMMA ChangeFiles ==
  ASSUME PInv, NEW c \in Conn, pc[c] = "idle", eState[c] \in Writer \cup {"WRITER_LOCKED"},
         NEW p \in Page, p <= dbSize(c) => cache[c][p] # None,
         NEW content, Change(c, p, content), UNCHANGED <<db, unsynced, unlinked, nTxn>>
  PROVE  /\ Committed' = Committed /\ CommittedVers' = CommittedVers
         /\ IsHot(jrnl') => IsHot(jrnl) /\ jrnl'.orig >= 1 /\ eState[c] # "WRITER_LOCKED"
         /\ \A q \in Page : Settled(q)' = Settled(q)
         /\ \A q \in Page : Settled(q)' \/ Covered(q)'
         /\ UnlinkedOK'
<1> USE DEF PInv, DbInv
<1> DEFINE o == Opened(c)
<1>1. /\ o \in Journal /\ JournalOK(o) /\ o # None /\ o.orig >= 1
      /\ IsHot(o) => o = jrnl
      /\ ~IsHot(o) => Committed = db
      /\ unlinked # None => ~o.entry
  BY OpenedFacts
<1>2. /\ jrnl' \in Journal /\ JournalOK(jrnl') /\ jrnl' # None
      /\ jrnl'.orig = o.orig /\ jrnl'.magic = o.magic
      /\ jrnl'.counted = o.counted /\ jrnl'.entry = o.entry
      /\ jrnl'.syncedMagic = o.syncedMagic /\ jrnl'.syncedCount = o.syncedCount
      /\ \A i \in DOMAIN o.recs : i \in DOMAIN jrnl'.recs /\ jrnl'.recs[i] = o.recs[i]
  BY ChangeJournal
<1>3. DOMAIN o.recs = 1 .. Len(o.recs) /\ Len(o.recs) \in Nat /\ o.counted \in Nat
      /\ o.syncedCount \in Nat /\ o.synced \in Nat
  BY <1>1, RecordsOf
<1>4. o.counted <= Len(o.recs) /\ o.syncedCount <= Len(o.recs)
  BY <1>1, <1>3 DEF JournalOK
<1> HIDE DEF o
<1>5. IsHot(jrnl') <=> IsHot(o)
  BY <1>1, <1>2 DEF IsHot
<1>6. Committed' = Committed
  <2>1. CASE IsHot(o)
    <3>1. Restored(db, o) = Restored(db, jrnl')
      BY <1>1, <1>2, <1>3, <1>4, SameCounted
    <3>2. Committed' = Restored(db, jrnl') /\ Committed = Restored(db, o)
      BY <1>1, <1>2, <1>5, <2>1 DEF Committed, Restored, IsHot
    <3> QED
      BY <3>1, <3>2
  <2>2. CASE ~IsHot(o)
    BY <1>1, <1>5, <2>2 DEF Committed, IsHot
  <2> QED
    BY <2>1, <2>2
<1>7. CommittedVers' = CommittedVers
  BY <1>6 DEF CommittedVers, VersionOf
<1>8. \A q \in Page : Settled(q)' = Settled(q)
  BY <1>6 DEF Settled
<1>9. ASSUME NEW q \in Page PROVE Settled(q)' \/ Covered(q)'
  <2>1. SUFFICES ASSUME Covered(q), ~Settled(q) PROVE Covered(q)'
    BY <1>8, SafeNow
  <2>2. eState[c] = "WRITER_DBMOD"
    BY <2>1, OpenedFacts
  <2>3. o = jrnl
    BY <2>2 DEF o, Opened
  <2>4. \A i \in 1 .. jrnl.syncedCount : jrnl'.recs[i] = jrnl.recs[i]
    BY <1>2, <1>3, <1>4, <2>3
  <2>5. jrnl'.magic /\ jrnl'.syncedMagic /\ jrnl'.entry /\ jrnl.syncedCount <= jrnl'.syncedCount
    BY <1>2, <1>3, <2>1, <2>3 DEF Covered, IsHot
  <2> QED
    BY <1>2, <1>6, <2>1, <2>3, <2>4, <2>5, CoveredStays
<1>10. UnlinkedOK'
  BY <1>1, <1>2, <1>6, UnlinkedSame
<1>11. IsHot(jrnl') => IsHot(jrnl) /\ jrnl'.orig >= 1 /\ eState[c] # "WRITER_LOCKED"
  <2>1. eState[c] = "WRITER_LOCKED" => ~IsHot(jrnl)
    BY OpenedLocked
  <2> QED
    BY <1>1, <1>2, <1>5, <2>1
<1> QED
  BY <1>6, <1>7, <1>8, <1>9, <1>10, <1>11

LEMMA ChangeKeeps ==
  ASSUME PInv, LockInv', NEW c \in Conn, pc[c] = "idle", eState[c] \in Writer \cup {"WRITER_LOCKED"},
         NEW p \in Page, p <= dbSize(c) + 1, p <= dbSize(c) => cache[c][p] # None,
         NEW content \in Written, Change(c, p, content),
         UNCHANGED <<db, unsynced, unlinked, lock, dbFileVers, at, nTxn, setting>>,
         \/ UNCHANGED <<job, pc>>
         \/ /\ job' = [job EXCEPT ![c] = "commit"] /\ pc' = [pc EXCEPT ![c] = "lock"]
            /\ p = 1 /\ VersionOf(content)[1] = CommittedVers[1] + 1
  PROVE  ImageKept
<1> USE DEF PInv, DbInv
<1> DEFINE o == Opened(c)
           next == IF eState[c] = "WRITER_LOCKED" THEN "WRITER_CACHEMOD" ELSE eState[c]
<1>1. /\ Committed' = Committed /\ CommittedVers' = CommittedVers
      /\ IsHot(jrnl') => IsHot(jrnl) /\ jrnl'.orig >= 1 /\ eState[c] # "WRITER_LOCKED"
      /\ \A q \in Page : Settled(q)' = Settled(q)
      /\ \A q \in Page : Settled(q)' \/ Covered(q)'
      /\ UnlinkedOK'
  BY ChangeFiles
<1>2. /\ jrnl' \in Journal /\ JournalOK(jrnl') /\ jrnl' # None
      /\ jrnl'.orig = o.orig /\ jrnl'.magic = o.magic /\ jrnl'.entry = o.entry
      /\ jrnl'.syncedMagic = o.syncedMagic /\ jrnl'.syncedCount = o.syncedCount
      /\ \A i \in DOMAIN o.recs : i \in DOMAIN jrnl'.recs /\ jrnl'.recs[i] = o.recs[i]
      /\ \A i \in DOMAIN jrnl'.recs : jrnl'.recs[i].content = Committed[jrnl'.recs[i].pgno]
      /\ p <= jrnl'.orig => \E i \in DOMAIN jrnl'.recs : jrnl'.recs[i].pgno = p
  BY ChangeJournal
<1>3. /\ o \in Journal /\ JournalOK(o) /\ Sized(Committed, o.orig) /\ o.orig >= 1
      /\ OpenedHdr(c) <= o.syncedCount /\ OpenedHdr(c) \in Nat /\ CommittedVers[1] <= nTxn
      /\ eState[c] # "WRITER_DBMOD" => \A q \in Page : Settled(q)
  BY OpenedFacts
<1>4. /\ dbSize(c) \in 1 .. MaxPage /\ o.orig <= dbSize(c) /\ Sized(View(c), dbSize(c))
      /\ cache[c][1] # None
      /\ \A q \in dirty[c] : cache[c][q] # None /\
              (q <= o.orig => \E i \in DOMAIN o.recs : o.recs[i].pgno = q)
      /\ \A q \in Page \ dirty[c] : cache[c][q] \in {None, db[q]}
      /\ dbFileVers[c] = VersionOf(db[1]) /\ dbFileVers[c] = CommittedVers
  BY OpenedImage
<1>5. /\ journalHdr' = [journalHdr EXCEPT ![c] = OpenedHdr(c)]
      /\ eState' = [eState EXCEPT ![c] = next] /\ next \in Writer
      /\ cache' = [cache EXCEPT ![c][p] = content]
      /\ dirty' = [dirty EXCEPT ![c] = dirty[c] \cup {p}]
  BY DEF Change, SetState, OpenedHdr, TypeOK, Writer
<1>6. /\ journalHdr'[c] = OpenedHdr(c) /\ eState'[c] = next
      /\ cache'[c] = [cache[c] EXCEPT ![p] = content] /\ dirty'[c] = dirty[c] \cup {p}
      /\ cache[c] \in [Page -> Content \cup {None}]
  BY <1>5 DEF TypeOK
<1>7. job[c] = "none" /\ content # None /\ content \in Content /\ 1 \in Page
  BY NoneIsNoContent, CommittedFacts DEF ConnOK, ControlOK, InPhaseOne, RollsBack, Writer
<1>8. /\ job'[c] = "none" /\ pc'[c] = "idle"
      \/ /\ job'[c] = "commit" /\ pc'[c] = "lock"
         /\ p = 1 /\ VersionOf(content)[1] = CommittedVers[1] + 1
  BY <1>7 DEF TypeOK
<1>9. StepOf(c) /\ LocalTypes(c)'
  <2>1. StepOf(c)
    <3>1. job' = [job EXCEPT ![c] = job'[c]] /\ pc' = [pc EXCEPT ![c] = pc'[c]]
      BY DEF TypeOK
    <3> HIDE DEF next
    <3> QED
      BY <1>5, <3>1 DEF StepOf, TypeOK
  <2>2. cache'[c] \in [Page -> Content \cup {None}]
    BY <1>6, <1>7
  <2>3. job'[c] \in Jobs
    BY <1>8 DEF Jobs
  <2> QED
    BY <1>3, <1>6, <2>1, <2>2, <2>3, HaveTypes DEF LocalTypes
<1> HIDE DEF o, next
<1>10. WriterJournalOK(c)'
  <2>1. eState'[c] = "WRITER_DBMOD" => eState[c] = "WRITER_DBMOD"
    BY <1>6 DEF next
  <2>2. ASSUME eState[c] = "WRITER_DBMOD"
        PROVE  /\ jrnl'.magic /\ jrnl'.syncedMagic /\ jrnl'.entry /\ unlinked' = None
               /\ \A q \in Page : \/ Settled(q)' \/ q > jrnl'.orig
                                  \/ \E i \in 1 .. journalHdr'[c] : jrnl'.recs[i].pgno = q
    <3>1. WriterJournalOK(c) /\ o = jrnl /\ journalHdr'[c] = journalHdr[c]
      BY <1>6, <1>7, <2>2 DEF ConnOK, WriterOK, Writer, o, Opened, OpenedHdr
    <3>2. journalHdr[c] \in Nat /\ jrnl.syncedCount \in Nat /\ jrnl.synced \in Nat
          /\ Len(jrnl.recs) \in Nat /\ DOMAIN jrnl.recs = 1 .. Len(jrnl.recs)
      BY <1>3, <3>1, RecordsOf DEF TypeOK
    <3>3. \A i \in 1 .. journalHdr[c] : i \in DOMAIN jrnl.recs
      BY <1>3, <3>1, <3>2 DEF JournalOK, WriterJournalOK
    <3> QED
      BY <1>1, <1>2, <2>2, <3>1, <3>3 DEF WriterJournalOK
  <2>3. eState'[c] = "WRITER_CACHEMOD" => \A q \in Page : Settled(q)'
    <3>1. eState'[c] = "WRITER_CACHEMOD" => eState[c] # "WRITER_DBMOD"
      BY <1>6 DEF next
    <3> QED
      BY <1>1, <1>3, <3>1
  <2>4. eState'[c] # "WRITER_FINISHED"
    BY <1>5, <1>6 DEF Writer
  <2> QED
    BY <1>1, <1>2, <1>3, <1>6, <2>1, <2>2, <2>3, <2>4 DEF WriterJournalOK, Sized
<1>11. WriterImageOK(c)'
  <2> DEFINE m == IF p <= dbSize(c) THEN dbSize(c) ELSE p
  <2>1. m \in jrnl'.orig .. MaxPage
    <3>1. o.orig \in Nat /\ p \in Nat /\ p <= MaxPage
      BY <1>3, PageRange, RecordsOf
    <3> QED
      BY <1>2, <1>4, <3>1
  <2>2. Sized(View(c)', m)
    <3>1. ASSUME NEW q \in Page
          PROVE  IF q <= m THEN View(c)'[q] \in Written ELSE View(c)'[q] = Absent
      <4>1. CASE q = p
        <5>1. View(c)'[q] = content
          BY <1>6, <1>7, <4>1 DEF View
        <5>2. q <= m
          BY <4>1, PageRange, <1>4
        <5> QED
          BY <5>1, <5>2
      <4>2. CASE q # p
        <5>1. View(c)'[q] = View(c)[q]
          BY <1>6, <4>2 DEF View
        <5>2. q <= m <=> q <= dbSize(c)
          BY <4>2, <1>4, PageRange
        <5> QED
          BY <1>4, <5>1, <5>2 DEF Sized
      <4> QED
        BY <4>1, <4>2
    <3> HIDE DEF m
    <3> QED
      BY <3>1 DEF Sized
  <2>3. \E n \in jrnl'.orig .. MaxPage : Sized(View(c)', n)
    <3> HIDE DEF m
    <3> QED
      BY <2>1, <2>2
  <2>4. InJournal' = {jrnl'.recs[i].pgno : i \in DOMAIN jrnl'.recs}
    BY <1>2 DEF InJournal
  <2>5. ASSUME NEW q \in dirty'[c]
        PROVE  cache'[c][q] # None /\ (q <= jrnl'.orig => q \in InJournal')
    <3>1. CASE q = p
      BY <1>2, <1>6, <1>7, <2>4, <3>1
    <3>2. CASE q # p
      <4>1. q \in dirty[c] /\ q \in Page /\ cache'[c][q] = cache[c][q]
        BY <1>6, <3>2 DEF TypeOK
      <4>2. q <= o.orig => \E i \in DOMAIN o.recs : o.recs[i].pgno = q
        BY <1>4, <4>1
      <4>3. q <= o.orig => \E i \in DOMAIN jrnl'.recs : jrnl'.recs[i].pgno = q
        BY <1>2, <4>2
      <4> QED
        BY <1>2, <1>4, <2>4, <4>1, <4>3
    <3> QED
      BY <3>1, <3>2
  <2>6. \A q \in Page \ dirty'[c] : cache'[c][q] \in {None, db'[q]}
    BY <1>4, <1>6
  <2>7. cache'[c][1] # None
    BY <1>4, <1>6, <1>7
  <2>8. dbFileVers'[c] = VersionOf(db[1])' /\ dbFileVers'[c] = CommittedVers'
    BY <1>1, <1>4 DEF VersionOf
  <2>9. job'[c] = "commit" => VersionOf(cache[c][1])'[1] = CommittedVers'[1] + 1
    BY <1>1, <1>6, <1>7, <1>8 DEF VersionOf
  <2> QED
    BY <1>8, <2>3, <2>5, <2>6, <2>7, <2>8, <2>9 DEF WriterImageOK
<1>12. ConnOK(c)'
  BY <1>5, <1>6, <1>8, <1>10, <1>11 DEF ConnOK, ControlOK, InPhaseOne, WriterOK, Writer
<1>13. LockInv /\ lock[c] >= FL!RESERVED_LOCK
  BY LevelOfState
<1>14. IsHot(jrnl') => IsHot(jrnl) /\ jrnl'.orig >= 1 /\ HotHere(c)'
  BY <1>1, <1>5, <1>6, <1>8 DEF FilesOK, HotAlone, HotHere, Writer
<1>15. Absent \notin unsynced'[1] \cup {db'[1]} /\ unlinked' \in Journal \cup {None}
       /\ db' \in [Page -> Content] /\ unsynced' \in [Page -> SUBSET Content]
  BY DEF FilesOK, TypeOK
<1> QED
  BY <1>1, <1>2, <1>9, <1>12, <1>13, <1>14, <1>15, FileStep

LEMMA WriteKeeps ==
  ASSUME PInv, LockInv', NEW c \in Conn,
         (\E p \in Page : pager_write(c, p)) \/ sqlite3PagerCommitPhaseOne(c)
  PROVE  ImageKept
<1> USE DEF PInv, DbInv
<1>1. pc[c] = "idle" /\ eState[c] \in Writer \cup {"WRITER_LOCKED"}
  BY DEF pager_write, sqlite3PagerCommitPhaseOne
<1>2. /\ dbSize(c) \in 1 .. MaxPage /\ cache[c][1] # None /\ dbFileVers[c] = CommittedVers
      /\ CommittedVers[1] <= nTxn
  BY <1>1, OpenedImage, OpenedFacts
<1>3. nTxn \in 0 .. MaxTxn /\ 1 \in Page /\ MaxTxn \in Nat /\ MaxPage \in Nat
      /\ cache[c][1] \in Content /\ CommittedVers[1] \in Nat
  BY <1>2, PagerAssumption, CommittedFacts DEF TypeOK
<1>4. ASSUME NEW p \in Page, pager_write(c, p) PROVE ImageKept
  <2> DEFINE content == [by |-> nTxn, vers |-> IF p = 1 THEN VersionOf(cache[c][1]) ELSE NoVersion]
  <2>1. VersionOf(cache[c][1]) \in Version /\ NoVersion \in Version
    BY <1>3, VersionType DEF NoVersion, Version
  <2>2. content \in Written
    BY <1>3, <2>1 DEF Written
  <2>3. /\ Change(c, p, content) /\ UNCHANGED <<job, pc>>
        /\ UNCHANGED <<db, unsynced, unlinked, lock, dbFileVers, at, nTxn, setting>>
        /\ p <= dbSize(c) + 1 /\ (p <= dbSize(c) => cache[c][p] # None)
    BY <1>4 DEF pager_write
  <2> HIDE DEF content
  <2> QED
    BY <1>1, <2>2, <2>3, ChangeKeeps
<1>5. CASE sqlite3PagerCommitPhaseOne(c)
  <2> DEFINE content == [by |-> nTxn, vers |-> <<dbFileVers[c][1] + 1, dbSize(c)>>]
  <2>1. content \in Written
    BY <1>2, <1>3 DEF Written, Version
  <2>2. VersionOf(content)[1] = CommittedVers[1] + 1
    BY <1>2, <2>1, WrittenVersion
  <2>3. /\ Change(c, 1, content)
        /\ UNCHANGED <<db, unsynced, unlinked, lock, dbFileVers, at, nTxn, setting>>
        /\ job' = [job EXCEPT ![c] = "commit"] /\ pc' = [pc EXCEPT ![c] = "lock"]
        /\ 1 <= dbSize(c) + 1
    BY <1>2, <1>5 DEF sqlite3PagerCommitPhaseOne, Goto
  <2> HIDE DEF content
  <2> QED
    BY <1>1, <1>2, <1>3, <2>1, <2>2, <2>3, ChangeKeeps
<1> QED
  BY <1>4, <1>5

-----------------------------------------------------------------------------
(* Writing the database file *)

LEMMA MinOf ==
  ASSUME NEW S \in SUBSET Nat, S # {}
  PROVE  Min(S) \in S
<1> DEFINE R == OpToRel(<, Nat)
<1>1. IsWellFoundedOn(R, Nat)
  BY NatLessThanWellFounded
<1>2. \A x, y \in Nat : y < x => <<y, x>> \in R
  BY DEF OpToRel
<1> HIDE DEF R
<1>3. PICK x \in S : \A y \in S : ~ (<<y, x>> \in R)
  BY <1>1, WFMin
<1>4. ASSUME NEW y \in S PROVE x <= y
  <2>1. x \in Nat /\ y \in Nat
    OBVIOUS
  <2>2. ~(y < x)
    BY <1>2, <1>3, <2>1
  <2> QED
    BY <2>1, <2>2
<1> QED
  BY <1>4 DEF Min

\* A write that restores a page, or that hits a page whose original is safe.
LEMMA RestoreFiles ==
  ASSUME PInv, IsHot(jrnl), NEW content, DbWrite(content), UNCHANGED <<jrnl, unlinked, nTxn>>,
         \A p \in Page : p \in DOMAIN content =>
           content[p] \in Content /\ (content[p] = Committed[p] \/ Covered(p)),
         1 \in DOMAIN content => content[1] # Absent
  PROVE  /\ Committed' = Committed /\ CommittedVers' = CommittedVers
         /\ db' \in [Page -> Content] /\ unsynced' \in [Page -> SUBSET Content]
         /\ \A p \in Page : db'[p] = IF p \in DOMAIN content THEN content[p] ELSE db[p]
         /\ \A p \in Page : Settled(p)' \/ Covered(p)'
         /\ \A p \in Page : Settled(p) /\ (p \in DOMAIN content => content[p] = Committed[p])
                            => Settled(p)'
         /\ Absent \notin unsynced'[1] \cup {db'[1]} /\ UnlinkedOK'
<1> USE DEF PInv, DbInv
<1>1. /\ db' \in [Page -> Content] /\ unsynced' \in [Page -> SUBSET Content]
      /\ \A p \in Page : db'[p] = IF p \in DOMAIN content THEN content[p] ELSE db[p]
      /\ \A p \in Page : unsynced'[p] = IF p \in DOMAIN content
                                        THEN unsynced[p] \cup {db[p]} ELSE unsynced[p]
  BY DEF DbWrite, TypeOK
<1>2. jrnl \in Journal /\ JournalOK(jrnl) /\ IsHot(jrnl') /\ jrnl' = jrnl
      /\ jrnl.syncedCount \in Nat /\ jrnl.counted \in Nat /\ jrnl.syncedCount <= jrnl.counted
  BY RecordsOf DEF IsHot, TypeOK, FilesOK, JournalOK
<1>3. Committed = Restored(db, jrnl) /\ Committed' = Restored(db', jrnl)
  BY <1>2, CommittedHot DEF Committed, IsHot, Restored
<1>4. ASSUME NEW p \in Page PROVE Restored(db', jrnl)[p] = Restored(db, jrnl)[p]
  <2>1. CASE p > jrnl.orig
    BY <2>1, RestoredOther
  <2>2. CASE \E i \in 1 .. jrnl.counted : jrnl.recs[i].pgno = p
    <3>1. PICK i \in 1 .. jrnl.counted : jrnl.recs[i].pgno = p
      BY <2>2
    <3> QED
      BY <1>2, <3>1, RestoredRecord
  <2>3. CASE ~(p > jrnl.orig) /\ \A i \in 1 .. jrnl.counted : jrnl.recs[i].pgno # p
    <3>1. ~Covered(p)
      BY <1>2, <2>3 DEF Covered
    <3>2. p \in DOMAIN content => content[p] = Committed[p]
      BY <3>1
    <3>3. db'[p] \in {db[p], Committed[p]}
      BY <1>1, <3>2
    <3>4. Restored(db, jrnl)[p] = db[p] /\ Restored(db', jrnl)[p] = db'[p]
      BY <2>3, RestoredOther
    <3> QED
      BY <1>3, <3>3, <3>4
  <2> QED
    BY <2>1, <2>2, <2>3
<1>5. Committed' = Committed
  BY <1>3, <1>4, RestoredIsFunction
<1>6. CommittedVers' = CommittedVers
  BY <1>5 DEF CommittedVers, VersionOf
<1>7. ASSUME NEW p \in Page, Settled(p), p \in DOMAIN content => content[p] = Committed[p]
      PROVE  Settled(p)'
  BY <1>1, <1>5, <1>7 DEF Settled
<1>8. ASSUME NEW p \in Page, Covered(p) PROVE Covered(p)'
  BY <1>2, <1>5, <1>8 DEF Covered, IsHot
<1>9. \A p \in Page : Settled(p)' \/ Covered(p)'
  BY <1>7, <1>8, SafeNow
<1>10. Absent \notin unsynced'[1] \cup {db'[1]}
  <2>1. 1 \in Page
    BY CommittedFacts
  <2> QED
    BY <1>1, <2>1 DEF FilesOK
<1>11. UnlinkedOK'
  <2>1. SUFFICES ASSUME unlinked # None PROVE UnlinkedOK'
    BY DEF UnlinkedOK
  <2>2. \A p \in Page : ~Covered(p)
    BY <1>2, <2>1 DEF FilesOK, UnlinkedOK, Covered, IsHot
  <2>3. \A p \in Page : Settled(p)
    BY <2>2, SafeNow
  <2>4. \A p \in Page : db'[p] = db[p] /\ Settled(p)'
    BY <1>1, <1>7, <2>2, <2>3 DEF Settled
  <2>5. db' = db
    BY <1>1, <2>4 DEF TypeOK
  <2>6. Restored(db, unlinked)' = Restored(db, unlinked)
    BY <2>5 DEF Restored
  <2> QED
    BY <2>4, <2>5, <2>6 DEF UnlinkedOK, FilesOK, JournalOK, ImageOK, Sized, VersionOf
<1> QED
  BY <1>1, <1>5, <1>6, <1>7, <1>9, <1>10, <1>11

\* An fsync of the database file.
LEMMA SyncFiles ==
  ASSUME PInv, DbSync, UNCHANGED <<jrnl, unlinked, nTxn>>
  PROVE  /\ Committed' = Committed /\ CommittedVers' = CommittedVers
         /\ db' \in [Page -> Content] /\ unsynced' \in [Page -> SUBSET Content] /\ db' = db
         /\ \A p \in Page : unsynced'[p] = {}
         /\ \A p \in Page : Settled(p)' \/ Covered(p)'
         /\ \A p \in Page : db[p] = Committed[p] => Settled(p)'
         /\ Absent \notin unsynced'[1] \cup {db'[1]} /\ UnlinkedOK'
<1> USE DEF PInv, DbInv
<1>1. db' = db /\ unsynced' = [p \in Page |-> {}]
  BY DEF DbSync
<1>2. Committed' = Committed /\ CommittedVers' = CommittedVers
  BY <1>1, FilesSame
<1>3. ASSUME NEW p \in Page, db[p] = Committed[p] PROVE Settled(p)'
  BY <1>1, <1>2, <1>3 DEF Settled
<1>4. ASSUME NEW p \in Page PROVE Settled(p)' \/ Covered(p)'
  <2>1. CASE Settled(p)
    BY <1>3, <2>1 DEF Settled
  <2>2. CASE Covered(p)
    BY <1>2, <2>2 DEF Covered, IsHot
  <2> QED
    BY <2>1, <2>2, SafeNow
<1>5. UnlinkedOK'
  <2>1. SUFFICES ASSUME unlinked # None PROVE UnlinkedOK'
    BY DEF UnlinkedOK
  <2>2. \A p \in Page : Settled(p)'
    BY <1>3, <2>1 DEF FilesOK, UnlinkedOK, Settled
  <2>3. Restored(db, unlinked)' = Restored(db, unlinked)
    BY <1>1 DEF Restored
  <2> QED
    BY <1>1, <2>2, <2>3 DEF UnlinkedOK, FilesOK, JournalOK, ImageOK, Sized, VersionOf
<1>6. 1 \in Page
  BY CommittedFacts
<1> QED
  BY <1>1, <1>2, <1>3, <1>4, <1>5, <1>6 DEF TypeOK, FilesOK

\* The page that is written has its original on the disk (syncJournal()).
LEMMA PageCovered ==
  ASSUME PInv, NEW c \in Conn, NEW p,
         \/ pc[c] = "pages" /\ p \in dirty[c]
         \/ pc[c] = "spill" /\ p = at[c]
  PROVE  /\ eState[c] = "WRITER_DBMOD" /\ job[c] = (IF pc[c] = "pages" THEN "commit" ELSE "spill")
         /\ WriterJournalOK(c) /\ WriterImageOK(c) /\ IsHot(jrnl) /\ p \in Page /\ p \in dirty[c]
         /\ pc[c] = "spill" => p # 1
         /\ cache[c][p] \in Content /\ cache[c][p] # None /\ (p = 1 => cache[c][p] # Absent)
         /\ Covered(p)
         /\ p > jrnl.orig \/ \E i \in 1 .. journalHdr[c] : jrnl.recs[i].pgno = p
<1> USE DEF PInv, DbInv
<1>1. eState[c] = "WRITER_DBMOD" /\ job[c] = (IF pc[c] = "pages" THEN "commit" ELSE "spill")
  BY DEF ConnOK, ControlOK, Opening, InPhaseOne, RollsBack
<1>2. WriterJournalOK(c) /\ WriterImageOK(c)
  BY <1>1 DEF ConnOK, WriterOK, Writer
<1>3. p \in dirty[c] /\ p \in Page /\ (pc[c] = "spill" => p # 1)
  BY <1>1, <1>2 DEF WriterImageOK, TypeOK
<1>4. jrnl \in Journal /\ JournalOK(jrnl) /\ jrnl # None /\ IsHot(jrnl)
      /\ jrnl.syncedMagic /\ jrnl.entry
  BY <1>1, <1>2 DEF WriterJournalOK, TypeOK, FilesOK, IsHot
<1>5. /\ jrnl.orig \in Nat /\ Len(jrnl.recs) \in Nat /\ DOMAIN jrnl.recs = 1 .. Len(jrnl.recs)
      /\ jrnl.syncedCount \in Nat /\ jrnl.synced \in Nat /\ journalHdr[c] \in Nat
      /\ InJournal = {jrnl.recs[i].pgno : i \in DOMAIN jrnl.recs}
      /\ \A i \in DOMAIN jrnl.recs : jrnl.recs[i] \in [pgno : Page, content : Content]
  BY <1>4, RecordsOf DEF TypeOK, InJournal
<1>6. p > jrnl.orig \/ \E i \in 1 .. journalHdr[c] : jrnl.recs[i].pgno = p
  <2>1. SUFFICES ASSUME p <= jrnl.orig PROVE \E i \in 1 .. journalHdr[c] : jrnl.recs[i].pgno = p
    BY <1>3, <1>5, PageRange
  <2>2. CASE pc[c] = "pages"
    <3>1. p \in InJournal /\ journalHdr[c] = Len(jrnl.recs)
      BY <1>2, <1>3, <2>1, <2>2 DEF WriterImageOK
    <3> QED
      BY <1>5, <3>1
  <2>3. CASE pc[c] = "spill"
    BY <1>2, <2>1, <2>3 DEF WriterImageOK
  <2> QED
    BY <2>2, <2>3
<1>7. Covered(p)
  <2>1. CASE p > jrnl.orig
    BY <1>4, <2>1 DEF Covered
  <2>2. CASE \E i \in 1 .. journalHdr[c] : jrnl.recs[i].pgno = p
    <3>1. PICK i \in 1 .. journalHdr[c] : jrnl.recs[i].pgno = p
      BY <2>2
    <3>2. i \in 1 .. jrnl.syncedCount /\ i \in DOMAIN jrnl.recs
      BY <1>2, <1>4, <1>5 DEF WriterJournalOK, JournalOK
    <3>3. jrnl.recs[i].content = Committed[p]
      BY <1>2, <3>1, <3>2 DEF WriterJournalOK
    <3>4. jrnl.recs[i] = [pgno |-> p, content |-> Committed[p]]
      BY <1>5, <3>1, <3>2, <3>3
    <3> QED
      BY <1>4, <3>2, <3>4 DEF Covered
  <2> QED
    BY <1>6, <2>1, <2>2
<1>8. cache[c][p] # None /\ cache[c][p] \in Content
  BY <1>2, <1>3 DEF WriterImageOK, TypeOK
<1>9. p = 1 => cache[c][p] # Absent
  <2>1. PICK n \in jrnl.orig .. MaxPage : Sized(View(c), n)
    BY <1>2 DEF WriterImageOK
  <2>2. 1 \in Page /\ 1 <= n
    BY <1>2, <1>5, CommittedFacts, PageRange DEF WriterJournalOK
  <2>3. View(c)[1] \in Written
    BY <2>1, <2>2 DEF Sized
  <2> QED
    BY <1>8, <2>2, <2>3, NoneIsNoContent DEF View
<1> QED
  BY <1>1, <1>2, <1>3, <1>4, <1>6, <1>7, <1>8, <1>9

\* One page is written: the files, and the journal of the transaction.
Writes(p, content) == DbWrite([q \in {p} |-> content])
LEMMA OnePageWritten ==
  ASSUME PInv, NEW c \in Conn, NEW p, NEW content, Writes(p, content), content \in Content,
         p = 1 => content # Absent,
         \/ pc[c] = "pages" /\ p \in dirty[c]
         \/ pc[c] = "spill" /\ p = at[c],
         UNCHANGED <<jrnl, unlinked, nTxn>>
  PROVE  /\ Committed' = Committed /\ CommittedVers' = CommittedVers
         /\ db' \in [Page -> Content] /\ unsynced' \in [Page -> SUBSET Content]
         /\ \A q \in Page : db'[q] = IF q = p THEN content ELSE db[q]
         /\ \A q \in Page : Settled(q)' \/ Covered(q)'
         /\ \A q \in Page : Settled(q) /\ q # p => Settled(q)'
         /\ Absent \notin unsynced'[1] \cup {db'[1]} /\ UnlinkedOK'
         /\ jrnl \in Journal /\ JournalOK(jrnl) /\ jrnl # None /\ jrnl.orig >= 1
         /\ eState'[c] = eState[c] /\ journalHdr'[c] = journalHdr[c] => WriterJournalOK(c)'
<1> USE DEF PInv, DbInv
<1> DEFINE written == [q \in {p} |-> content]
<1>1. /\ eState[c] = "WRITER_DBMOD" /\ WriterJournalOK(c) /\ IsHot(jrnl) /\ p \in Page /\ Covered(p)
      /\ p > jrnl.orig \/ \E i \in 1 .. journalHdr[c] : jrnl.recs[i].pgno = p
  BY PageCovered
<1>2. DOMAIN written = {p} /\ written[p] = content
  OBVIOUS
<1>3. DbWrite(written)
  BY DEF Writes
<1> HIDE DEF written
<1>4. \A q \in Page : q \in DOMAIN written =>
           written[q] \in Content /\ (written[q] = Committed[q] \/ Covered(q))
  BY <1>1, <1>2
<1>5. 1 \in DOMAIN written => written[1] # Absent
  BY <1>2
<1>6. /\ Committed' = Committed /\ CommittedVers' = CommittedVers
      /\ db' \in [Page -> Content] /\ unsynced' \in [Page -> SUBSET Content]
      /\ \A q \in Page : db'[q] = IF q \in DOMAIN written THEN written[q] ELSE db[q]
      /\ \A q \in Page : Settled(q)' \/ Covered(q)'
      /\ \A q \in Page : Settled(q) /\ (q \in DOMAIN written => written[q] = Committed[q])
                            => Settled(q)'
      /\ Absent \notin unsynced'[1] \cup {db'[1]} /\ UnlinkedOK'
  BY <1>1, <1>3, <1>4, <1>5, RestoreFiles
<1>7. \A q \in Page : Settled(q) /\ q # p => Settled(q)'
  BY <1>2, <1>6
<1>8. \A q \in Page : db'[q] = IF q = p THEN content ELSE db[q]
  BY <1>2, <1>6
<1>9. ASSUME eState'[c] = eState[c], journalHdr'[c] = journalHdr[c] PROVE WriterJournalOK(c)'
  BY <1>1, <1>6, <1>7, <1>9 DEF WriterJournalOK, Sized
<1>10. jrnl \in Journal /\ JournalOK(jrnl) /\ jrnl # None /\ jrnl.orig >= 1
  BY <1>1 DEF WriterJournalOK, TypeOK, FilesOK
<1> QED
  BY <1>6, <1>7, <1>8, <1>9, <1>10

LEMMA WritePageKeeps ==
  ASSUME PInv, LockInv', NEW c \in Conn, write_page(c) \/ spill_page(c)
  PROVE  ImageKept
<1> USE DEF PInv, DbInv
<1>1. PICK p : /\ WritePage(c, p)
               /\ \/ write_page(c) /\ pc[c] = "pages" /\ p \in dirty[c]
                  \/ spill_page(c) /\ pc[c] = "spill" /\ p = at[c]
  <2>1. CASE write_page(c)
    <3>1. dirty[c] \in SUBSET Nat /\ dirty[c] # {}
      BY <2>1, PageRange DEF write_page, TypeOK
    <3>2. Min(dirty[c]) \in dirty[c]
      BY <3>1, MinOf
    <3> QED
      BY <2>1, <3>2 DEF write_page
  <2>2. CASE spill_page(c)
    BY <2>2 DEF spill_page
  <2> QED
    BY <2>1, <2>2
<1>2. /\ eState[c] = "WRITER_DBMOD" /\ job[c] = (IF pc[c] = "pages" THEN "commit" ELSE "spill")
      /\ WriterJournalOK(c) /\ WriterImageOK(c) /\ IsHot(jrnl) /\ p \in Page /\ p \in dirty[c]
      /\ pc[c] = "spill" => p # 1
      /\ cache[c][p] \in Content /\ cache[c][p] # None /\ (p = 1 => cache[c][p] # Absent)
  BY <1>1, PageCovered
<1>3. /\ UNCHANGED <<jrnl, unlinked, lock, eState, cache, journalHdr, nTxn, setting>>
      /\ Writes(p, cache[c][p])
      /\ dbFileVers' = IF p = 1 THEN [dbFileVers EXCEPT ![c] = VersionOf(cache[c][1])]
                       ELSE dbFileVers
      /\ dirty' = [dirty EXCEPT ![c] = dirty[c] \ {p}]
      /\ \/ UNCHANGED <<pc, job, at>> /\ pc[c] = "pages"
         \/ /\ pc[c] = "spill" /\ pc' = [pc EXCEPT ![c] = "idle"]
            /\ job' = [job EXCEPT ![c] = "none"] /\ at' = [at EXCEPT ![c] = 0]
  BY <1>1, <1>2 DEF write_page, spill_page, WritePage, Goto, TypeOK, Writes
<1>4. /\ Committed' = Committed /\ CommittedVers' = CommittedVers
      /\ db' \in [Page -> Content] /\ unsynced' \in [Page -> SUBSET Content]
      /\ \A q \in Page : db'[q] = IF q = p THEN cache[c][p] ELSE db[q]
      /\ \A q \in Page : Settled(q)' \/ Covered(q)'
      /\ Absent \notin unsynced'[1] \cup {db'[1]} /\ UnlinkedOK'
      /\ jrnl \in Journal /\ JournalOK(jrnl) /\ jrnl # None /\ jrnl.orig >= 1
      /\ WriterJournalOK(c)'
  BY <1>1, <1>2, <1>3, OnePageWritten
<1>5. StepOf(c) /\ LocalTypes(c)'
  <2>1. StepOf(c)
    BY <1>3 DEF StepOf, TypeOK
  <2>2. VersionOf(cache[c][1]) \in Version \/ p # 1
    BY <1>2, VersionType
  <2>3. dbFileVers'[c] \in Version /\ dirty'[c] \in SUBSET Page
    BY <1>3, <2>2 DEF TypeOK
  <2>4. job'[c] \in Jobs /\ at'[c] \in Nat
    BY <1>3 DEF TypeOK, Jobs
  <2> QED
    BY <1>3, <2>1, <2>3, <2>4, HaveTypes DEF LocalTypes
<1>6. LockInv /\ lock[c] = FL!EXCLUSIVE_LOCK /\ lock[c] >= FL!RESERVED_LOCK
  BY <1>2, LevelOfState
<1>7. /\ \/ pc'[c] = "pages" /\ job'[c] = "commit" /\ pc[c] = "pages"
         \/ pc'[c] = "idle" /\ job'[c] = "none" /\ pc[c] = "spill"
      /\ dirty'[c] = dirty[c] \ {p} /\ eState'[c] = "WRITER_DBMOD"
      /\ dbFileVers'[c] = IF p = 1 THEN VersionOf(cache[c][1]) ELSE dbFileVers[c]
  BY <1>2, <1>3 DEF TypeOK
<1>8. WriterImageOK(c)'
  <2>1. View(c)' = View(c)
    <3>1. \A q \in Page : (IF cache'[c][q] = None THEN db'[q] ELSE cache'[c][q]) =
                          (IF cache[c][q] = None THEN db[q] ELSE cache[c][q])
      BY <1>2, <1>3, <1>4
    <3> QED
      BY <3>1 DEF View
  <2>2. \E n \in jrnl'.orig .. MaxPage : Sized(View(c)', n)
    BY <1>2, <1>3, <2>1 DEF WriterImageOK, Sized
  <2>3. \A q \in dirty'[c] : cache'[c][q] # None /\ (q <= jrnl'.orig => q \in InJournal')
    BY <1>2, <1>3, <1>7 DEF WriterImageOK, InJournal
  <2>4. \A q \in Page \ dirty'[c] : cache'[c][q] \in {None, db'[q]}
    BY <1>2, <1>3, <1>4, <1>7 DEF WriterImageOK
  <2>5. 1 \in Page
    BY CommittedFacts
  <2>6. dbFileVers'[c] = VersionOf(db[1])'
    BY <1>2, <1>4, <1>7, <2>5 DEF WriterImageOK, VersionOf
  <2>7. pc'[c] \notin {"pages", "finalize"} => dbFileVers'[c] = CommittedVers'
    BY <1>2, <1>4, <1>7 DEF WriterImageOK
  <2>8. job'[c] = "commit" => VersionOf(cache[c][1])'[1] = CommittedVers'[1] + 1
    BY <1>2, <1>3, <1>4, <1>7 DEF WriterImageOK, VersionOf
  <2>9. pc'[c] = "pages" => journalHdr'[c] = Len(jrnl'.recs)
    BY <1>2, <1>3, <1>7 DEF WriterImageOK
  <2> QED
    BY <1>2, <1>3, <1>7, <2>2, <2>3, <2>4, <2>6, <2>7, <2>8, <2>9 DEF WriterImageOK
<1>9. ConnOK(c)'
  BY <1>4, <1>7, <1>8 DEF ConnOK, ControlOK, InPhaseOne, WriterOK, Writer
<1>10. HotHere(c)'
  BY <1>3, <1>6, <1>7 DEF HotHere
<1>11. jrnl' \in Journal \cup {None} /\ unlinked' \in Journal \cup {None} /\ JournalOK(jrnl')
       /\ jrnl'.orig >= 1
  BY <1>3, <1>4 DEF TypeOK
<1> QED
  BY <1>3, <1>4, <1>5, <1>6, <1>9, <1>10, <1>11, FileStep

LEMMA HalfWrittenKeeps ==
  ASSUME PInv, LockInv', NEW c \in Conn, NEW p, commit_fails(c) \/ pager_error(c),
         \/ pc[c] = "pages" /\ p \in dirty[c]
         \/ pc[c] = "spill" /\ p = at[c],
         Writes(p, Torn)
  PROVE  ImageKept
<1> USE DEF PInv, DbInv
<1>1. Torn \in Content /\ Torn # Absent
  BY NoneIsNoContent, PagerAssumption
<1>2. /\ eState[c] = "WRITER_DBMOD" /\ job[c] = (IF pc[c] = "pages" THEN "commit" ELSE "spill")
      /\ WriterJournalOK(c) /\ WriterImageOK(c) /\ IsHot(jrnl) /\ p \in Page
  BY PageCovered
<1>3. /\ UNCHANGED <<jrnl, unlinked, lock, cache, dirty, dbFileVers, journalHdr, nTxn, setting>>
      /\ at' = [at EXCEPT ![c] = 0]
      /\ \/ /\ eState' = eState /\ pc' = [pc EXCEPT ![c] = "playback"]
            /\ job' = [job EXCEPT ![c] = "rollback"]
         \/ /\ eState' = [eState EXCEPT ![c] = "ERROR"] /\ pc' = [pc EXCEPT ![c] = "idle"]
            /\ job' = [job EXCEPT ![c] = "none"]
  BY DEF commit_fails, pager_error, Goto, SetState
<1>4. /\ Committed' = Committed /\ CommittedVers' = CommittedVers
      /\ db' \in [Page -> Content] /\ unsynced' \in [Page -> SUBSET Content]
      /\ \A q \in Page : Settled(q)' \/ Covered(q)'
      /\ Absent \notin unsynced'[1] \cup {db'[1]} /\ UnlinkedOK'
      /\ jrnl \in Journal /\ JournalOK(jrnl) /\ jrnl # None /\ jrnl.orig >= 1
      /\ eState'[c] = eState[c] /\ journalHdr'[c] = journalHdr[c] => WriterJournalOK(c)'
  BY <1>1, <1>3, OnePageWritten
<1>5. StepOf(c) /\ LocalTypes(c)'
  BY <1>3, HaveTypes DEF StepOf, LocalTypes, TypeOK, Jobs
<1>6. LockInv /\ lock[c] = FL!EXCLUSIVE_LOCK /\ lock[c] >= FL!RESERVED_LOCK
  BY <1>2, LevelOfState
<1>7. /\ \/ eState'[c] = "WRITER_DBMOD" /\ pc'[c] = "playback" /\ job'[c] = "rollback"
         \/ eState'[c] = "ERROR" /\ pc'[c] = "idle" /\ job'[c] = "none"
      /\ at'[c] = 0
  BY <1>2, <1>3 DEF TypeOK
<1>8. ConnOK(c)'
  <2>1. CASE eState'[c] = "WRITER_DBMOD"
    <3>1. WriterJournalOK(c)'
      BY <1>2, <1>3, <1>4, <2>1
    <3>2. Undoable(c)
      BY <1>2, WriterUndoable DEF Writer
    <3>3. Undoable(c)'
      BY <1>3, <1>4, <3>2 DEF Undoable, InJournal
    <3>4. jrnl' \in Journal /\ JournalOK(jrnl')
      BY <1>3, <1>4
    <3>5. RollbackOK(c)'
      BY <1>7, <2>1, <3>3, <3>4, UndoableRollback
    <3> QED
      BY <1>7, <2>1, <3>1, <3>5 DEF ConnOK, ControlOK, RollsBack, WriterOK, Writer
  <2>2. CASE eState'[c] = "ERROR"
    BY <1>7, <2>2 DEF ConnOK, ControlOK, Writer
  <2> QED
    BY <1>7, <2>1, <2>2
<1>9. HotHere(c)'
  BY <1>3, <1>6, <1>7 DEF HotHere
<1>10. jrnl' \in Journal \cup {None} /\ unlinked' \in Journal \cup {None} /\ JournalOK(jrnl')
       /\ jrnl'.orig >= 1
  BY <1>3, <1>4 DEF TypeOK
<1> QED
  BY <1>3, <1>4, <1>5, <1>6, <1>8, <1>9, <1>10, FileStep

-----------------------------------------------------------------------------
(* The playback of a journal *)

\* A write that gives pages their committed content again.
Restores(content) ==
  /\ IsHot(jrnl) /\ DbWrite(content)
  /\ \A p \in Page : p \in DOMAIN content => content[p] = Committed[p]

LEMMA PlaybackFiles ==
  ASSUME PInv, UNCHANGED <<jrnl, unlinked, nTxn>>,
         UNCHANGED <<db, unsynced>> \/ DbSync \/ \E content : Restores(content)
  PROVE  /\ Committed' = Committed /\ CommittedVers' = CommittedVers
         /\ db' \in [Page -> Content] /\ unsynced' \in [Page -> SUBSET Content]
         /\ \A p \in Page : db'[p] \in {db[p], Committed[p]}
         /\ \A p \in Page : Settled(p) => Settled(p)'
         /\ \A p \in Page : Settled(p)' \/ Covered(p)'
         /\ Absent \notin unsynced'[1] \cup {db'[1]} /\ UnlinkedOK'
<1> USE DEF PInv, DbInv
<1>1. CASE UNCHANGED <<db, unsynced>>
  <2>1. Committed' = Committed /\ CommittedVers' = CommittedVers
    BY <1>1, FilesSame
  <2>2. \A p \in Page : (Settled(p) => Settled(p)') /\ (Covered(p) => Covered(p)')
    BY <1>1, <2>1 DEF Settled, Covered, IsHot
  <2>3. Restored(db, unlinked)' = Restored(db, unlinked)
    BY <1>1 DEF Restored
  <2>4. UnlinkedOK'
    BY <1>1, <2>2, <2>3 DEF UnlinkedOK, FilesOK, JournalOK, ImageOK, Sized, VersionOf
  <2> QED
    BY <1>1, <2>1, <2>2, <2>4, SafeNow DEF TypeOK, FilesOK
<1>2. CASE DbSync
  BY <1>2, SyncFiles DEF Settled
<1>3. ASSUME NEW content, Restores(content)
      PROVE  /\ Committed' = Committed /\ CommittedVers' = CommittedVers
             /\ db' \in [Page -> Content] /\ unsynced' \in [Page -> SUBSET Content]
             /\ \A p \in Page : db'[p] \in {db[p], Committed[p]}
             /\ \A p \in Page : Settled(p) => Settled(p)'
             /\ \A p \in Page : Settled(p)' \/ Covered(p)'
             /\ Absent \notin unsynced'[1] \cup {db'[1]} /\ UnlinkedOK'
  <2>1. ASSUME NEW p \in Page, p \in DOMAIN content
        PROVE  content[p] \in Content /\ content[p] = Committed[p]
    BY <1>3, <2>1, CommittedFacts DEF Restores
  <2>2. 1 \in DOMAIN content => content[1] # Absent
    BY <2>1, CommittedFacts, NoneIsNoContent
  <2>3. /\ Committed' = Committed /\ CommittedVers' = CommittedVers
        /\ db' \in [Page -> Content] /\ unsynced' \in [Page -> SUBSET Content]
        /\ \A p \in Page : db'[p] = IF p \in DOMAIN content THEN content[p] ELSE db[p]
        /\ \A p \in Page : Settled(p)' \/ Covered(p)'
        /\ \A p \in Page : Settled(p) /\ (p \in DOMAIN content => content[p] = Committed[p])
                              => Settled(p)'
        /\ Absent \notin unsynced'[1] \cup {db'[1]} /\ UnlinkedOK'
    BY <1>3, <2>1, <2>2, RestoreFiles DEF Restores
  <2> QED
    BY <2>1, <2>3
<1> QED
  BY <1>1, <1>2, <1>3

\* Who plays back a journal, and what it may rely on.
LEMMA PlaybackState ==
  ASSUME PInv, NEW c \in Conn, pc[c] = "playback"
  PROVE  /\ \/ eState[c] = "OPEN" /\ job[c] = "recover" /\ RecoverOK(c) /\ OpenOK(c)
               /\ lock[c] = FL!EXCLUSIVE_LOCK
            \/ eState[c] \in Writer /\ job[c] = "rollback" /\ WriterJournalOK(c) /\ RollbackOK(c)
         /\ jrnl \in Journal /\ JournalOK(jrnl) /\ jrnl # None
         /\ lock[c] >= FL!RESERVED_LOCK
<1> USE DEF PInv, DbInv
<1>1. ConnOK(c) /\ ControlOK(eState[c], pc[c], job[c])
  BY DEF ConnOK
<1>2. \/ eState[c] = "OPEN" /\ job[c] = "recover"
      \/ eState[c] \in Writer /\ job[c] = "rollback"
  BY <1>1 DEF ControlOK, Opening, InPhaseOne, RollsBack
<1>3. CASE eState[c] = "OPEN" /\ job[c] = "recover"
  BY <1>1, <1>3, LevelOfState DEF ConnOK, RecoverOK, TypeOK, FilesOK
<1>4. CASE eState[c] \in Writer /\ job[c] = "rollback"
  BY <1>1, <1>4, LevelOfState DEF ConnOK, WriterOK, WriterJournalOK, TypeOK, FilesOK
<1> QED
  BY <1>2, <1>3, <1>4

\* A step of the playback.
LEMMA PlaybackStep ==
  ASSUME PInv, LockInv', NEW c \in Conn, pc[c] = "playback", pc'[c] \in {"playback", "finalize"},
         UNCHANGED <<jrnl, unlinked, lock, eState, job, dirty, journalHdr, nTxn, setting>>,
         StepOf(c), LocalTypes(c)',
         UNCHANGED <<db, unsynced>> \/ DbSync \/ \E content : Restores(content),
         job[c] = "recover" => RecoverOK(c)' /\ OpenOK(c)',
         job[c] = "rollback" => RollbackOK(c)'
  PROVE  ImageKept
<1> USE DEF PInv, DbInv
<1>1. /\ Committed' = Committed /\ CommittedVers' = CommittedVers
      /\ db' \in [Page -> Content] /\ unsynced' \in [Page -> SUBSET Content]
      /\ \A p \in Page : Settled(p) => Settled(p)'
      /\ \A p \in Page : Settled(p)' \/ Covered(p)'
      /\ Absent \notin unsynced'[1] \cup {db'[1]} /\ UnlinkedOK'
  BY PlaybackFiles
<1>2. /\ \/ eState[c] = "OPEN" /\ job[c] = "recover"
         \/ eState[c] \in Writer /\ job[c] = "rollback" /\ WriterJournalOK(c)
      /\ jrnl \in Journal /\ JournalOK(jrnl) /\ lock[c] >= FL!RESERVED_LOCK
  BY PlaybackState
<1>3. eState[c] \in Writer => WriterJournalOK(c)'
  <2>1. SUFFICES ASSUME eState[c] \in Writer PROVE WriterJournalOK(c)'
    OBVIOUS
  <2>2. WriterJournalOK(c)
    BY <1>2, <2>1 DEF Writer
  <2> QED
    BY <1>1, <2>2 DEF WriterJournalOK, Sized
<1>4. ConnOK(c)'
  BY <1>2, <1>3 DEF ConnOK, ControlOK, RollsBack, WriterOK, Writer
<1>5. IsHot(jrnl') => IsHot(jrnl) /\ jrnl'.orig >= 1 /\ HotHere(c)'
  BY <1>2 DEF FilesOK, HotAlone, HotHere, IsHot, Writer
<1>6. jrnl' \in Journal \cup {None} /\ unlinked' \in Journal \cup {None} /\ JournalOK(jrnl')
  BY <1>2 DEF TypeOK
<1> QED
  BY <1>1, <1>2, <1>4, <1>5, <1>6, FileStep

\* The numbers of a journal that is played back.
LEMMA JournalRange ==
  ASSUME NEW j \in Journal, JournalOK(j)
  PROVE  /\ j.orig \in Nat /\ j.counted \in Nat /\ Len(j.recs) \in Nat /\ j.counted <= Len(j.recs)
         /\ DOMAIN j.recs = 1 .. Len(j.recs) /\ 1 .. j.counted \subseteq DOMAIN j.recs
         /\ \A i \in DOMAIN j.recs : /\ j.recs[i].pgno \in Page /\ j.recs[i].content \in Content
                                     /\ j.recs[i].pgno <= j.orig /\ ~(j.recs[i].pgno > j.orig)
         /\ \A i, k \in DOMAIN j.recs : j.recs[i].pgno = j.recs[k].pgno => i = k
<1>1. /\ j.orig \in Nat /\ j.counted \in Nat /\ Len(j.recs) \in Nat
      /\ DOMAIN j.recs = 1 .. Len(j.recs)
      /\ \A i \in DOMAIN j.recs : j.recs[i] \in [pgno : Page, content : Content]
  BY RecordsOf
<1>2. \A p \in Page : p \in Nat
  BY PageRange
<1> QED
  BY <1>1, <1>2 DEF JournalOK

LEMMA PlaybackHeaderKeeps ==
  ASSUME PInv, LockInv', NEW c \in Conn, playback_header(c)
  PROVE  ImageKept
<1> USE DEF PInv, DbInv
<1> DEFINE cut == {q \in Page : q > jrnl.orig /\ db[q] # Absent}
           content == [p \in cut |-> Absent]
<1>1. /\ pc[c] = "playback" /\ at[c] = 0 /\ at' = [at EXCEPT ![c] = 1]
      /\ IF WritesDb(c) /\ (job[c] = "recover" => jrnl.magic) THEN DbWrite(content)
         ELSE UNCHANGED <<db, unsynced>>
      /\ cache' = [cache EXCEPT ![c] =
           IF job[c] = "recover" /\ Records(c) > 0 THEN EmptyCache ELSE cache[c]]
      /\ UNCHANGED <<jrnl, unlinked, lock, eState, pc, job, dirty, dbFileVers, journalHdr,
                     nTxn, setting>>
  BY DEF playback_header, Reset, TypeOK
<1>2. /\ \/ eState[c] = "OPEN" /\ job[c] = "recover" /\ RecoverOK(c) /\ OpenOK(c)
         \/ eState[c] \in Writer /\ job[c] = "rollback" /\ WriterJournalOK(c) /\ RollbackOK(c)
      /\ jrnl \in Journal /\ JournalOK(jrnl) /\ jrnl # None
  BY <1>1, PlaybackState
<1>3. jrnl.counted \in Nat /\ Len(jrnl.recs) \in Nat /\ DOMAIN jrnl.recs = 1 .. Len(jrnl.recs)
      /\ jrnl.orig \in Nat
  BY <1>2, JournalRange
<1>4. /\ at'[c] = 1 /\ dbFileVers'[c] = dbFileVers[c]
      /\ cache'[c] = IF job[c] = "recover" /\ Records(c) > 0 THEN EmptyCache ELSE cache[c]
  BY <1>1 DEF TypeOK
<1>5. StepOf(c) /\ LocalTypes(c)'
  <2>1. StepOf(c)
    BY <1>1 DEF StepOf, TypeOK
  <2>2. EmptyCache \in [Page -> Content \cup {None}]
    BY DEF EmptyCache
  <2> QED
    BY <1>1, <1>4, <2>1, <2>2, HaveTypes DEF LocalTypes
<1>6. CASE ~(WritesDb(c) /\ (job[c] = "recover" => jrnl.magic))
  <2>1. UNCHANGED <<db, unsynced>> /\ UNCHANGED <<jrnl, unlinked, nTxn>>
    BY <1>1, <1>6
  <2>2. Committed' = Committed /\ CommittedVers' = CommittedVers
    BY <2>1, PlaybackFiles
  <2>3. ASSUME job[c] = "recover" PROVE RecoverOK(c)' /\ OpenOK(c)'
    <3>1. RecoverOK(c) /\ OpenOK(c) /\ ~jrnl.magic /\ Records(c) = 0
      BY <1>2, <1>6, <2>3 DEF WritesDb, Records, Writer
    <3>2. cache'[c] = cache[c]
      BY <1>4, <3>1
    <3> QED
      BY <1>1, <1>4, <2>2, <3>1, <3>2 DEF RecoverOK, OpenOK, Fresh, EmptyCache
  <2>4. ASSUME job[c] = "rollback" PROVE RollbackOK(c)'
    <3>1. RollbackOK(c) /\ eState[c] # "WRITER_DBMOD" /\ cache'[c] = cache[c]
      BY <1>2, <1>4, <1>6, <2>4 DEF WritesDb
    <3> QED
      BY <1>1, <1>3, <1>4, <2>2, <3>1 DEF RollbackOK, PlayedBackCache, InJournal
  <2> QED
    BY <1>1, <1>5, <2>1, <2>3, <2>4, PlaybackStep
<1>7. CASE WritesDb(c) /\ (job[c] = "recover" => jrnl.magic)
  <2>1. DbWrite(content)
    BY <1>1, <1>7
  <2>2. DOMAIN content = cut /\ \A p \in cut : content[p] = Absent
    OBVIOUS
  <2>3. jrnl.magic
    BY <1>2, <1>7 DEF WritesDb, Writer, WriterJournalOK
  <2>4. Restores(content)
    <3>1. IsHot(jrnl) /\ Committed = Restored(db, jrnl)
      BY <1>2, <2>3, CommittedHot DEF IsHot
    <3>2. \A p \in cut : p \in Page /\ Committed[p] = Absent
      BY <3>1, RestoredOther
    <3> HIDE DEF content, cut
    <3> QED
      BY <2>1, <2>2, <3>1, <3>2 DEF Restores
  <2>5. \A p \in Page : p > jrnl.orig => db'[p] = Absent
    BY <2>1 DEF DbWrite
  <2> HIDE DEF content, cut
  <2>6. Committed' = Committed /\ CommittedVers' = CommittedVers
    BY <1>1, <2>4, PlaybackFiles
  <2>7. PlayedBack(c)'
    <3>1. \A i \in DOMAIN jrnl'.recs : ~(i < at'[c])
      BY <1>1, <1>3, <1>4
    <3> QED
      BY <1>1, <2>5, <3>1 DEF PlayedBack
  <2>8. ASSUME job[c] = "recover" PROVE RecoverOK(c)' /\ OpenOK(c)'
    <3>1. RecoverOK(c) /\ OpenOK(c) /\ Records(c) = jrnl.counted
      BY <1>2, <2>3, <2>8 DEF Records, Writer
    <3>2. jrnl.counted > 0 => cache'[c] = EmptyCache
      BY <1>4, <2>8, <3>1
    <3>3. cache'[c] \in {cache[c], EmptyCache}
      BY <1>4
    <3>4. OpenOK(c)'
      BY <1>4, <2>6, <3>1, <3>3 DEF OpenOK, Fresh, EmptyCache
    <3>5. at'[c] <= jrnl'.counted + 1 /\ (jrnl'.counted > 0 => cache'[c] = EmptyCache')
      BY <1>1, <1>3, <1>4, <3>2 DEF EmptyCache
    <3> QED
      BY <1>1, <1>4, <2>3, <2>7, <3>1, <3>4, <3>5 DEF RecoverOK
  <2>9. ASSUME job[c] = "rollback" PROVE RollbackOK(c)'
    <3>1. RollbackOK(c) /\ cache'[c] = cache[c]
      BY <1>2, <1>4, <2>9
    <3> QED
      BY <1>1, <1>3, <1>4, <2>6, <2>7, <3>1 DEF RollbackOK, PlayedBackCache, InJournal
  <2> QED
    BY <1>1, <1>5, <2>4, <2>8, <2>9, PlaybackStep
<1> QED
  BY <1>6, <1>7

LEMMA PlaybackOnePageKeeps ==
  ASSUME PInv, LockInv', NEW c \in Conn, playback_one_page(c)
  PROVE  ImageKept
<1> USE DEF PInv, DbInv
<1> DEFINE i0 == at[c]
           r == jrnl.recs[i0]
           content == [p \in {r.pgno} |-> r.content]
           cached == cache[c][r.pgno] # None
<1>1. /\ pc[c] = "playback" /\ i0 \in 1 .. Records(c) /\ at' = [at EXCEPT ![c] = i0 + 1]
      /\ IF WritesDb(c) /\ i0 <= journalHdr[c] THEN DbWrite(content) ELSE UNCHANGED <<db, unsynced>>
      /\ cache' = IF cached THEN [cache EXCEPT ![c][r.pgno] = r.content] ELSE cache
      /\ dbFileVers' = IF cached /\ r.pgno = 1 THEN [dbFileVers EXCEPT ![c] = VersionOf(r.content)]
                       ELSE dbFileVers
      /\ UNCHANGED <<jrnl, unlinked, lock, eState, pc, job, dirty, journalHdr, nTxn, setting>>
  BY DEF playback_one_page
<1>2. /\ \/ eState[c] = "OPEN" /\ job[c] = "recover" /\ RecoverOK(c) /\ OpenOK(c)
         \/ eState[c] \in Writer /\ job[c] = "rollback" /\ WriterJournalOK(c) /\ RollbackOK(c)
      /\ jrnl \in Journal /\ JournalOK(jrnl) /\ jrnl # None
  BY <1>1, PlaybackState
<1>3. /\ jrnl.orig \in Nat /\ jrnl.counted \in Nat /\ Len(jrnl.recs) \in Nat
      /\ jrnl.counted <= Len(jrnl.recs) /\ DOMAIN jrnl.recs = 1 .. Len(jrnl.recs)
      /\ \A i \in DOMAIN jrnl.recs : /\ jrnl.recs[i].pgno \in Page /\ jrnl.recs[i].content \in Content
                                     /\ ~(jrnl.recs[i].pgno > jrnl.orig)
      /\ \A i, k \in DOMAIN jrnl.recs : jrnl.recs[i].pgno = jrnl.recs[k].pgno => i = k
  BY <1>2, JournalRange
<1>4. job[c] = "recover" => jrnl.magic /\ Records(c) = jrnl.counted
  BY <1>1, <1>2, <1>3 DEF Records
<1>5. i0 \in DOMAIN jrnl.recs /\ i0 \in Nat /\ i0 >= 1 /\ (job[c] = "rollback" => Records(c) = Len(jrnl.recs))
  BY <1>1, <1>2, <1>3, <1>4 DEF Records
<1>6. /\ r.pgno \in Page /\ r.content \in Content /\ r.content # None /\ ~(r.pgno > jrnl.orig)
      /\ \A i \in DOMAIN jrnl.recs : jrnl.recs[i].pgno = r.pgno => i = i0
      /\ r.pgno \in InJournal
  BY <1>2, <1>3, <1>5, NoneIsNoContent DEF InJournal
<1>7. r.content = Committed[r.pgno]
  <2>1. CASE job[c] = "recover"
    <3>1. Committed = Restored(db, jrnl) /\ i0 \in 1 .. jrnl.counted
      BY <1>1, <1>2, <1>4, <2>1, CommittedHot DEF IsHot
    <3> QED
      BY <1>2, <3>1, RestoredRecord
  <2>2. CASE job[c] = "rollback"
    BY <1>2, <1>5, <2>2 DEF WriterJournalOK
  <2> QED
    BY <1>2, <2>1, <2>2
<1>8. /\ at'[c] = i0 + 1
      /\ cache'[c] = IF cached THEN [cache[c] EXCEPT ![r.pgno] = r.content] ELSE cache[c]
      /\ dbFileVers'[c] = IF cached /\ r.pgno = 1 THEN VersionOf(r.content) ELSE dbFileVers[c]
  BY <1>1 DEF TypeOK
<1>9. \A i \in DOMAIN jrnl.recs : i < at'[c] <=> i < i0 \/ i = i0
  BY <1>3, <1>5, <1>8
<1>10. StepOf(c) /\ LocalTypes(c)'
  <2>1. StepOf(c)
    BY <1>1 DEF StepOf, TypeOK
  <2>2. VersionOf(r.content) \in Version
    BY <1>6, VersionType
  <2>3. LocalTypes(c)
    BY HaveTypes
  <2>4. at'[c] \in Nat
    BY <1>5, <1>8
  <2>5. cache'[c] \in [Page -> Content \cup {None}] /\ dbFileVers'[c] \in Version
    BY <1>6, <1>8, <2>2, <2>3 DEF LocalTypes
  <2> QED
    BY <1>1, <2>1, <2>3, <2>4, <2>5 DEF LocalTypes
<1>11. /\ UNCHANGED <<db, unsynced>> \/ \E image : Restores(image)
       /\ \A p \in Page : p # r.pgno => db'[p] = db[p]
       /\ WritesDb(c) => db'[r.pgno] = r.content
  <2>1. CASE WritesDb(c) /\ i0 <= journalHdr[c]
    <3>1. DbWrite(content) /\ DOMAIN content = {r.pgno} /\ content[r.pgno] = r.content
      BY <1>1, <2>1
    <3>2. IsHot(jrnl)
      BY <1>2, <1>4, <2>1 DEF WritesDb, Writer, WriterJournalOK, IsHot
    <3>3. Restores(content)
      BY <1>7, <3>1, <3>2 DEF Restores
    <3>4. \A p \in Page : db'[p] = IF p = r.pgno THEN r.content ELSE db[p]
      BY <3>1 DEF DbWrite
    <3> QED
      BY <1>6, <3>3, <3>4
  <2>2. CASE ~(WritesDb(c) /\ i0 <= journalHdr[c])
    <3>1. UNCHANGED <<db, unsynced>>
      BY <1>1, <2>2
    <3>2. ASSUME WritesDb(c) PROVE db[r.pgno] = r.content
      <4>1. ~(i0 <= journalHdr[c]) /\ journalHdr[c] \in Nat
        BY <2>2, <3>2 DEF TypeOK
      <4>2. job[c] = "rollback" /\ eState[c] = "WRITER_DBMOD" /\ WriterJournalOK(c)
        BY <1>1, <1>2, <1>3, <1>5, <3>2, <4>1 DEF RecoverOK, WritesDb, Writer
      <4>3. ~\E i \in 1 .. journalHdr[c] : jrnl.recs[i].pgno = r.pgno
        <5>1. \A i \in 1 .. journalHdr[c] : i \in DOMAIN jrnl.recs /\ i # i0
          BY <1>3, <1>5, <4>1
        <5> QED
          BY <1>6, <5>1
      <4>4. Settled(r.pgno)
        BY <1>6, <4>2, <4>3 DEF WriterJournalOK
      <4> QED
        BY <1>7, <4>4 DEF Settled
    <3> QED
      BY <3>1, <3>2
  <2> QED
    BY <2>1, <2>2
<1>12. Committed' = Committed /\ CommittedVers' = CommittedVers
  BY <1>1, <1>11, PlaybackFiles
<1>13. ASSUME WritesDb(c), PlayedBack(c) PROVE PlayedBack(c)'
  <2>1. ASSUME NEW p \in Page, p > jrnl.orig PROVE db'[p] = Absent
    BY <1>5, <1>6, <1>11, <1>13, <2>1 DEF PlayedBack
  <2>2. ASSUME NEW i \in DOMAIN jrnl.recs, i < at'[c]
        PROVE  db'[jrnl.recs[i].pgno] = jrnl.recs[i].content
    <3>1. CASE i = i0
      BY <1>11, <1>13, <3>1
    <3>2. CASE i # i0
      BY <1>3, <1>6, <1>9, <1>11, <1>13, <2>2, <3>2 DEF PlayedBack
    <3> QED
      BY <3>1, <3>2
  <2> QED
    BY <1>1, <2>1, <2>2 DEF PlayedBack
<1>14. ASSUME job[c] = "recover" PROVE RecoverOK(c)' /\ OpenOK(c)'
  <2>1. RecoverOK(c) /\ OpenOK(c) /\ jrnl.magic /\ i0 <= jrnl.counted /\ WritesDb(c)
    BY <1>1, <1>2, <1>3, <1>4, <1>14 DEF WritesDb, Writer
  <2>2. PlayedBack(c) /\ cache[c] = EmptyCache
    BY <1>1, <1>3, <1>5, <2>1 DEF RecoverOK
  <2>3. cache'[c] = EmptyCache /\ dbFileVers'[c] = dbFileVers[c]
    BY <1>6, <1>8, <2>2 DEF EmptyCache
  <2>4. at'[c] <= jrnl.counted + 1
    <3>1. at'[c] = i0 + 1
      BY <1>8
    <3>2. i0 \in Nat /\ jrnl.counted \in Nat /\ i0 <= jrnl.counted
      BY <1>3, <1>5, <2>1
    <3> QED
      BY <3>1, <3>2
  <2> QED
    BY <1>1, <1>13, <2>1, <2>2, <2>3, <2>4 DEF RecoverOK, OpenOK, EmptyCache
<1>15. ASSUME job[c] = "rollback" PROVE RollbackOK(c)'
  <2>1. RollbackOK(c) /\ PlayedBackCache(c) /\ Records(c) = Len(jrnl.recs)
        /\ (eState[c] = "WRITER_DBMOD" => PlayedBack(c) /\ WritesDb(c))
    BY <1>1, <1>2, <1>5, <1>15 DEF RollbackOK, WritesDb
  <2>2. at'[c] <= Len(jrnl.recs) + 1
    <3>1. at'[c] = i0 + 1
      BY <1>8
    <3>2. i0 \in Nat /\ Len(jrnl.recs) \in Nat /\ i0 <= Len(jrnl.recs)
      BY <1>3, <1>5
    <3> QED
      BY <3>1, <3>2
  <2>3. cache'[c][1] # None
    BY <1>6, <1>8, <2>1, CommittedFacts DEF RollbackOK, TypeOK
  <2>4. /\ \A p \in Page : p # r.pgno => cache'[c][p] = cache[c][p]
        /\ cache'[c][r.pgno] \in {None, r.content}
    BY <1>6, <1>8 DEF TypeOK
  <2>5. ASSUME NEW p \in Page, p <= jrnl.orig, p \notin InJournal
        PROVE  cache'[c][p] \in {None, Committed[p]}
    BY <1>6, <2>1, <2>4, <2>5 DEF PlayedBackCache
  <2>6. ASSUME NEW i \in DOMAIN jrnl.recs, i < at'[c]
        PROVE  cache'[c][jrnl.recs[i].pgno] \in {None, jrnl.recs[i].content}
    <3>1. CASE i = i0
      BY <2>4, <3>1
    <3>2. CASE i # i0
      BY <1>3, <1>6, <1>9, <2>1, <2>4, <2>6, <3>2 DEF PlayedBackCache
    <3> QED
      BY <3>1, <3>2
  <2>7. ASSUME \A i \in DOMAIN jrnl.recs : jrnl.recs[i].pgno = 1 => i < at'[c]
        PROVE  dbFileVers'[c] = CommittedVers
    <3>1. CASE r.pgno = 1
      BY <1>7, <1>8, <2>1, <3>1 DEF RollbackOK, CommittedVers
    <3>2. CASE r.pgno # 1
      <4>1. \A i \in DOMAIN jrnl.recs : jrnl.recs[i].pgno = 1 => i < i0
        BY <1>9, <2>7, <3>2
      <4> QED
        BY <1>8, <2>1, <3>2, <4>1 DEF PlayedBackCache
    <3> QED
      BY <3>1, <3>2
  <2>8. PlayedBackCache(c)'
    BY <1>1, <1>12, <2>5, <2>6, <2>7 DEF PlayedBackCache, InJournal
  <2> QED
    BY <1>1, <1>13, <2>1, <2>2, <2>3, <2>8 DEF RollbackOK
<1> HIDE DEF i0, r, content, cached
<1> QED
  BY <1>1, <1>10, <1>11, <1>14, <1>15, PlaybackStep

LEMMA PlaybackEndKeeps ==
  ASSUME PInv, LockInv', NEW c \in Conn, playback_end(c)
  PROVE  ImageKept
<1> USE DEF PInv, DbInv
<1>1. /\ pc[c] = "playback" /\ at[c] = Records(c) + 1 /\ pc' = [pc EXCEPT ![c] = "finalize"]
      /\ IF WritesDb(c) THEN DbSync ELSE UNCHANGED <<db, unsynced>>
      /\ UNCHANGED <<jrnl, unlinked, lock, eState, job, cache, dirty, dbFileVers, journalHdr,
                     at, nTxn, setting>>
  BY DEF playback_end, Goto
<1>2. /\ \/ eState[c] = "OPEN" /\ job[c] = "recover" /\ RecoverOK(c) /\ OpenOK(c)
         \/ eState[c] \in Writer /\ job[c] = "rollback" /\ WriterJournalOK(c) /\ RollbackOK(c)
      /\ jrnl \in Journal /\ JournalOK(jrnl) /\ jrnl # None
  BY <1>1, PlaybackState
<1>3. /\ jrnl.orig \in Nat /\ jrnl.counted \in Nat /\ Len(jrnl.recs) \in Nat
      /\ DOMAIN jrnl.recs = 1 .. Len(jrnl.recs) /\ 1 .. jrnl.counted \subseteq DOMAIN jrnl.recs
      /\ InJournal = {jrnl.recs[i].pgno : i \in DOMAIN jrnl.recs}
      /\ \A p \in Page : p > jrnl.orig \/ p <= jrnl.orig
  <2>1. jrnl.orig \in Nat /\ \A p \in Page : p \in Nat
    BY <1>2, JournalRange, PageRange
  <2>2. \A p \in Page : p > jrnl.orig \/ p <= jrnl.orig
    BY <2>1
  <2> QED
    BY <1>2, <2>2, JournalRange DEF InJournal
<1>4. StepOf(c) /\ LocalTypes(c)' /\ pc'[c] = "finalize"
  BY <1>1, HaveTypes DEF StepOf, LocalTypes, TypeOK
<1>5. /\ Committed' = Committed /\ CommittedVers' = CommittedVers
      /\ \A p \in Page : Settled(p) => Settled(p)'
  BY <1>1, PlaybackFiles
<1>6. ASSUME WritesDb(c), NEW p \in Page, db[p] = Committed[p] PROVE Settled(p)'
  BY <1>1, <1>6, SyncFiles
<1>7. ASSUME job[c] = "recover" PROVE RecoverOK(c)' /\ OpenOK(c)'
  <2>1. RecoverOK(c) /\ OpenOK(c) /\ WritesDb(c)
    BY <1>2, <1>7 DEF WritesDb, Writer
  <2>2. ASSUME NEW p \in Page PROVE db[p] = Committed[p]
    <3>1. CASE ~jrnl.magic
      BY <3>1, CommittedHot DEF IsHot
    <3>2. CASE jrnl.magic
      <4>1. Committed = Restored(db, jrnl) /\ at[c] = jrnl.counted + 1 /\ at[c] >= 1
            /\ PlayedBack(c)
        BY <1>1, <1>2, <1>3, <1>7, <2>1, <3>2, CommittedHot DEF IsHot, Records, RecoverOK
      <4>2. CASE p > jrnl.orig
        BY <4>1, <4>2, RestoredOther DEF PlayedBack
      <4>3. CASE \E i \in 1 .. jrnl.counted : jrnl.recs[i].pgno = p
        <5>1. PICK i \in 1 .. jrnl.counted : jrnl.recs[i].pgno = p
          BY <4>3
        <5>2. i \in DOMAIN jrnl.recs /\ i < at[c]
          BY <1>3, <4>1
        <5>3. db[p] = jrnl.recs[i].content
          BY <4>1, <5>1, <5>2 DEF PlayedBack
        <5> QED
          BY <1>2, <4>1, <5>1, <5>3, RestoredRecord
      <4>4. CASE ~(p > jrnl.orig) /\ \A i \in 1 .. jrnl.counted : jrnl.recs[i].pgno # p
        BY <4>1, <4>4, RestoredOther
      <4> QED
        BY <4>2, <4>3, <4>4
    <3> QED
      BY <1>2, <3>1, <3>2, RecordsOf
  <2>3. \A p \in Page : Settled(p)'
    BY <1>6, <2>1, <2>2
  <2>4. RecoverOK(c)'
    BY <1>1, <1>4, <2>1, <2>3 DEF RecoverOK
  <2>5. OpenOK(c)'
    BY <1>1, <1>5, <2>1 DEF OpenOK, Fresh, EmptyCache
  <2> QED
    BY <2>4, <2>5
<1>8. ASSUME job[c] = "rollback" PROVE RollbackOK(c)'
  <2>1. /\ RollbackOK(c) /\ WriterJournalOK(c) /\ eState[c] \in Writer
        /\ at[c] = Len(jrnl.recs) + 1 /\ at[c] >= 1 /\ PlayedBackCache(c)
        /\ \A i \in DOMAIN jrnl.recs : i < at[c]
    BY <1>1, <1>2, <1>3, <1>8 DEF RollbackOK, Records
  <2>2. ASSUME NEW p \in Page PROVE Settled(p)'
    <3>1. CASE eState[c] = "WRITER_CACHEMOD"
      BY <1>5, <2>1, <3>1 DEF WriterJournalOK
    <3>2. CASE eState[c] = "WRITER_DBMOD"
      <4>1. PlayedBack(c) /\ WritesDb(c)
        BY <1>1, <2>1, <3>2 DEF RollbackOK, WritesDb
      <4>2. db[p] = Committed[p]
        <5>1. CASE p > jrnl.orig
          <6>1. ~(p <= jrnl.orig)
            BY <1>3, <5>1, PageRange
          <6> QED
            BY <2>1, <4>1, <5>1, <6>1 DEF PlayedBack, WriterJournalOK, Sized
        <5>2. CASE p \in InJournal
          BY <1>3, <2>1, <4>1, <5>2 DEF PlayedBack, WriterJournalOK
        <5>3. CASE p <= jrnl.orig /\ p \notin InJournal
          BY <2>1, <5>3, Unrecorded
        <5> QED
          BY <1>3, <5>1, <5>2, <5>3
      <4> QED
        BY <1>6, <4>1, <4>2
    <3> QED
      BY <2>1, <3>1, <3>2 DEF Writer
  <2>3. ASSUME NEW p \in Page, p <= jrnl.orig PROVE cache[c][p] \in {None, Committed[p]}
    <3>1. CASE p \in InJournal
      <4>1. PICK i \in DOMAIN jrnl.recs : jrnl.recs[i].pgno = p
        BY <1>3, <3>1
      <4>2. cache[c][p] \in {None, jrnl.recs[i].content} /\ jrnl.recs[i].content = Committed[p]
        BY <2>1, <4>1 DEF PlayedBackCache, WriterJournalOK
      <4> QED
        BY <4>2
    <3>2. CASE p \notin InJournal
      BY <2>1, <2>3, <3>2 DEF PlayedBackCache
    <3> QED
      BY <3>1, <3>2
  <2>4. dbFileVers[c] = CommittedVers
    BY <2>1 DEF PlayedBackCache
  <2> QED
    BY <1>1, <1>4, <1>5, <2>1, <2>2, <2>3, <2>4 DEF RollbackOK
<1> QED
  BY <1>1, <1>4, <1>7, <1>8, PlaybackStep

-----------------------------------------------------------------------------
(* The end of a transaction *)

LEMMA SyncDatabaseKeeps ==
  ASSUME PInv, LockInv', NEW c \in Conn, sync_database(c)
  PROVE  ImageKept
<1> USE DEF PInv, DbInv
<1>1. /\ pc[c] = "pages" /\ dirty[c] = {} /\ DbSync
      /\ eState' = [eState EXCEPT ![c] = "WRITER_FINISHED"]
      /\ pc' = [pc EXCEPT ![c] = "finalize"]
      /\ UNCHANGED <<jrnl, unlinked, lock, job, cache, dirty, dbFileVers, journalHdr, at,
                     nTxn, setting>>
  BY DEF sync_database, SetState, Goto
<1>2. eState[c] = "WRITER_DBMOD" /\ job[c] = "commit"
  BY <1>1 DEF ConnOK, ControlOK, Opening, InPhaseOne, RollsBack
<1>3. WriterJournalOK(c) /\ WriterImageOK(c) /\ jrnl \in Journal /\ JournalOK(jrnl) /\ jrnl # None
  BY <1>1, <1>2 DEF ConnOK, WriterOK, Writer, WriterJournalOK, TypeOK, FilesOK
<1>4. /\ Committed' = Committed /\ CommittedVers' = CommittedVers
      /\ db' \in [Page -> Content] /\ unsynced' \in [Page -> SUBSET Content] /\ db' = db
      /\ \A p \in Page : unsynced'[p] = {}
      /\ \A p \in Page : Settled(p)' \/ Covered(p)'
      /\ \A p \in Page : db[p] = Committed[p] => Settled(p)'
      /\ Absent \notin unsynced'[1] \cup {db'[1]} /\ UnlinkedOK'
  BY <1>1, SyncFiles
<1>5. StepOf(c) /\ LocalTypes(c)' /\ pc'[c] = "finalize" /\ eState'[c] = "WRITER_FINISHED"
  BY <1>1, HaveTypes DEF StepOf, LocalTypes, TypeOK
<1>6. lock[c] = FL!EXCLUSIVE_LOCK /\ lock[c] >= FL!RESERVED_LOCK
  BY <1>2, LevelOfState
<1>7. WriterJournalOK(c)'
  <2>1. \A p \in Page : Settled(p) => Settled(p)'
    BY <1>4 DEF Settled
  <2> QED
    BY <1>1, <1>2, <1>3, <1>4, <1>5, <2>1 DEF WriterJournalOK, Sized
<1>8. WriterImageOK(c)'
  <2>1. View(c)' = View(c)
    BY <1>1, <1>4 DEF View
  <2> QED
    BY <1>1, <1>2, <1>3, <1>4, <1>5, <2>1 DEF WriterImageOK, Sized, InJournal, VersionOf
<1>9. ConnOK(c)'
  BY <1>1, <1>2, <1>5, <1>7, <1>8 DEF ConnOK, ControlOK, WriterOK, Writer
<1>10. HotHere(c)' /\ jrnl'.orig >= 1
  BY <1>1, <1>3, <1>5, <1>6 DEF HotHere, WriterJournalOK
<1>11. jrnl' \in Journal \cup {None} /\ unlinked' \in Journal \cup {None} /\ JournalOK(jrnl')
  BY <1>1, <1>3 DEF TypeOK
<1> QED
  BY <1>1, <1>4, <1>5, <1>6, <1>9, <1>10, <1>11, FileStep

\* The journal is gone: nothing is hot, the file is the committed image, and what
\* a power failure may bring back undoes the whole transaction.
LEMMA JournalGone ==
  ASSUME PInv, jrnl # None, Finalize \/ FinalizeUnsynced, UNCHANGED <<db, unsynced, nTxn>>,
         \A p \in Page : unsynced[p] \cup {db[p]} = {db[p]},
         \A p \in Page : db[p] # Committed[p] =>
           /\ jrnl.syncedMagic
           /\ p > jrnl.orig \/ \E i \in 1 .. jrnl.syncedCount : jrnl.recs[i].pgno = p
  PROVE  /\ jrnl' \in Journal \cup {None} /\ unlinked' \in Journal \cup {None}
         /\ jrnl' # None => JournalOK(jrnl')
         /\ ~IsHot(jrnl') /\ Committed' = db /\ UnlinkedOK' /\ \A p \in Page : Settled(p)'
<1> USE DEF PInv, DbInv
<1>1. ASSUME NEW there \in BOOLEAN
      PROVE  /\ NewJournal(0, there) \in Journal /\ JournalOK(NewJournal(0, there))
             /\ ~NewJournal(0, there).magic /\ NewJournal(0, there).entry = there
  <2>1. 0 \in 0 .. MaxPage
    BY PagerAssumption
  <2> QED
    BY <2>1, NewJournalOK DEF NewJournal
<1>2. /\ jrnl' \in {None, NewJournal(0, TRUE), NewJournal(0, FALSE)}
      /\ unlinked' # None => jrnl' = None \/ ~jrnl'.entry
      /\ unlinked' = None \/ unlinked' = unlinked \/ (unlinked' = jrnl /\ jrnl.entry)
  BY <1>1 DEF Finalize, FinalizeUnsynced, LeftBehind
<1>3. ~IsHot(jrnl')
  BY <1>1, <1>2 DEF IsHot
<1>4. Committed' = db
  BY <1>3 DEF Committed, IsHot
<1>5. \A p \in Page : Settled(p)'
  BY <1>4 DEF Settled
<1>6. UnlinkedOK'
  <2>1. CASE unlinked' = None
    BY <2>1 DEF UnlinkedOK
  <2>2. CASE unlinked' # None /\ unlinked' = unlinked
    <3>1. Restored(db, unlinked)' = Restored(db, unlinked)
      BY <2>2 DEF Restored
    <3>2. jrnl' = None \/ ~jrnl'.entry
      BY <1>2, <2>2
    <3> QED
      BY <1>5, <2>2, <3>1, <3>2 DEF UnlinkedOK, FilesOK, JournalOK, ImageOK, Sized, VersionOf
  <2>3. CASE unlinked' # None /\ unlinked' = jrnl /\ jrnl.entry
    <3>1. JournalOK(unlinked')
      BY <2>3 DEF FilesOK
    <3>2. unlinked'.magic => Restored(db, unlinked)' = Committed /\ ImageOK(Committed)
                             /\ jrnl.orig >= 1
      <4>1. ASSUME jrnl.magic PROVE Restored(db', jrnl) = Committed
        BY <4>1, CommittedHot DEF IsHot
      <4>2. Restored(db, unlinked)' = Restored(db', jrnl)
        BY <2>3 DEF Restored
      <4> QED
        BY <2>3, <4>1, <4>2 DEF FilesOK, HotAlone, IsHot
    <3> QED
      BY <1>2, <1>5, <2>3, <3>1, <3>2 DEF UnlinkedOK, ImageOK, Sized, VersionOf
  <2> QED
    BY <1>2, <2>1, <2>2, <2>3
<1> QED
  BY <1>1, <1>2, <1>3, <1>4, <1>5, <1>6 DEF TypeOK

LEMMA AtFinalize ==
  ASSUME PInv, NEW c \in Conn, pc[c] = "finalize"
  PROVE  /\ \/ eState[c] = "OPEN" /\ job[c] = "recover" /\ RecoverOK(c) /\ OpenOK(c)
            \/ eState[c] \in Writer /\ job[c] = "rollback" /\ WriterJournalOK(c) /\ RollbackOK(c)
            \/ /\ eState[c] = "WRITER_FINISHED" /\ job[c] = "commit"
               /\ WriterJournalOK(c) /\ WriterImageOK(c) /\ lock[c] = FL!EXCLUSIVE_LOCK
         /\ lock[c] >= FL!RESERVED_LOCK
         /\ jrnl # None /\ jrnl \in Journal /\ JournalOK(jrnl)
<1> USE DEF PInv, DbInv
<1>1. ConnOK(c) /\ ControlOK(eState[c], pc[c], job[c])
  BY DEF ConnOK
<1>2. \/ eState[c] = "OPEN" /\ job[c] = "recover"
      \/ eState[c] \in Writer /\ job[c] = "rollback"
      \/ eState[c] = "WRITER_FINISHED" /\ job[c] = "commit"
  BY <1>1 DEF ControlOK, Opening, InPhaseOne, RollsBack
<1>3. \/ eState[c] = "OPEN" /\ job[c] = "recover" /\ RecoverOK(c) /\ OpenOK(c)
      \/ eState[c] \in Writer /\ job[c] = "rollback" /\ WriterJournalOK(c) /\ RollbackOK(c)
      \/ eState[c] = "WRITER_FINISHED" /\ job[c] = "commit" /\ WriterJournalOK(c) /\ WriterImageOK(c)
  BY <1>1, <1>2 DEF ConnOK, WriterOK, Writer
<1>4. jrnl # None
  BY <1>3 DEF RecoverOK, WriterJournalOK
<1>5. lock[c] >= FL!RESERVED_LOCK /\ (eState[c] = "WRITER_FINISHED" => lock[c] = FL!EXCLUSIVE_LOCK)
  BY <1>2, LevelOfState
<1> QED
  BY <1>3, <1>4, <1>5 DEF TypeOK, FilesOK

LEMMA FinalizeState ==
  ASSUME PInv, NEW c \in Conn, finalize_journal(c)
  PROVE  /\ \/ eState[c] = "OPEN" /\ job[c] = "recover" /\ RecoverOK(c) /\ OpenOK(c)
            \/ eState[c] \in Writer /\ job[c] = "rollback" /\ WriterJournalOK(c) /\ RollbackOK(c)
            \/ /\ eState[c] = "WRITER_FINISHED" /\ job[c] = "commit"
               /\ WriterJournalOK(c) /\ WriterImageOK(c) /\ lock[c] = FL!EXCLUSIVE_LOCK
         /\ lock[c] >= FL!RESERVED_LOCK
         /\ pc[c] = "finalize" /\ jrnl # None /\ jrnl \in Journal /\ JournalOK(jrnl) /\ Finalize
         /\ pc' = [pc EXCEPT ![c] = "unlock"] /\ dirty' = [dirty EXCEPT ![c] = {}]
         /\ cache' = [cache EXCEPT ![c] = cache'[c]]
         /\ UNCHANGED <<db, unsynced, lock, eState, job, dbFileVers, journalHdr, at, nTxn, setting>>
         /\ job[c] # "rollback" => cache'[c] = cache[c]
         /\ job[c] = "rollback" => cache'[c] =
              [p \in Page |-> IF p <= jrnl.orig THEN cache[c][p]
                              ELSE IF p = 1 /\ cache[c][1] # None THEN Absent ELSE None]
<1> USE DEF PInv, DbInv
<1>1. pc[c] = "finalize" /\ Finalize
  BY DEF finalize_journal
<1>2. /\ cache' = [cache EXCEPT ![c] = cache'[c]]
      /\ job[c] # "rollback" => cache'[c] = cache[c]
      /\ job[c] = "rollback" => cache'[c] =
              [p \in Page |-> IF p <= jrnl.orig THEN cache[c][p]
                              ELSE IF p = 1 /\ cache[c][1] # None THEN Absent ELSE None]
  BY DEF finalize_journal, CacheTruncate, TypeOK
<1>3. /\ pc' = [pc EXCEPT ![c] = "unlock"] /\ dirty' = [dirty EXCEPT ![c] = {}]
      /\ UNCHANGED <<db, unsynced, lock, eState, job, dbFileVers, journalHdr, at, nTxn, setting>>
  BY DEF finalize_journal, Goto
<1> QED
  BY <1>1, <1>2, <1>3, AtFinalize

\* A playback is over: the committed image is the one it was.
LEMMA RolledBackKeeps ==
  ASSUME PInv, LockInv', NEW c \in Conn, finalize_journal(c), job[c] # "commit"
  PROVE  ImageKept
<1> USE DEF PInv, DbInv
<1>1. /\ \/ eState[c] = "OPEN" /\ job[c] = "recover" /\ RecoverOK(c) /\ OpenOK(c)
         \/ eState[c] \in Writer /\ job[c] = "rollback" /\ WriterJournalOK(c) /\ RollbackOK(c)
      /\ lock[c] >= FL!RESERVED_LOCK
      /\ pc[c] = "finalize" /\ jrnl # None /\ jrnl \in Journal /\ JournalOK(jrnl) /\ Finalize
      /\ pc' = [pc EXCEPT ![c] = "unlock"] /\ dirty' = [dirty EXCEPT ![c] = {}]
      /\ cache' = [cache EXCEPT ![c] = cache'[c]]
      /\ UNCHANGED <<db, unsynced, lock, eState, job, dbFileVers, journalHdr, at, nTxn, setting>>
      /\ job[c] # "rollback" => cache'[c] = cache[c]
      /\ job[c] = "rollback" => cache'[c] =
           [p \in Page |-> IF p <= jrnl.orig THEN cache[c][p]
                           ELSE IF p = 1 /\ cache[c][1] # None THEN Absent ELSE None]
  BY FinalizeState
<1>2. \A p \in Page : Settled(p)
  BY <1>1 DEF RecoverOK, RollbackOK
<1>3. \A p \in Page : db[p] = Committed[p] /\ unsynced[p] \cup {db[p]} = {db[p]}
  BY <1>2 DEF Settled
<1>4. db = Committed /\ Absent \notin unsynced[1] \cup {db[1]}
  BY <1>3, CommittedFacts DEF TypeOK, FilesOK
<1>5. /\ jrnl' \in Journal \cup {None} /\ unlinked' \in Journal \cup {None}
      /\ jrnl' # None => JournalOK(jrnl')
      /\ ~IsHot(jrnl') /\ Committed' = db /\ UnlinkedOK' /\ \A p \in Page : Settled(p)'
  BY <1>1, <1>3, JournalGone
<1>6. CommittedVers' = CommittedVers
  BY <1>4, <1>5 DEF CommittedVers, VersionOf
<1>7. /\ pc'[c] = "unlock" /\ dirty'[c] = {} /\ eState'[c] = eState[c] /\ job'[c] = job[c]
      /\ dbFileVers'[c] = dbFileVers[c]
  BY <1>1 DEF TypeOK
<1>8. StepOf(c) /\ LocalTypes(c)'
  <2>1. StepOf(c)
    BY <1>1 DEF StepOf, TypeOK
  <2>2. LocalTypes(c) /\ Absent \in Content
    BY HaveTypes, NoneIsNoContent
  <2>3. cache'[c] \in [Page -> Content \cup {None}]
    BY <1>1, <2>2 DEF LocalTypes
  <2> QED
    BY <1>1, <1>7, <2>1, <2>2, <2>3 DEF LocalTypes
<1>9. /\ db' \in [Page -> Content] /\ unsynced' \in [Page -> SUBSET Content]
      /\ Committed' = Committed /\ Absent \notin unsynced'[1] \cup {db'[1]}
      /\ UNCHANGED <<nTxn, setting>>
  BY <1>1, <1>4, <1>5 DEF TypeOK
<1>10. CASE job[c] = "recover"
  <2>1. OpenOK(c)'
    BY <1>1, <1>4, <1>5, <1>6, <1>10 DEF OpenOK, Fresh, EmptyCache, Writer
  <2>2. ConnOK(c)'
    BY <1>1, <1>7, <1>10, <2>1 DEF ConnOK, ControlOK, RecoverOK, Writer
  <2> QED
    BY <1>1, <1>9, <1>5, <1>8, <2>2, FileStep
<1>11. CASE job[c] = "rollback"
  <2>1. /\ eState[c] \in Writer /\ jrnl.orig >= 1 /\ cache[c][1] # None
        /\ \A p \in Page : p <= jrnl.orig => cache[c][p] \in {None, Committed[p]}
        /\ dbFileVers[c] = CommittedVers
    BY <1>1, <1>11 DEF WriterJournalOK, RollbackOK
  <2>2. 1 \in Page /\ 1 <= jrnl.orig /\ jrnl.orig \in Nat
    BY <1>1, <2>1, CommittedFacts, RecordsOf
  <2>3. ASSUME NEW p \in Page PROVE cache'[c][p] \in {None, Committed[p]}
    BY <1>1, <1>11, <2>1, <2>2
  <2>4. cache'[c][1] = cache[c][1]
    BY <1>1, <1>11, <2>2
  <2>5. Knows(c)'
    BY <1>4, <1>5, <1>6, <1>7, <2>1, <2>3, <2>4 DEF Knows, Fresh
  <2>6. ConnOK(c)'
    BY <1>7, <1>11, <2>1, <2>5 DEF ConnOK, ControlOK, RollsBack, WriterOK, Writer
  <2> QED
    BY <1>1, <1>9, <1>5, <1>8, <2>6, FileStep
<1> QED
  BY <1>1, <1>10, <1>11

\* The commit point: the file is the committed image from now on, for all the others.
LEMMA CommitPointFiles ==
  ASSUME PInv, LockInv', NEW c \in Conn, pc[c] = "finalize", job[c] = "commit",
         Finalize \/ FinalizeUnsynced, UNCHANGED <<db, unsynced, lock, nTxn, setting>>,
         StepOf(c), LocalTypes(c)'
  PROVE  /\ Committed' = db /\ CommittedVers' = VersionOf(db[1])
         /\ ConnOK(c)' => DbInv'
<1> USE DEF PInv, DbInv
<1>1. /\ eState[c] = "WRITER_FINISHED" /\ WriterJournalOK(c) /\ WriterImageOK(c)
      /\ lock[c] = FL!EXCLUSIVE_LOCK
      /\ jrnl # None /\ jrnl \in Journal /\ JournalOK(jrnl)
  BY AtFinalize DEF Writer
<1>2. /\ dirty[c] = {} /\ \A p \in Page : unsynced[p] = {}
      /\ \A p \in Page : cache[c][p] \in {None, db[p]}
      /\ cache[c][1] # None /\ dbFileVers[c] = VersionOf(db[1])
      /\ VersionOf(cache[c][1])[1] = CommittedVers[1] + 1
  BY <1>1 DEF WriterImageOK
<1>3. /\ \A p \in Page : unsynced[p] \cup {db[p]} = {db[p]}
      /\ \A p \in Page : db[p] # Committed[p] => ~Settled(p)
  BY <1>2 DEF Settled
<1>4. ASSUME NEW p \in Page, db[p] # Committed[p]
      PROVE  /\ jrnl.syncedMagic
             /\ p > jrnl.orig \/ \E i \in 1 .. jrnl.syncedCount : jrnl.recs[i].pgno = p
  <2>1. /\ jrnl.syncedMagic /\ journalHdr[c] <= jrnl.syncedCount
        /\ p > jrnl.orig \/ \E i \in 1 .. journalHdr[c] : jrnl.recs[i].pgno = p
    BY <1>1, <1>3, <1>4 DEF WriterJournalOK
  <2>2. jrnl.syncedCount \in Nat /\ journalHdr[c] \in Nat
    BY <1>1, RecordsOf DEF TypeOK
  <2> QED
    BY <2>1, <2>2
<1>5. /\ jrnl' \in Journal \cup {None} /\ unlinked' \in Journal \cup {None}
      /\ jrnl' # None => JournalOK(jrnl')
      /\ ~IsHot(jrnl') /\ Committed' = db /\ UnlinkedOK' /\ \A p \in Page : Settled(p)'
  BY <1>1, <1>3, <1>4, JournalGone
<1>6. 1 \in Page /\ CommittedVers[1] \in Nat /\ nTxn \in Nat /\ MaxPage \in Nat
  BY CommittedFacts, PagerAssumption DEF TypeOK
<1>7. cache[c][1] = db[1]
  BY <1>2, <1>6
<1>8. CommittedVers' = VersionOf(db[1]) /\ CommittedVers'[1] = CommittedVers[1] + 1
  BY <1>2, <1>5, <1>7 DEF CommittedVers, VersionOf
<1>9. ImageOK(Committed)'
  <2>1. PICK n \in jrnl.orig .. MaxPage : Sized(View(c), n)
    BY <1>1 DEF WriterImageOK
  <2>2. n \in 1 .. MaxPage
    BY <1>1, <1>6, RecordsOf DEF WriterJournalOK
  <2>3. \A p \in Page : View(c)[p] = db[p]
    BY <1>2 DEF View
  <2>4. Sized(db, n)
    BY <2>1, <2>3 DEF Sized
  <2>5. VersionOf(db[1])[1] <= nTxn + 1
    BY <1>1, <1>2, <1>6, <1>7 DEF WriterJournalOK
  <2> QED
    BY <1>1, <1>5, <2>2, <2>4, <2>5 DEF ImageOK, Sized, VersionOf
<1>10. TypeOK' /\ \A d \in Conn \ {c} : Untouched(d)
  <2>1. FileTypes'
    BY <1>1, <1>5, HaveTypes DEF FileTypes
  <2> QED
    BY <2>1, StepTypes
<1>11. ASSUME NEW d \in Conn \ {c} PROVE ConnOK(d)'
  <2>1. eState[d] \in {"OPEN", "ERROR"} /\ pc[d] = "idle"
    BY <1>1, Alone
  <2>2. /\ ConnOK(d) /\ Untouched(d) /\ job[d] = "none"
        /\ ControlOK(eState[d], pc[d], job[d])' /\ (eState[d] = "OPEN" => dirty[d] = {})
    BY <1>10, <2>1 DEF ConnOK, ControlOK, Untouched, Opening, InPhaseOne, RollsBack, Writer
  <2>3. eState[d] = "OPEN" => OpenOK(d)'
    <3>1. SUFFICES ASSUME OpenOK(d), cache[d] # EmptyCache PROVE OpenOK(d)'
      BY <2>2 DEF ConnOK, OpenOK, Untouched, EmptyCache
    <3>2. dbFileVers[d][1] \in Nat /\ dbFileVers[d][1] <= CommittedVers[1]
      BY <3>1, PagerAssumption DEF OpenOK, TypeOK, Version
    <3>3. dbFileVers[d][1] <= CommittedVers'[1] /\ dbFileVers[d] # CommittedVers'
      BY <1>6, <1>8, <3>2
    <3> QED
      BY <2>2, <3>1, <3>3 DEF OpenOK, Untouched
  <2> QED
    BY <2>1, <2>2, <2>3 DEF ConnOK, Untouched, Writer
<1>12. OriginalsAreSafe' /\ HotAlone' /\ Absent \notin unsynced'[1] \cup {db'[1]}
  BY <1>1, <1>5, SafeThen DEF HotAlone, FilesOK
<1> QED
  BY <1>5, <1>8, <1>9, <1>10, <1>11, <1>12 DEF FilesOK

LEMMA CommitPointKeeps ==
  ASSUME PInv, LockInv', NEW c \in Conn, finalize_journal(c), job[c] = "commit"
  PROVE  DbInv'
<1> USE DEF PInv, DbInv
<1>1. /\ WriterImageOK(c) /\ pc[c] = "finalize" /\ Finalize
      /\ pc' = [pc EXCEPT ![c] = "unlock"] /\ dirty' = [dirty EXCEPT ![c] = {}]
      /\ cache' = [cache EXCEPT ![c] = cache'[c]] /\ cache'[c] = cache[c]
      /\ UNCHANGED <<db, unsynced, lock, eState, job, dbFileVers, journalHdr, at, nTxn, setting>>
      /\ eState[c] = "WRITER_FINISHED"
  BY FinalizeState DEF Writer
<1>2. /\ dirty[c] = {} /\ cache[c][1] # None /\ dbFileVers[c] = VersionOf(db[1])
      /\ \A p \in Page : cache[c][p] \in {None, db[p]}
  BY <1>1 DEF WriterImageOK
<1>3. /\ pc'[c] = "unlock" /\ dirty'[c] = {} /\ eState'[c] = "WRITER_FINISHED"
      /\ job'[c] = "commit" /\ dbFileVers'[c] = dbFileVers[c]
  BY <1>1 DEF TypeOK
<1>4. StepOf(c) /\ LocalTypes(c)'
  BY <1>1, <1>3, HaveTypes DEF StepOf, LocalTypes, TypeOK
<1>5. Committed' = db /\ CommittedVers' = VersionOf(db[1]) /\ (ConnOK(c)' => DbInv')
  BY <1>1, <1>4, CommitPointFiles
<1>6. Knows(c)'
  BY <1>1, <1>2, <1>3, <1>5 DEF Knows, Fresh
<1>7. ConnOK(c)'
  BY <1>3, <1>6 DEF ConnOK, ControlOK, WriterOK, Writer
<1> QED
  BY <1>5, <1>7

\* The journal could not be finalized: the connection gives the transaction up.
LEMMA FinalizeFailsState ==
  ASSUME PInv, LockInv', NEW c \in Conn, finalize_fails(c)
  PROVE  /\ pc[c] = "finalize" /\ pc'[c] = "unlock" /\ eState'[c] = "ERROR" /\ job'[c] = "none"
         /\ UNCHANGED <<db, unsynced, lock, cache, dirty, dbFileVers, journalHdr, nTxn, setting>>
         /\ FinalizeUnsynced \/ UNCHANGED <<jrnl, unlinked>>
         /\ StepOf(c) /\ LocalTypes(c)' /\ ConnOK(c)'
<1> USE DEF PInv, DbInv
<1>1. /\ pc[c] = "finalize" /\ (FinalizeUnsynced \/ UNCHANGED <<jrnl, unlinked>>)
      /\ eState' = [eState EXCEPT ![c] = "ERROR"] /\ pc' = [pc EXCEPT ![c] = "unlock"]
      /\ job' = [job EXCEPT ![c] = "none"] /\ at' = [at EXCEPT ![c] = 0]
      /\ UNCHANGED <<db, unsynced, lock, cache, dirty, dbFileVers, journalHdr, nTxn, setting>>
  BY DEF finalize_fails, SetState, Goto
<1>2. pc'[c] = "unlock" /\ eState'[c] = "ERROR" /\ job'[c] = "none"
  BY <1>1 DEF TypeOK
<1>3. StepOf(c) /\ LocalTypes(c)'
  BY <1>1, HaveTypes DEF StepOf, LocalTypes, TypeOK, Jobs
<1>4. ConnOK(c)'
  BY <1>2 DEF ConnOK, ControlOK, Writer
<1> QED
  BY <1>1, <1>2, <1>3, <1>4

CommitPointFails(c) == finalize_fails(c) /\ FinalizeUnsynced /\ job[c] = "commit"

LEMMA CommitPointFailsKeeps ==
  ASSUME PInv, LockInv', NEW c \in Conn, CommitPointFails(c)
  PROVE  DbInv'
BY FinalizeFailsState, CommitPointFiles DEF CommitPointFails

\* The journal is as it was, or a playback is over: the committed image is the same.
LEMMA FinalizeFailsKeeps ==
  ASSUME PInv, LockInv', NEW c \in Conn, finalize_fails(c), ~CommitPointFails(c)
  PROVE  ImageKept
<1> USE DEF PInv, DbInv
<1>1. /\ pc[c] = "finalize" /\ pc'[c] = "unlock" /\ eState'[c] = "ERROR"
      /\ UNCHANGED <<db, unsynced, lock, nTxn, setting>>
      /\ FinalizeUnsynced \/ UNCHANGED <<jrnl, unlinked>>
      /\ StepOf(c) /\ LocalTypes(c)' /\ ConnOK(c)'
  BY FinalizeFailsState
<1>2. CASE UNCHANGED <<jrnl, unlinked>>
  <2>1. IsHot(jrnl) => HotHere(c)'
    BY <1>1 DEF FilesOK, HotAlone, HotHere
  <2> QED
    BY <1>1, <1>2, <2>1, Quiet DEF files
<1>3. CASE FinalizeUnsynced /\ job[c] # "commit"
  <2>1. /\ \A p \in Page : Settled(p)
        /\ lock[c] >= FL!RESERVED_LOCK /\ jrnl # None
    BY <1>1, <1>3, AtFinalize DEF RecoverOK, RollbackOK
  <2>2. \A p \in Page : db[p] = Committed[p] /\ unsynced[p] \cup {db[p]} = {db[p]}
    BY <2>1 DEF Settled
  <2>3. db = Committed /\ Absent \notin unsynced[1] \cup {db[1]}
    BY <2>2, CommittedFacts DEF TypeOK, FilesOK
  <2>4. /\ jrnl' \in Journal \cup {None} /\ unlinked' \in Journal \cup {None}
        /\ jrnl' # None => JournalOK(jrnl')
        /\ ~IsHot(jrnl') /\ Committed' = db /\ UnlinkedOK' /\ \A p \in Page : Settled(p)'
    BY <1>1, <1>3, <2>1, <2>2, JournalGone
  <2>5. db' \in [Page -> Content] /\ unsynced' \in [Page -> SUBSET Content]
    BY <1>1 DEF TypeOK
  <2> QED
    BY <1>1, <2>1, <2>3, <2>4, <2>5, FileStep
<1> QED
  BY <1>1, <1>2, <1>3 DEF CommitPointFails

-----------------------------------------------------------------------------
(* A power failure *)

\* A journal of which the first records survive.
Whole(j, magic, count) ==
  [NewJournal(j.orig, TRUE) EXCEPT
     !.magic = magic, !.syncedMagic = magic,
     !.counted = count, !.syncedCount = count, !.synced = count,
     !.recs = SubSeq(j.recs, 1, count)]

LEMMA WholeFacts ==
  ASSUME NEW j \in Journal, JournalOK(j), NEW magic \in BOOLEAN, NEW count \in 0 .. j.counted,
         ~magic => count = 0
  PROVE  LET k == Whole(j, magic, count)
         IN  /\ k \in Journal /\ JournalOK(k) /\ k # None
             /\ k.magic = magic /\ k.syncedMagic = magic /\ k.entry /\ k.orig = j.orig
             /\ k.counted = count /\ k.syncedCount = count
             /\ \A i \in 1 .. count : k.recs[i] = j.recs[i]
<1> DEFINE k == Whole(j, magic, count)
           R == [pgno : Page, content : Content]
           s == SubSeq(j.recs, 1, count)
<1>1. j.recs \in Seq(R) /\ j.orig \in 0 .. MaxPage /\ Len(j.recs) \in Nat /\ j.counted \in Nat
      /\ DOMAIN j.recs = 1 .. Len(j.recs) /\ count \in Nat /\ count <= Len(j.recs)
  <2>1. j.orig \in 0 .. MaxPage
    BY DEF Journal
  <2>2. j.recs \in Seq(R) /\ DOMAIN j.recs = 1 .. Len(j.recs)
    BY RecordsOf
  <2>3. Len(j.recs) \in Nat /\ j.counted \in Nat /\ j.counted <= Len(j.recs)
    BY JournalRange
  <2>4. count \in Nat /\ count <= Len(j.recs)
    BY <2>3
  <2> QED
    BY <2>1, <2>2, <2>3, <2>4
<1>2. s \in Seq(R) /\ Len(s) = count /\ DOMAIN s = 1 .. count
      /\ \A i \in 1 .. count : s[i] = j.recs[i]
  <2> HIDE DEF R
  <2>1. 1 \in 1 .. Len(j.recs) + 1 /\ count \in 1 - 1 .. Len(j.recs)
    BY <1>1
  <2>2. s \in Seq(R) /\ Len(s) = (IF 1 <= count THEN count - 1 + 1 ELSE 0)
        /\ \A i \in 1 .. count - 1 + 1 : s[i] = j.recs[1 + i - 1]
    BY <1>1, <2>1, SubSeqProperties
  <2>3. Len(s) = count
    BY <1>1, <2>2
  <2>4. DOMAIN s = 1 .. count
    BY <2>2, <2>3, LenProperties
  <2>5. ASSUME NEW i \in 1 .. count PROVE s[i] = j.recs[i]
    BY <1>1, <2>2
  <2> QED
    BY <2>2, <2>3, <2>4, <2>5
<1> HIDE DEF s
<1>3. /\ k.magic = magic /\ k.syncedMagic = magic /\ k.entry = TRUE /\ k.orig = j.orig
      /\ k.counted = count /\ k.syncedCount = count /\ k.synced = count /\ k.recs = s
  BY DEF Whole, NewJournal, s
<1>4. k \in Journal
  BY <1>1, <1>2 DEF Whole, NewJournal, Journal, s
<1> HIDE DEF k
<1>5. JournalOK(k)
  <2>1. \A i \in 1 .. count : i \in DOMAIN j.recs
    BY <1>1
  <2> QED
    BY <1>1, <1>2, <1>3, <2>1 DEF JournalOK
<1>6. k # None
  BY <1>4, RecordsOf
<1> QED
  BY <1>2, <1>3, <1>4, <1>5, <1>6 DEF k

\* What is not settled may come back; what is settled stays.
LEMMA LossOfPages ==
  ASSUME TypeOK, FilesOK, PowerLoss
  PROVE  /\ db' \in [Page -> Content] /\ unsynced' = [p \in Page |-> {}]
         /\ \A p \in Page : Settled(p) => db'[p] = Committed[p]
         /\ Absent \notin unsynced'[1] \cup {db'[1]}
<1>1. /\ unsynced' = [p \in Page |-> {}] /\ \A p \in Page : db'[p] \in Remains(p)
      /\ db' \in [Page -> UNION {Remains(p) : p \in Page}]
  BY DEF PowerLoss
<1>2. \A p \in Page : Remains(p) \subseteq unsynced[p] \cup {db[p], Torn}
  BY DEF Remains
<1>3. \A p \in Page : unsynced[p] \subseteq Content /\ db[p] \in Content
  BY DEF TypeOK
<1>4. \A p \in Page : db'[p] \in Content
  BY <1>1, <1>2, <1>3, NoneIsNoContent
<1>5. ASSUME NEW p \in Page, Settled(p) PROVE db'[p] = Committed[p]
  BY <1>1, <1>5 DEF Settled, Remains
<1>6. db'[1] # Absent /\ 1 \in Page
  BY <1>1, <1>2, CommittedFacts, PagerAssumption DEF FilesOK
<1> QED
  BY <1>1, <1>4, <1>5, <1>6

\* Without a record that counts on the disk the file is what the commit made of it.
LEMMA NothingToUndo ==
  ASSUME TypeOK, FilesOK, PowerLoss, ~(IsHot(jrnl) /\ jrnl.syncedMagic /\ jrnl.entry)
  PROVE  db = Committed /\ db' = Committed
<1>1. \A p \in Page : Settled(p)
  BY SafeNow DEF Covered
<1>2. \A p \in Page : db[p] = Committed[p] /\ db'[p] = Committed[p]
  BY <1>1, LossOfPages DEF Settled
<1>3. db' \in [Page -> Content] /\ db \in [Page -> Content] /\ Committed \in [Page -> Content]
  BY LossOfPages, CommittedFacts DEF TypeOK
<1> QED
  BY <1>2, <1>3

\* The files after a power failure, with the committed image, or the one before it.
FilesAfter ==
  /\ jrnl' \in Journal \cup {None} /\ (jrnl' # None => JournalOK(jrnl'))
  /\ ImageOK(Committed)' /\ (IsHot(jrnl') => jrnl'.orig >= 1)
  /\ \A p \in Page : Settled(p)' \/ Covered(p)'
  /\ Committed' \in {Committed, Previous}

LEMMA JournalNotThere ==
  ASSUME TypeOK, FilesOK, PowerLoss, jrnl = None \/ ~jrnl.entry, jrnl' \in {None, unlinked}
  PROVE  FilesAfter
<1>1. db = Committed /\ db' = db /\ nTxn' = nTxn /\ unsynced' = [p \in Page |-> {}]
  BY NothingToUndo DEF IsHot, PowerLoss
<1>2. CASE ~IsHot(jrnl')
  <2>1. Committed' = Committed
    BY <1>1, <1>2 DEF Committed, IsHot
  <2>2. ImageOK(Committed)' /\ \A p \in Page : Settled(p)'
    BY <1>1, <2>1 DEF FilesOK, ImageOK, Sized, VersionOf, Settled
  <2>3. jrnl' \in Journal \cup {None} /\ (jrnl' # None => JournalOK(jrnl'))
    BY DEF TypeOK, FilesOK, UnlinkedOK
  <2> QED
    BY <1>2, <2>1, <2>2, <2>3 DEF FilesAfter
<1>3. CASE IsHot(jrnl')
  <2>1. /\ jrnl' = unlinked /\ unlinked \in Journal /\ JournalOK(unlinked) /\ unlinked.entry
        /\ unlinked.magic /\ ImageOK(Restored(db, unlinked)) /\ unlinked.orig >= 1
        /\ \A p \in Page : db[p] # Restored(db, unlinked)[p] =>
              /\ unlinked.syncedMagic
              /\ p > unlinked.orig \/ \E i \in 1 .. unlinked.syncedCount :
                                        unlinked.recs[i].pgno = p
    BY <1>3 DEF IsHot, TypeOK, FilesOK, UnlinkedOK
  <2>2. Committed' = Restored(db, unlinked)
    BY <1>1, <1>3, <2>1 DEF Committed, IsHot, Restored
  <2>3. ImageOK(Committed)'
    BY <1>1, <2>1, <2>2 DEF ImageOK, Sized, VersionOf
  <2>4. ASSUME NEW p \in Page PROVE Settled(p)' \/ Covered(p)'
    <3>1. CASE db[p] = Committed'[p]
      BY <1>1, <3>1 DEF Settled
    <3>2. CASE db[p] # Committed'[p] /\ p > unlinked.orig
      BY <1>3, <2>1, <2>2, <3>2 DEF Covered
    <3>3. CASE db[p] # Committed'[p] /\ ~(p > unlinked.orig)
      <4>1. PICK i \in 1 .. unlinked.syncedCount : unlinked.recs[i].pgno = p
        BY <2>1, <2>2, <3>3
      <4>2. i \in 1 .. unlinked.counted /\ i \in DOMAIN unlinked.recs
        BY <2>1, RecordsOf DEF JournalOK
      <4>3. unlinked.recs[i] = [pgno |-> p, content |-> Committed'[p]]
        BY <2>1, <2>2, <4>1, <4>2, RestoredRecord, RecordsOf
      <4> QED
        BY <1>3, <2>1, <2>2, <3>3, <4>1, <4>3 DEF Covered
    <3> QED
      BY <3>1, <3>2, <3>3
  <2>5. Committed' = Previous
    BY <1>3, <2>1, <2>2 DEF Previous, IsHot
  <2> QED
    BY <2>1, <2>3, <2>4, <2>5 DEF FilesAfter
<1> QED
  BY <1>2, <1>3

\* Survivors() by name: the journal that survives has a first part of the records.
LEMMA SurvivorsAre ==
  ASSUME NEW j \in Journal, JournalOK(j), NEW k \in Survivors(j), k # None \/ j.entry
  PROVE  \E magic \in BOOLEAN, count \in 0 .. j.counted :
           /\ k = Whole(j, magic, count) /\ (~magic => count = 0) /\ j.syncedCount <= count
           /\ (j.syncedMagic => magic) /\ (magic => j.magic)
<1>1. /\ j.synced \in Nat /\ j.counted \in Nat /\ j.syncedCount \in Nat
      /\ j.magic \in BOOLEAN /\ j.syncedMagic \in BOOLEAN
  BY RecordsOf
<1>2. /\ j.syncedCount <= j.synced /\ j.syncedCount <= j.counted
      /\ (j.syncedMagic => j.magic) /\ (~j.magic => j.counted = 0)
      /\ (~j.syncedMagic => j.syncedCount = 0)
  BY DEF JournalOK
<1>3. /\ Min({j.synced, j.counted}) \in Nat /\ j.syncedCount <= Min({j.synced, j.counted})
  <2>1. CASE j.synced <= j.counted
    BY <1>1, <1>2, <2>1, MinOfTwo
  <2>2. CASE j.counted <= j.synced
    <3>1. {j.synced, j.counted} = {j.counted, j.synced}
      OBVIOUS
    <3> QED
      BY <1>1, <1>2, <2>2, <3>1, MinOfTwo
  <2> QED
    BY <1>1, <2>1, <2>2
<1>4. \/ k = Whole(j, j.syncedMagic, j.syncedCount)
      \/ \E n \in Min({j.synced, j.counted}) .. j.counted : k = Whole(j, j.magic, n)
  BY DEF Survivors, Whole
<1>5. CASE k = Whole(j, j.syncedMagic, j.syncedCount)
  <2>1. j.syncedCount \in 0 .. j.counted
    BY <1>1, <1>2
  <2> QED
    BY <1>1, <1>2, <1>5, <2>1
<1>6. ASSUME NEW n \in Min({j.synced, j.counted}) .. j.counted, k = Whole(j, j.magic, n)
      PROVE  \E magic \in BOOLEAN, count \in 0 .. j.counted :
               /\ k = Whole(j, magic, count) /\ (~magic => count = 0) /\ j.syncedCount <= count
               /\ (j.syncedMagic => magic) /\ (magic => j.magic)
  <2>1. n \in 0 .. j.counted /\ j.syncedCount <= n /\ (~j.magic => n = 0)
    BY <1>1, <1>2, <1>3
  <2> QED
    BY <1>1, <1>2, <1>6, <2>1
<1> QED
  BY <1>4, <1>5, <1>6

LEMMA JournalSurvives ==
  ASSUME TypeOK, FilesOK, PowerLoss, jrnl # None, jrnl' \in Survivors(jrnl), jrnl' # None
  PROVE  FilesAfter
<1>1. jrnl \in Journal /\ JournalOK(jrnl) /\ nTxn' = nTxn
  BY DEF TypeOK, FilesOK, PowerLoss
<1>2. PICK magic \in BOOLEAN, count \in 0 .. jrnl.counted :
        /\ jrnl' = Whole(jrnl, magic, count) /\ (~magic => count = 0) /\ jrnl.syncedCount <= count
        /\ (jrnl.syncedMagic => magic) /\ (magic => jrnl.magic)
  BY <1>1, SurvivorsAre
<1>3. /\ jrnl' \in Journal /\ JournalOK(jrnl')
      /\ jrnl'.magic = magic /\ jrnl'.syncedMagic = magic /\ jrnl'.entry /\ jrnl'.orig = jrnl.orig
      /\ jrnl'.counted = count /\ jrnl'.syncedCount = count
      /\ \A i \in 1 .. count : jrnl'.recs[i] = jrnl.recs[i]
  BY <1>1, <1>2, WholeFacts
<1>4. /\ jrnl.counted \in Nat /\ jrnl.syncedCount \in Nat /\ count \in Nat
      /\ 1 .. jrnl.syncedCount \subseteq 1 .. count /\ 1 .. count \subseteq 1 .. jrnl.counted
  <2>1. jrnl.counted \in Nat /\ jrnl.syncedCount \in Nat
    BY <1>1, RecordsOf
  <2> QED
    BY <1>2, <2>1
<1>5. /\ db' \in [Page -> Content] /\ unsynced' = [p \in Page |-> {}]
      /\ \A p \in Page : Settled(p) => db'[p] = Committed[p]
  BY LossOfPages
<1>6. Committed' = Committed
  <2>1. CASE magic
    <3>1. Committed' = Restored(db', jrnl') /\ Committed = Restored(db, jrnl)
      BY <1>2, <1>3, <2>1 DEF Committed, IsHot, Restored
    <3>2. ASSUME NEW p \in Page PROVE Restored(db', jrnl')[p] = Restored(db, jrnl)[p]
      <4>1. CASE p > jrnl.orig
        BY <1>3, <4>1, RestoredOther
      <4>2. CASE ~(p > jrnl.orig) /\ \E i \in 1 .. count : jrnl.recs[i].pgno = p
        <5>1. PICK i \in 1 .. count : jrnl.recs[i].pgno = p
          BY <4>2
        <5>2. Restored(db, jrnl)[p] = jrnl.recs[i].content
          BY <1>1, <1>4, <5>1, RestoredRecord
        <5>3. i \in 1 .. jrnl'.counted /\ jrnl'.recs[i] = jrnl.recs[i]
          BY <1>3
        <5>4. Restored(db', jrnl')[jrnl'.recs[i].pgno] = jrnl'.recs[i].content
          BY <1>3, <5>3, RestoredRecord
        <5> QED
          BY <5>1, <5>2, <5>3, <5>4
      <4>3. CASE ~(p > jrnl.orig) /\ \A i \in 1 .. count : jrnl.recs[i].pgno # p
        <5>1. Settled(p)
          <6>1. \A i \in 1 .. jrnl.syncedCount : jrnl.recs[i].pgno # p
            BY <1>4, <4>3
          <6>2. ~Covered(p)
            BY <4>3, <6>1 DEF Covered
          <6> QED
            BY <6>2, SafeNow
        <5>2. \A i \in 1 .. jrnl'.counted : jrnl'.recs[i].pgno # p
          BY <1>3, <4>3
        <5> QED
          BY <1>3, <1>5, <3>1, <4>3, <5>1, <5>2, RestoredOther
      <4> QED
        BY <4>1, <4>2, <4>3
    <3> QED
      BY <3>1, <3>2, RestoredIsFunction
  <2>2. CASE ~magic
    <3>1. db' = Committed
      BY <1>2, <2>2, NothingToUndo
    <3> QED
      BY <1>3, <2>2, <3>1 DEF Committed, IsHot
  <2> QED
    BY <2>1, <2>2
<1>7. ASSUME NEW p \in Page PROVE Settled(p)' \/ Covered(p)'
  <2>1. CASE Settled(p)
    BY <1>5, <1>6, <2>1 DEF Settled
  <2>2. CASE Covered(p)
    <3>1. magic /\ \A i \in 1 .. jrnl.syncedCount : jrnl'.recs[i] = jrnl.recs[i]
      BY <1>2, <1>3, <1>4, <2>2 DEF Covered
    <3> QED
      BY <1>2, <1>3, <1>6, <2>2, <3>1, CoveredStays
  <2> QED
    BY <2>1, <2>2, SafeNow
<1>8. ImageOK(Committed)'
  BY <1>1, <1>6 DEF FilesOK, ImageOK, Sized, VersionOf
<1>9. IsHot(jrnl') => jrnl'.orig >= 1
  BY <1>2, <1>3 DEF IsHot, FilesOK, HotAlone
<1> QED
  BY <1>3, <1>6, <1>7, <1>8, <1>9 DEF FilesAfter

LEMMA PowerLossFiles ==
  ASSUME TypeOK, FilesOK, PowerLoss
  PROVE  FilesAfter
<1>1. CASE jrnl = None \/ ~jrnl.entry
  <2>1. jrnl' \in {None, unlinked} \/ (jrnl # None /\ jrnl' # None /\ jrnl' \in Survivors(jrnl))
    BY DEF PowerLoss
  <2> QED
    BY <1>1, <2>1, JournalNotThere, JournalSurvives
<1>2. CASE jrnl # None /\ jrnl.entry
  <2>1. jrnl' \in Survivors(jrnl) /\ jrnl \in Journal /\ JournalOK(jrnl)
    BY <1>2 DEF PowerLoss, TypeOK, FilesOK
  <2>2. jrnl' # None
    <3>1. PICK magic \in BOOLEAN, count \in 0 .. jrnl.counted :
            jrnl' = Whole(jrnl, magic, count) /\ (~magic => count = 0)
      BY <1>2, <2>1, SurvivorsAre
    <3> QED
      BY <2>1, <3>1, WholeFacts
  <2> QED
    BY <1>2, <2>1, <2>2, JournalSurvives
<1> QED
  BY <1>1, <1>2

LEMMA PowerLossKeeps ==
  ASSUME PInv, LockInv', PowerLoss
  PROVE  DbInv'
<1> USE DEF PInv, DbInv
<1>1. /\ Forgotten(Conn, [c \in Conn |-> NoVersion]) /\ unlinked' = None
      /\ UNCHANGED <<nTxn, setting>>
  BY DEF PowerLoss
<1>2. /\ jrnl' \in Journal \cup {None} /\ (jrnl' # None => JournalOK(jrnl'))
      /\ ImageOK(Committed)' /\ (IsHot(jrnl') => jrnl'.orig >= 1)
      /\ \A p \in Page : Settled(p)' \/ Covered(p)'
  BY PowerLossFiles DEF FilesAfter
<1>3. /\ db' \in [Page -> Content] /\ unsynced' \in [Page -> SUBSET Content]
      /\ Absent \notin unsynced'[1] \cup {db'[1]}
  BY LossOfPages
<1>4. lock' = [c \in Conn |-> FL!NO_LOCK]
  BY <1>1, ReleaseCompatible DEF Forgotten, FL!Release
<1>5. NoVersion \in Version /\ EmptyCache \in [Page -> Content \cup {None}]
  BY PagerAssumption DEF NoVersion, Version, EmptyCache
<1>6. /\ eState' = [c \in Conn |-> "OPEN"] /\ pc' = [c \in Conn |-> "idle"]
      /\ job' = [c \in Conn |-> "none"] /\ cache' = [c \in Conn |-> EmptyCache]
      /\ dirty' = [c \in Conn |-> {}] /\ journalHdr' = [c \in Conn |-> 0]
      /\ at' = [c \in Conn |-> 0] /\ dbFileVers' = [c \in Conn |-> NoVersion]
  BY <1>1 DEF Forgotten
<1>7. TypeOK'
  <2>1. lock' \in [Conn -> FL!LockLevel] /\ eState' \in [Conn -> States] /\ pc' \in [Conn -> Labels]
    BY DEF LockInv
  <2>2. nTxn' \in 0 .. MaxTxn /\ setting' \in Settings
    BY <1>1 DEF TypeOK
  <2>3. /\ job' \in [Conn -> {"none", "recover", "commit", "rollback", "spill"}]
        /\ cache' \in [Conn -> [Page -> Content \cup {None}]]
        /\ dirty' \in [Conn -> SUBSET Page] /\ dbFileVers' \in [Conn -> Version]
        /\ journalHdr' \in [Conn -> Nat] /\ at' \in [Conn -> Nat]
    BY <1>5, <1>6
  <2> QED
    BY <1>1, <1>2, <1>3, <2>1, <2>2, <2>3 DEF TypeOK
<1>8. ASSUME NEW c \in Conn PROVE ConnOK(c)'
  <2>1. eState'[c] = "OPEN" /\ pc'[c] = "idle" /\ job'[c] = "none" /\ cache'[c] = EmptyCache
        /\ dirty'[c] = {}
    BY <1>6
  <2> QED
    BY <2>1 DEF ConnOK, ControlOK, OpenOK, EmptyCache, Writer
<1>9. HotAlone'
  <2>1. \A c \in Conn : eState'[c] = "OPEN" /\ pc'[c] = "idle" /\ lock'[c] = FL!NO_LOCK
    BY <1>4, <1>6
  <2> QED
    BY <1>2, <2>1 DEF HotAlone, IsHot, FL!NO_LOCK, FL!RESERVED_LOCK
<1>10. UnlinkedOK'
  BY <1>1 DEF UnlinkedOK
<1>11. OriginalsAreSafe'
  BY <1>2, SafeThen
<1> QED
  BY <1>2, <1>3, <1>7, <1>8, <1>9, <1>10, <1>11 DEF FilesOK

-----------------------------------------------------------------------------
(* The invariant *)

LEMMA FaultsKeep ==
  ASSUME PInv, LockInv', NEW c \in Conn, Fault(c)
  PROVE  DbInv' /\ (Committed' = Committed \/ CommitPointFails(c))
<1> USE DEF ImageKept
<1>1. CASE commit_fails(c)
  <2>1. CASE UNCHANGED <<db, unsynced>>
    BY <1>1, <2>1, RollbackKeeps
  <2>2. CASE ~UNCHANGED <<db, unsynced>>
    <3>1. pc[c] = "pages" /\ dirty[c] # {} /\ Writes(Min(dirty[c]), Torn)
      BY <1>1, <2>2 DEF commit_fails, HalfWritten, Writes
    <3>2. dirty[c] \in SUBSET Nat
      BY PageRange DEF PInv, DbInv, TypeOK
    <3>3. Min(dirty[c]) \in dirty[c]
      BY <3>1, <3>2, MinOf
    <3> QED
      BY <1>1, <3>1, <3>3, HalfWrittenKeeps
  <2> QED
    BY <2>1, <2>2
<1>2. CASE pager_error(c)
  <2>1. CASE UNCHANGED <<db, unsynced>>
    BY <1>2, <2>1, ErrorKeeps
  <2>2. CASE ~UNCHANGED <<db, unsynced>>
    <3>1. pc[c] = "spill" /\ Writes(at[c], Torn)
      BY <1>2, <2>2 DEF pager_error, HalfWritten, Writes
    <3> QED
      BY <1>2, <3>1, HalfWrittenKeeps
  <2> QED
    BY <2>1, <2>2
<1>3. CASE unlock_error(c) \/ Crash(c)
  BY <1>3, ForgetsKeeps
<1>4. CASE finalize_fails(c)
  BY <1>4, FinalizeFailsKeeps, CommitPointFailsKeeps
<1> QED
  BY <1>1, <1>2, <1>3, <1>4 DEF Fault

\* The one step that replaces the committed image, if nothing fails.
CommitPoint(c) == finalize_journal(c) /\ job[c] = "commit"

LEMMA RecoverKeepsDb ==
  ASSUME PInv, LockInv', NEW c \in Conn, Recover(c)
  PROVE  ImageKept
<1>1. \/ access_journal(c) \/ check_reserved(c) \/ delete_remnant(c) \/ remnant_unlock(c)
      \/ peek_journal(c) \/ recover_lock(c) \/ recover_busy(c)
      => ImageKept
  BY OpeningKeeps
<1>2. reopen_journal(c) \/ check_version(c) \/ get_page1(c) => ImageKept
  BY ReopenKeeps, CheckVersionKeeps, GetPage1Keeps
<1>3. playback_header(c) \/ playback_one_page(c) \/ playback_end(c) => ImageKept
  BY PlaybackHeaderKeeps, PlaybackOnePageKeeps, PlaybackEndKeeps
<1> QED
  BY <1>1, <1>2, <1>3 DEF Recover

LEMMA CommitKeepsDb ==
  ASSUME PInv, LockInv', NEW c \in Conn, Commit(c)
  PROVE  DbInv' /\ (Committed' = Committed \/ CommitPoint(c))
<1>1. pending_lock(c) \/ exclusive_lock(c) \/ exclusive_busy(c) => ImageKept
  BY LockAndSpillKeeps
<1>2. sync_journal(c) \/ write_header(c) \/ sync_header(c) => ImageKept
  BY SyncJournalKeeps, WriteHeaderKeeps, SyncHeaderKeeps
<1>3. spill_page(c) \/ write_page(c) \/ sync_database(c) => ImageKept
  BY WritePageKeeps, SyncDatabaseKeeps
<1>4. finalize_journal(c) /\ job[c] # "commit" => ImageKept
  BY RolledBackKeeps
<1>5. CommitPoint(c) => DbInv'
  BY CommitPointKeeps DEF CommitPoint
<1>6. end_transaction(c) => ImageKept
  BY EndTransactionKeeps
<1> QED
  BY <1>1, <1>2, <1>3, <1>4, <1>5, <1>6 DEF Commit, CommitPoint, ImageKept

LEMMA CallKeepsDb ==
  ASSUME PInv, LockInv', NEW c \in Conn, Call(c)
  PROVE  ImageKept
<1>1. shared_lock(c) => ImageKept
  BY OpeningKeeps
<1>2. end_read(c) \/ end_unchanged(c) \/ sqlite3PagerBegin(c) => ImageKept
  BY TransactionEnds
<1>3. sqlite3PagerCommitPhaseOne(c) \/ (\E p \in Page : pager_write(c, p)) => ImageKept
  BY WriteKeeps
<1>4. sqlite3PagerRollback(c) => ImageKept
  BY RollbackKeeps
<1>5. \A p \in Page : sqlite3PagerGet(c, p) \/ recycle_page(c, p) => ImageKept
  BY ReadKeeps
<1>6. \A p \in Page : pagerStress(c, p) => ImageKept
  BY LockAndSpillKeeps
<1> QED
  BY <1>1, <1>2, <1>3, <1>4, <1>5, <1>6 DEF Call

LEMMA NothingHappens ==
  ASSUME PInv, UNCHANGED vars
  PROVE  DbInv'
<1> USE DEF PInv, DbInv
<1>1. UNCHANGED <<db, unsynced, jrnl, unlinked, nTxn, setting, lock, eState, pc, job, cache, dirty,
                  dbFileVers, journalHdr, at>>
  BY DEF vars, files, pager
<1>2. \A d \in Conn : Untouched(d)
  BY <1>1 DEF Untouched
<1>3. \A d \in Conn : ConnOK(d)'
  BY <1>1, <1>2, ConnKept
<1>4. TypeOK'
  BY <1>1 DEF TypeOK
<1>5. Committed' = Committed
  BY <1>1, FilesSame
<1>6. UnlinkedOK'
  BY <1>1, <1>5, UnlinkedSame DEF FilesOK, UnlinkedOK
<1>7. \A p \in Page : (Settled(p) => Settled(p)') /\ (Covered(p) => Covered(p)')
  BY <1>1, <1>5 DEF Settled, Covered, IsHot
<1>8. OriginalsAreSafe'
  BY <1>1, <1>7, SafeNow, SafeThen DEF TypeOK, FilesOK
<1>9. HotAlone' /\ ImageOK(Committed)'
  BY <1>1, <1>5 DEF FilesOK, HotAlone, IsHot, ImageOK, Sized, VersionOf
<1> QED
  BY <1>1, <1>3, <1>4, <1>6, <1>8, <1>9 DEF FilesOK

LEMMA PagerNext == PInv /\ [Next]_vars => PInv'
<1> SUFFICES ASSUME PInv, [Next]_vars PROVE PInv'
  OBVIOUS
<1>1. LockInv'
  BY LockNext DEF PInv
<1>2. CASE UNCHANGED vars
  BY <1>1, <1>2, NothingHappens DEF PInv
<1>3. CASE PowerLoss
  BY <1>1, <1>3, PowerLossKeeps DEF PInv
<1>4. CASE \E c \in Conn : Call(c) \/ Recover(c) \/ Commit(c) \/ Fault(c)
  <2>1. PICK c \in Conn : Call(c) \/ Recover(c) \/ Commit(c) \/ Fault(c)
    BY <1>4
  <2>2. DbInv'
    BY <1>1, <2>1, CallKeepsDb, RecoverKeepsDb, CommitKeepsDb, FaultsKeep DEF ImageKept
  <2> QED
    BY <1>1, <2>2 DEF PInv
<1> QED
  BY <1>2, <1>3, <1>4 DEF Next

LEMMA PagerInit == ASSUME InitialSize > 0, Init PROVE PInv
<1>1. LockInv
  BY LockInit
<1>2. /\ MaxPage \in Nat /\ MaxTxn \in Nat /\ InitialSize \in 1 .. MaxPage /\ InitialSize \in Nat
      /\ 1 \in Page
  BY PagerAssumption DEF Page
<1> DEFINE first(p) == [by |-> 0, vers |-> IF p = 1 THEN <<1, InitialSize>> ELSE NoVersion]
<1>3. NoVersion \in Version /\ <<1, InitialSize>> \in Version
  BY <1>2 DEF NoVersion, Version
<1>4. \A p : first(p) \in Written
  BY <1>2, <1>3 DEF Written
<1>5. db = [p \in Page |-> IF p > InitialSize THEN Absent ELSE first(p)]
  BY DEF Init
<1> HIDE DEF first
<1>6. db \in [Page -> Content] /\ Absent # db[1]
  BY <1>2, <1>4, <1>5, NoneIsNoContent
<1>7. Sized(db, InitialSize)
  BY <1>2, <1>4, <1>5, PageRange DEF Sized
<1>8. VersionOf(db[1])[1] = 1
  <2>1. db[1] = first(1) /\ first(1).vers = <<1, InitialSize>>
    BY <1>2, <1>5 DEF first
  <2> QED
    BY <1>4, <2>1, WrittenVersion
<1>9. /\ jrnl = None /\ unlinked = None /\ Committed = db /\ ~IsHot(jrnl) /\ nTxn = 0
      /\ unsynced = [p \in Page |-> {}]
  BY CommittedHot DEF Init, IsHot
<1>10. ImageOK(Committed)
  BY <1>2, <1>7, <1>8, <1>9 DEF ImageOK
<1>11. \A p \in Page : Settled(p)
  BY <1>9 DEF Settled
<1>12. OriginalsAreSafe
  BY <1>9, <1>11, SafeMeansCovered
<1>13. FilesOK
  BY <1>2, <1>6, <1>9, <1>10, <1>12 DEF FilesOK, UnlinkedOK, HotAlone
<1>14. EmptyCache \in [Page -> Content \cup {None}]
  BY DEF EmptyCache
<1>15. TypeOK
  BY <1>1, <1>2, <1>3, <1>6, <1>9, <1>14 DEF TypeOK, Init, LockInv
<1>16. \A c \in Conn : ConnOK(c)
  BY DEF Init, ConnOK, ControlOK, OpenOK, Writer
<1> QED
  BY <1>1, <1>13, <1>15, <1>16 DEF PInv, DbInv

LEMMA PagerInvariant == ASSUME InitialSize > 0 PROVE Spec => []PInv
BY PagerInit, PagerNext, PTL DEF Spec

\* The files, the locks and the caches of all connections are of their types,
\* whatever fails (the assertions of pager.c on the state of a Pager rest on it).
THEOREM PagerTyped == ASSUME InitialSize > 0 PROVE Spec => []TypeOK
<1>1. PInv => TypeOK
  BY DEF PInv, DbInv
<1> QED
  BY <1>1, PagerInvariant, PTL

\* Every page of the file that is not what the last commit made of it has its
\* original in the journal, on the disk and counted by a header on the disk, for
\* any number of pages and connections and at every moment at which a write may
\* fail, a process may die or the power may go (syncJournal() before the write).
THEOREM OriginalsStaySafe == ASSUME InitialSize > 0 PROVE Spec => []OriginalsAreSafe
<1>1. PInv => OriginalsAreSafe
  BY DEF PInv, DbInv, FilesOK
<1> QED
  BY <1>1, PagerInvariant, PTL

\* Nobody who reads has a page in the cache that is not the committed one: the
\* change counter finds every change that others made while no lock was held.
THEOREM CacheStaysFresh == ASSUME InitialSize > 0 PROVE Spec => []CacheIsFresh
<1>1. PInv => CacheIsFresh
  <2> SUFFICES ASSUME PInv, NEW c \in Conn, eState[c] \in {"READER", "WRITER_LOCKED"},
                      NEW p \in Page
               PROVE  cache[c][p] \in {None, Committed[p]}
    BY DEF CacheIsFresh
  <2>1. ReaderOK(c)
    BY DEF PInv, DbInv, ConnOK
  <2> QED
    BY <2>1 DEF ReaderOK, Knows, Fresh, EmptyCache
<1> QED
  BY <1>1, PagerInvariant, PTL

-----------------------------------------------------------------------------
(***************************************************************************)
(* The pager implements an atomic database: the steps of AtomicDb.         *)
(***************************************************************************)
ViewOf(c) == IF InTransaction(c) THEN View(c) ELSE None
IsWriting(c) ==
  /\ InTransaction(c)
  /\ eState[c] \in Writer \cup {"WRITER_LOCKED", "WRITER_FINISHED"} /\ pc[c] # "unlock"

\* The step is none for the transaction of d.
Same(d) == ViewOf(d)' = ViewOf(d) /\ (IsWriting(d)' <=> IsWriting(d))

\* Nothing happens, or the last commit reaches the disk for good.
LEMMA SettleStep ==
  ASSUME \A d \in Conn : Same(d), UNCHANGED setting, Committed' = Committed,
         Previous' \in {Previous, Committed}
  PROVE  [Abstract!Next]_Abstract!vars
<1>1. [c \in Conn |-> IF InTransaction(c) THEN View(c) ELSE None]' =
      [c \in Conn |-> IF InTransaction(c) THEN View(c) ELSE None]
  BY DEF Same, ViewOf
<1>2. Writing' = Writing
  BY DEF Same, Writing, IsWriting
<1> QED
  BY <1>1, <1>2 DEF Abstract!Next, Abstract!Settle, Abstract!vars

LEMMA LeaveStep ==
  ASSUME NEW c \in Conn, \A d \in Conn \ {c} : Same(d), UNCHANGED setting, Committed' = Committed,
         Previous' = Previous, ViewOf(c)' = None, ~IsWriting(c)'
  PROVE  [Abstract!Next]_Abstract!vars
<1>1. [d \in Conn |-> IF InTransaction(d) THEN View(d) ELSE None]' =
      [[d \in Conn |-> IF InTransaction(d) THEN View(d) ELSE None] EXCEPT ![c] = None]
  BY DEF Same, ViewOf
<1>2. Writing' = Writing \ {c}
  BY DEF Same, Writing, IsWriting
<1> QED
  BY <1>1, <1>2 DEF Abstract!Next, Abstract!Leave, Abstract!vars

LEMMA BeginReadStep ==
  ASSUME NEW c \in Conn, \A d \in Conn \ {c} : Same(d), UNCHANGED setting, Committed' = Committed,
         Previous' = Previous, ViewOf(c) = None, ViewOf(c)' = Committed, ~IsWriting(c), ~IsWriting(c)'
  PROVE  [Abstract!Next]_Abstract!vars
<1>1. [d \in Conn |-> IF InTransaction(d) THEN View(d) ELSE None]' =
      [[d \in Conn |-> IF InTransaction(d) THEN View(d) ELSE None] EXCEPT ![c] = Committed]
  BY DEF Same, ViewOf
<1>2. Writing' = Writing
  BY DEF Same, Writing, IsWriting
<1>3. [d \in Conn |-> IF InTransaction(d) THEN View(d) ELSE None][c] = None
  BY DEF ViewOf
<1> QED
  BY <1>1, <1>2, <1>3 DEF Abstract!Next, Abstract!BeginRead, Abstract!vars

LEMMA BeginWriteStep ==
  ASSUME NEW c \in Conn, \A d \in Conn \ {c} : Same(d) /\ ~IsWriting(d), UNCHANGED setting,
         Committed' = Committed, Previous' = Previous,
         ViewOf(c) # None, ViewOf(c)' = ViewOf(c), ~IsWriting(c), IsWriting(c)'
  PROVE  [Abstract!Next]_Abstract!vars
<1>1. [d \in Conn |-> IF InTransaction(d) THEN View(d) ELSE None]' =
      [d \in Conn |-> IF InTransaction(d) THEN View(d) ELSE None]
  BY DEF Same, ViewOf
<1>2. Writing = {} /\ Writing' = {c}
  BY DEF Same, Writing, IsWriting
<1>3. [d \in Conn |-> IF InTransaction(d) THEN View(d) ELSE None][c] # None
  BY DEF ViewOf
<1> QED
  BY <1>1, <1>2, <1>3 DEF Abstract!Next, Abstract!BeginWrite, Abstract!vars

LEMMA PageWriteStep ==
  ASSUME NEW c \in Conn, \A d \in Conn \ {c} : Same(d), UNCHANGED setting, Committed' = Committed,
         Previous' = Previous, IsWriting(c), IsWriting(c)', NEW p \in Page, NEW v \in Content,
         ViewOf(c)' = [ViewOf(c) EXCEPT ![p] = v]
  PROVE  [Abstract!Next]_Abstract!vars
<1> DEFINE views == [d \in Conn |-> IF InTransaction(d) THEN View(d) ELSE None]
<1>1. views' = [views EXCEPT ![c] = [views[c] EXCEPT ![p] = v]]
  BY DEF Same, ViewOf
<1>2. Writing' = Writing /\ c \in Writing
  BY DEF Same, Writing, IsWriting
<1>3. Abstract!Write(c, p, v)
  BY <1>1, <1>2 DEF Abstract!Write
<1> QED
  BY <1>3 DEF Abstract!Next

LEMMA CommitStep ==
  ASSUME NEW c \in Conn, \A d \in Conn \ {c} : Same(d) /\ ViewOf(d) = None /\ ~IsWriting(d),
         UNCHANGED setting, IsWriting(c), ~IsWriting(c)', ViewOf(c)' = ViewOf(c),
         Committed' = ViewOf(c), Previous' \in {Committed, ViewOf(c)},
         setting.journal_mode = "TRUNCATE" \/ setting.synchronous = "EXTRA" => Previous' = ViewOf(c)
  PROVE  [Abstract!Next]_Abstract!vars
<1> DEFINE views == [d \in Conn |-> IF InTransaction(d) THEN View(d) ELSE None]
<1>1. views' = views /\ views[c] = ViewOf(c) /\ \A d \in Conn \ {c} : views[d] = None
  BY DEF Same, ViewOf
<1>2. c \in Writing /\ Writing' = {}
  BY DEF Same, Writing, IsWriting
<1>3. Abstract!Commit(c)
  BY <1>1, <1>2 DEF Abstract!Commit
<1> QED
  BY <1>3 DEF Abstract!Next

LEMMA CommitFailsStep ==
  ASSUME NEW c \in Conn, \A d \in Conn \ {c} : Same(d) /\ ViewOf(d) = None /\ ~IsWriting(d),
         UNCHANGED setting, IsWriting(c), ~IsWriting(c)', ViewOf(c)' = None,
         Committed' = ViewOf(c), Previous' \in {Committed, ViewOf(c)}
  PROVE  [Abstract!Next]_Abstract!vars
<1> DEFINE views == [d \in Conn |-> IF InTransaction(d) THEN View(d) ELSE None]
<1>1. /\ views' = [views EXCEPT ![c] = None] /\ views[c] = ViewOf(c)
      /\ \A d \in Conn \ {c} : views[d] = None
  BY DEF Same, ViewOf
<1>2. c \in Writing /\ Writing' = {}
  BY DEF Same, Writing, IsWriting
<1>3. Abstract!CommitFails(c)
  BY <1>1, <1>2 DEF Abstract!CommitFails
<1> QED
  BY <1>3 DEF Abstract!Next

LEMMA ReleaseStep ==
  ASSUME NEW c \in Conn, \A d \in Conn \ {c} : Same(d) /\ ~IsWriting(d), UNCHANGED setting,
         Committed' = Committed, Previous' = Previous, IsWriting(c), ~IsWriting(c)',
         ViewOf(c)' = ViewOf(c), ViewOf(c) = Committed
  PROVE  [Abstract!Next]_Abstract!vars
<1> DEFINE views == [d \in Conn |-> IF InTransaction(d) THEN View(d) ELSE None]
<1>1. views' = views /\ views[c] = Committed
  BY DEF Same, ViewOf
<1>2. c \in Writing /\ Writing' = {}
  BY DEF Same, Writing, IsWriting
<1>3. Abstract!Release(c)
  BY <1>1, <1>2 DEF Abstract!Release
<1> QED
  BY <1>3 DEF Abstract!Next

LEMMA PowerLossStep ==
  ASSUME UNCHANGED setting, \A d \in Conn : ViewOf(d)' = None /\ ~IsWriting(d)',
         Committed' \in {Committed, Previous}, Previous' = Committed'
  PROVE  [Abstract!Next]_Abstract!vars
<1>1. [d \in Conn |-> IF InTransaction(d) THEN View(d) ELSE None]' = [d \in Conn |-> None]
  BY DEF ViewOf
<1>2. Writing' = {}
  BY DEF Writing, IsWriting
<1> QED
  BY <1>1, <1>2 DEF Abstract!Next, Abstract!PowerLoss

\* A commit that the disk may lose leaves what it may lose undisturbed.
LEMMA PreviousStays ==
  ASSUME PInv, PInv', unlinked' = unlinked, Committed' = Committed
  PROVE  Previous' = Previous
<1> USE DEF PInv, DbInv, FilesOK
<1>1. CASE unlinked = None
  BY <1>1 DEF Previous, IsHot
<1>2. CASE unlinked # None
  <2>1. \A p \in Page : db[p] = Committed[p] /\ db'[p] = Committed'[p]
    BY <1>2 DEF UnlinkedOK, Settled
  <2>2. \A p \in Page : db'[p] = db[p]
    BY <2>1
  <2>3. db \in [Page -> Content] /\ db' \in [Page -> Content]
    BY DEF TypeOK
  <2>4. db' = db
    BY <2>2, <2>3
  <2> QED
    BY <2>4 DEF Previous, IsHot, Restored
<1> QED
  BY <1>1, <1>2

\* The image of a reader is the committed one.
LEMMA ReadersView ==
  PInv => \A c \in Conn : eState[c] \in {"READER", "WRITER_LOCKED"} => View(c) = Committed
<1> SUFFICES ASSUME PInv, NEW c \in Conn, eState[c] \in {"READER", "WRITER_LOCKED"}
             PROVE  View(c) = Committed
  OBVIOUS
<1>1. Committed = db /\ Committed \in [Page -> Content]
  BY ReadsCommitted, CommittedFacts DEF PInv, DbInv
<1>2. \A p \in Page : cache[c][p] \in {None, Committed[p]}
  BY DEF PInv, DbInv, ConnOK, ReaderOK, Knows, Fresh, EmptyCache
<1>3. \A p \in Page : View(c)[p] = Committed[p]
  BY <1>1, <1>2 DEF View
<1> QED
  BY <1>1, <1>3 DEF View

LEMMA ReadersViewThen ==
  PInv' => (\A c \in Conn : eState[c] \in {"READER", "WRITER_LOCKED"} => View(c) = Committed)'
BY ReadersView, PTL

\* A view is an image.
LEMMA ViewsAreImages ==
  ASSUME TypeOK, NEW c \in Conn
  PROVE  View(c) \in [Page -> Content] /\ View(c) # None
<1>1. View(c) \in [Page -> Content]
  BY DEF View, TypeOK
<1> QED
  BY <1>1, ValueAssumption


\* What a connection does to its own variables and to the file is nothing to the
\* transactions of the others.
Only(c) == \A d \in Conn \ {c} : UNCHANGED <<eState[d], pc[d], job[d], cache[d]>>

LEMMA OthersSame ==
  ASSUME PInv, NEW c \in Conn, Only(c), db' = db \/ lock[c] = FL!EXCLUSIVE_LOCK
  PROVE  \A d \in Conn \ {c} : Same(d)
<1> SUFFICES ASSUME NEW d \in Conn \ {c} PROVE Same(d)
  OBVIOUS
<1>1. UNCHANGED <<eState[d], pc[d], job[d], cache[d]>>
  BY DEF Only
<1>2. InTransaction(d)' = InTransaction(d) /\ IsWriting(d)' = IsWriting(d)
  BY <1>1 DEF InTransaction, IsWriting
<1>3. CASE db' = db
  <2>1. View(d)' = View(d)
    BY <1>1, <1>3 DEF View
  <2> QED
    BY <1>2, <2>1 DEF Same, ViewOf
<1>4. CASE lock[c] = FL!EXCLUSIVE_LOCK
  <2>1. ~InTransaction(d)
    BY <1>4, Alone DEF InTransaction, PInv
  <2> QED
    BY <1>2, <2>1 DEF Same, ViewOf
<1> QED
  BY <1>3, <1>4

LEMMA CallOnly == ASSUME TypeOK, NEW c \in Conn, Call(c) PROVE Only(c) /\ UNCHANGED setting
BY DEF Call, Only, TypeOK, shared_lock, end_read, end_unchanged, sqlite3PagerBegin,
   sqlite3PagerCommitPhaseOne, sqlite3PagerRollback, sqlite3PagerGet, recycle_page,
   pager_write, pagerStress, Goto, SetState, Change, Fetch

LEMMA RecoverOnly == ASSUME TypeOK, NEW c \in Conn, Recover(c) PROVE Only(c) /\ UNCHANGED setting
BY DEF Recover, Only, TypeOK, access_journal, check_reserved, delete_remnant, remnant_unlock,
   peek_journal, recover_lock, recover_busy, reopen_journal, playback_header, playback_one_page,
   playback_end, check_version, get_page1, Goto, SetState, Reset, Fetch

LEMMA CommitOnly == ASSUME TypeOK, NEW c \in Conn, Commit(c) PROVE Only(c) /\ UNCHANGED setting
BY DEF Commit, Only, TypeOK, pending_lock, exclusive_lock, exclusive_busy, sync_journal,
   write_header, sync_header, spill_page, write_page, sync_database, finalize_journal,
   end_transaction, Goto, SetState, WritePage, CacheTruncate, pager

LEMMA FaultOnly == ASSUME TypeOK, NEW c \in Conn, Fault(c) PROVE Only(c) /\ UNCHANGED setting
BY DEF Fault, Only, TypeOK, commit_fails, pager_error, finalize_fails, unlock_error, Crash,
   Forgotten, Goto, SetState

LEMMA StepSame ==
  ASSUME PInv, NEW c \in Conn, Call(c) \/ Recover(c) \/ Commit(c) \/ Fault(c)
  PROVE  (\A d \in Conn \ {c} : Same(d)) /\ UNCHANGED setting
<1>1. Only(c) /\ UNCHANGED setting
  BY CallOnly, RecoverOnly, CommitOnly, FaultOnly DEF PInv, DbInv
<1>2. db' = db \/ lock[c] = FL!EXCLUSIVE_LOCK
  BY CallWritesNothing, RecoverWrites, CommitWrites, FaultWrites DEF PInv
<1> QED
  BY <1>1, <1>2, OthersSame


\* The last commit is what it was, and so is the image it may be lost for.
LEMMA StaysCommitted ==
  ASSUME PInv, PInv', NEW c \in Conn, UNCHANGED unlinked,
         \/ Call(c) \/ Recover(c)
         \/ (Fault(c) /\ ~CommitPointFails(c)) \/ (Commit(c) /\ ~CommitPoint(c))
  PROVE  Committed' = Committed /\ Previous' = Previous
<1>1. Committed' = Committed
  BY CallKeepsDb, RecoverKeepsDb, FaultsKeep, CommitKeepsDb DEF ImageKept, PInv
<1> QED
  BY <1>1, PreviousStays

\* A database that is not empty keeps its journal, and a journal that is synced
\* settles what was not.
LEMMA RecoverUnlinked ==
  ASSUME PInv, NEW c \in Conn, Recover(c)
  PROVE  UNCHANGED unlinked \/ (reopen_journal(c) /\ unlinked' = None)
<1>1. ~delete_remnant(c)
  BY DEF delete_remnant, PInv, DbInv, ConnOK, ControlOK, Opening, InPhaseOne, RollsBack
<1> QED
  BY <1>1 DEF Recover, access_journal, check_reserved, remnant_unlock, peek_journal,
     recover_lock, recover_busy, reopen_journal, playback_header, playback_one_page, playback_end,
     check_version, get_page1, files

\* Before it reads, and while it plays a journal back, c is in no transaction.
LEMMA RecoverOutside ==
  ASSUME PInv, NEW c \in Conn, Recover(c), pc[c] \notin {"version", "page1"}
  PROVE  Same(c)
<1>1. ControlOK(eState[c], pc[c], job[c]) /\ pc[c] \in Labels
  BY Now DEF PInv, DbInv, ConnOK
<1>2. pc[c] \in (Opening \ {"version"}) \cup {"playback"}
  BY DEF Recover, access_journal, check_reserved, delete_remnant, remnant_unlock,
     peek_journal, recover_lock, recover_busy, reopen_journal, playback_header, playback_one_page,
     playback_end, check_version, get_page1, Opening
<1>3. eState[c] = "OPEN" \/ (job[c] = "rollback" /\ pc[c] = "playback")
  BY <1>1, <1>2 DEF ControlOK, Opening, InPhaseOne, RollsBack
<1>4. eState' = eState
  BY DEF Recover, access_journal, check_reserved, delete_remnant, remnant_unlock,
     peek_journal, recover_lock, recover_busy, reopen_journal, playback_header, playback_one_page,
     playback_end, check_version, get_page1
<1>5. pc[c] = "playback" => job' = job
  BY DEF Recover, access_journal, check_reserved, delete_remnant, remnant_unlock,
     peek_journal, recover_lock, recover_busy, reopen_journal, playback_header, playback_one_page,
     playback_end, check_version, get_page1
<1>6. ~InTransaction(c) /\ ~InTransaction(c)'
  BY <1>3, <1>4, <1>5 DEF InTransaction
<1> QED
  BY <1>6 DEF Same, ViewOf, IsWriting

LEMMA ReopenRefines ==
  ASSUME PInv, PInv', NEW c \in Conn, reopen_journal(c), unlinked' = None
  PROVE  [Abstract!Next]_Abstract!vars
<1>1. Committed' = Committed /\ Previous' = Committed
  <2>1. Committed' = Committed
    BY ReopenKeeps DEF ImageKept, PInv
  <2> QED
    BY <2>1 DEF Previous, IsHot
<1>2. \A d \in Conn : Same(d) /\ UNCHANGED setting
  BY StepSame, RecoverOutside DEF Recover, reopen_journal
<1> QED
  BY <1>1, <1>2, SettleStep

LEMMA RecoverRefines ==
  ASSUME PInv, PInv', NEW c \in Conn, Recover(c)
  PROVE  [Abstract!Next]_Abstract!vars
<1> SUFFICES ASSUME UNCHANGED unlinked PROVE [Abstract!Next]_Abstract!vars
  BY RecoverUnlinked, ReopenRefines
<1>1. Committed' = Committed /\ Previous' = Previous
  BY StaysCommitted
<1>2. (\A d \in Conn \ {c} : Same(d)) /\ UNCHANGED setting
  BY StepSame
<1>3. ControlOK(eState[c], pc[c], job[c])
  BY DEF PInv, DbInv, ConnOK
<1>4. CASE pc[c] = "version"
  <2>1. check_version(c)
    BY <1>4 DEF Recover, access_journal, check_reserved, delete_remnant, remnant_unlock,
       peek_journal, recover_lock, recover_busy, reopen_journal, playback_header,
       playback_one_page, playback_end, get_page1
  <2>2. eState[c] = "OPEN" /\ job[c] # "rollback" /\ eState'[c] = "READER" /\ job' = job
    BY <1>3, <1>4, <2>1 DEF ControlOK, Opening, InPhaseOne, RollsBack, check_version, SetState,
       PInv, LockInv
  <2>3. View(c)' = Committed'
    BY <2>2, ReadersViewThen
  <2>4. ViewOf(c) = None /\ ViewOf(c)' = Committed /\ ~IsWriting(c) /\ ~IsWriting(c)'
    BY <1>1, <2>2, <2>3 DEF ViewOf, IsWriting, InTransaction, Writer
  <2> QED
    BY <1>1, <1>2, <2>4, BeginReadStep
<1>5. CASE pc[c] = "page1"
  <2>1. get_page1(c)
    BY <1>5 DEF Recover, access_journal, check_reserved, delete_remnant, remnant_unlock,
       peek_journal, recover_lock, recover_busy, reopen_journal, playback_header,
       playback_one_page, playback_end, check_version
  <2>2. eState[c] = "READER" /\ job[c] # "rollback" /\ eState'[c] = "READER" /\ job' = job
    BY <1>3, <1>5, <2>1 DEF ControlOK, Opening, InPhaseOne, RollsBack, get_page1
  <2>3. View(c)' = Committed' /\ View(c) = Committed
    BY <2>2, ReadersView, ReadersViewThen
  <2>4. Same(c)
    BY <1>1, <2>2, <2>3 DEF Same, ViewOf, IsWriting, InTransaction, Writer
  <2> QED
    BY <1>1, <1>2, <2>4, SettleStep
<1>6. CASE pc[c] \notin {"version", "page1"}
  BY <1>1, <1>2, <1>6, RecoverOutside, SettleStep
<1> QED
  BY <1>4, <1>5, <1>6


\* With a page fetched, or a clean one dropped, the image is the same.
LEMMA ReadView ==
  ASSUME PInv, NEW c \in Conn, NEW p \in Page, sqlite3PagerGet(c, p) \/ recycle_page(c, p)
  PROVE  Same(c)
<1> USE DEF PInv, DbInv
<1>1. InUse(c) /\ eState[c] \in Writer \cup {"READER", "WRITER_LOCKED"} /\ job[c] = "none"
      /\ UNCHANGED <<db, eState, pc, job>>
  BY DEF sqlite3PagerGet, recycle_page, InUse, ConnOK, ControlOK, InPhaseOne, RollsBack, Writer, files
<1>2. /\ cache[c] \in [Page -> Content \cup {None}] /\ db[p] \in Content /\ db[p] # None
      /\ cache \in [Conn -> [Page -> Content \cup {None}]]
  BY NoneIsNoContent DEF TypeOK
<1>3. ASSUME sqlite3PagerGet(c, p)
      PROVE  cache[c][p] = None /\ cache' = [cache EXCEPT ![c][p] = db[p]]
  BY <1>3 DEF sqlite3PagerGet, Fetch, View
<1>4. ASSUME recycle_page(c, p)
      PROVE  cache[c][p] \in {None, db[p]} /\ cache' = [cache EXCEPT ![c][p] = None]
  <2>1. p \notin dirty[c] /\ cache' = [cache EXCEPT ![c][p] = None]
    BY <1>4 DEF recycle_page
  <2>2. CASE eState[c] \in {"READER", "WRITER_LOCKED"}
    <3>1. Committed = db /\ (Knows(c) \/ cache[c] = EmptyCache)
      BY <2>2, ReadsCommitted DEF ConnOK, ReaderOK
    <3> QED
      BY <2>1, <3>1 DEF Knows, Fresh, EmptyCache
  <2>3. CASE eState[c] \in Writer
    <3>1. WriterImageOK(c)
      BY <1>1, <2>3 DEF ConnOK, WriterOK, InUse
    <3> QED
      BY <2>1, <3>1 DEF WriterImageOK
  <2> QED
    BY <1>1, <2>2, <2>3
<1>5. \A q \in Page : (IF cache'[c][q] = None THEN db[q] ELSE cache'[c][q]) =
                      (IF cache[c][q] = None THEN db[q] ELSE cache[c][q])
  <2>1. PICK new \in {None, db[p]} : cache' = [cache EXCEPT ![c][p] = new]
    BY <1>3, <1>4
  <2>2. cache'[c] = [cache[c] EXCEPT ![p] = new] /\ cache[c][p] \in {None, db[p]}
    BY <1>2, <1>3, <1>4, <2>1
  <2> QED
    BY <1>2, <2>1, <2>2
<1>6. View(c)' = View(c)
  BY <1>1, <1>5 DEF View
<1> QED
  BY <1>1, <1>6 DEF Same, ViewOf, InTransaction, IsWriting

\* The change of a page is one in the image of the transaction.
LEMMA ChangeView ==
  ASSUME PInv, NEW c \in Conn, pc[c] = "idle", eState[c] \in Writer \cup {"WRITER_LOCKED"},
         NEW p \in Page, NEW content \in Written, Change(c, p, content), db' = db,
         \/ UNCHANGED <<job, pc>>
         \/ job' = [job EXCEPT ![c] = "commit"] /\ pc' = [pc EXCEPT ![c] = "lock"]
  PROVE  IsWriting(c) /\ IsWriting(c)' /\ ViewOf(c)' = [ViewOf(c) EXCEPT ![p] = content]
<1> USE DEF PInv, DbInv
<1>1. job[c] = "none"
  BY DEF ConnOK, ControlOK, InPhaseOne, RollsBack, Writer, Opening
<1>2. eState'[c] \in Writer /\ job'[c] # "rollback" /\ pc'[c] # "unlock"
  BY <1>1 DEF Change, SetState, TypeOK, Writer
<1>3. IsWriting(c) /\ IsWriting(c)'
  BY <1>1, <1>2 DEF IsWriting, InTransaction, Writer
<1>4. cache'[c] = [cache[c] EXCEPT ![p] = content] /\ content # None
      /\ cache[c] \in [Page -> Content \cup {None}]
  BY NoneIsNoContent DEF Change, TypeOK
<1>5. \A q \in Page : (IF cache'[c][q] = None THEN db[q] ELSE cache'[c][q]) =
                      (IF q = p THEN content ELSE IF cache[c][q] = None THEN db[q] ELSE cache[c][q])
  BY <1>4
<1>6. View(c)' = [View(c) EXCEPT ![p] = content]
  BY <1>5 DEF View
<1> QED
  BY <1>3, <1>6 DEF ViewOf, IsWriting

LEMMA WriteRefines ==
  ASSUME PInv, PInv', NEW c \in Conn,
         (\E p \in Page : pager_write(c, p)) \/ sqlite3PagerCommitPhaseOne(c)
  PROVE  [Abstract!Next]_Abstract!vars
<1> USE DEF PInv, DbInv
<1>1. pc[c] = "idle" /\ eState[c] \in Writer \cup {"WRITER_LOCKED"} /\ UNCHANGED <<db, unlinked>>
  BY DEF pager_write, sqlite3PagerCommitPhaseOne
<1>2. dbSize(c) \in 1 .. MaxPage /\ cache[c][1] # None /\ dbFileVers[c] = CommittedVers
      /\ CommittedVers[1] <= nTxn
  BY <1>1, OpenedImage, OpenedFacts
<1>3. nTxn \in 0 .. MaxTxn /\ 1 \in Page /\ MaxTxn \in Nat /\ MaxPage \in Nat
      /\ cache[c][1] \in Content /\ CommittedVers[1] \in Nat
  BY <1>2, PagerAssumption, CommittedFacts DEF TypeOK
<1>4. Call(c)
  BY DEF Call
<1>5. Committed' = Committed /\ Previous' = Previous
  BY <1>1, <1>4, StaysCommitted
<1>6. (\A d \in Conn \ {c} : Same(d)) /\ UNCHANGED setting
  BY <1>4, StepSame
<1>7. ASSUME NEW p \in Page, NEW content \in Written, Change(c, p, content),
             \/ UNCHANGED <<job, pc>>
             \/ job' = [job EXCEPT ![c] = "commit"] /\ pc' = [pc EXCEPT ![c] = "lock"]
      PROVE  [Abstract!Next]_Abstract!vars
  <2>1. IsWriting(c) /\ IsWriting(c)' /\ ViewOf(c)' = [ViewOf(c) EXCEPT ![p] = content]
    BY <1>1, <1>7, ChangeView
  <2>2. content \in Content
    BY NoneIsNoContent
  <2> QED
    BY <1>5, <1>6, <2>1, <2>2, PageWriteStep
<1>8. ASSUME NEW p \in Page, pager_write(c, p) PROVE [Abstract!Next]_Abstract!vars
  <2> DEFINE content == [by |-> nTxn, vers |-> IF p = 1 THEN VersionOf(cache[c][1]) ELSE NoVersion]
  <2>1. VersionOf(cache[c][1]) \in Version /\ NoVersion \in Version
    BY <1>3, VersionType DEF NoVersion, Version
  <2>2. content \in Written
    BY <1>3, <2>1 DEF Written
  <2>3. Change(c, p, content) /\ UNCHANGED <<job, pc>>
    BY <1>8 DEF pager_write
  <2> HIDE DEF content
  <2> QED
    BY <1>7, <2>2, <2>3
<1>9. CASE sqlite3PagerCommitPhaseOne(c)
  <2> DEFINE content == [by |-> nTxn, vers |-> <<dbFileVers[c][1] + 1, dbSize(c)>>]
  <2>1. content \in Written
    BY <1>2, <1>3 DEF Written, Version
  <2>2. Change(c, 1, content) /\ job' = [job EXCEPT ![c] = "commit"] /\ pc' = [pc EXCEPT ![c] = "lock"]
    BY <1>9 DEF sqlite3PagerCommitPhaseOne, Goto
  <2> HIDE DEF content
  <2> QED
    BY <1>3, <1>7, <2>1, <2>2
<1> QED
  BY <1>8, <1>9


LEMMA LevelsApart ==
  ASSUME PInv, NEW c \in Conn, lock[c] < FL!RESERVED_LOCK
  PROVE  ~(lock[c] >= FL!RESERVED_LOCK)
<1>1. lock[c] \in Levels
  BY Now DEF PInv
<1> QED
  BY <1>1 DEF Levels, FL!NO_LOCK, FL!SHARED_LOCK, FL!RESERVED_LOCK, FL!PENDING_LOCK,
     FL!EXCLUSIVE_LOCK


\* Whoever writes holds RESERVED at least.
LEMMA WritesReserved ==
  ASSUME PInv, NEW c \in Conn, IsWriting(c)
  PROVE  lock[c] >= FL!RESERVED_LOCK
BY LevelOfState DEF PInv, IsWriting

LEMMA BeginRefines ==
  ASSUME PInv, PInv', NEW c \in Conn, sqlite3PagerBegin(c)
  PROVE  [Abstract!Next]_Abstract!vars
<1>1. Committed' = Committed /\ Previous' = Previous
  BY StaysCommitted DEF sqlite3PagerBegin, Call, files
<1>2. (\A d \in Conn \ {c} : Same(d)) /\ UNCHANGED setting
  BY StepSame DEF Call
<1>3. ASSUME NEW d \in Conn \ {c} PROVE ~IsWriting(d)
  <2>1. lock[d] \in Levels /\ lock[d] < FL!RESERVED_LOCK
    BY <1>3, Now DEF PInv, sqlite3PagerBegin, FL!Reserved, FL!Others
  <2>2. ~(lock[d] >= FL!RESERVED_LOCK)
    BY <2>1 DEF Levels, FL!NO_LOCK, FL!SHARED_LOCK, FL!RESERVED_LOCK, FL!PENDING_LOCK,
         FL!EXCLUSIVE_LOCK
  <2> QED
    BY <2>2, WritesReserved
<1>4. eState[c] = "READER" /\ eState'[c] = "WRITER_LOCKED" /\ pc[c] = "idle" /\ pc'[c] = "idle"
      /\ job[c] = "none" /\ job'[c] = "none"
  BY DEF sqlite3PagerBegin, SetState, PInv, DbInv, LockInv, ConnOK, ControlOK, Writer
<1>5. View(c) = Committed /\ View(c)' = Committed'
  BY <1>4, ReadersView, ReadersViewThen
<1>6. ViewOf(c) # None /\ ViewOf(c)' = ViewOf(c) /\ ~IsWriting(c) /\ IsWriting(c)'
  <2>1. View(c) # None
    BY ViewsAreImages DEF PInv, DbInv
  <2> QED
    BY <1>1, <1>4, <1>5, <2>1 DEF ViewOf, IsWriting, InTransaction, Writer
<1> QED
  BY <1>1, <1>2, <1>3, <1>6, BeginWriteStep

LEMMA EndUnchangedRefines ==
  ASSUME PInv, PInv', NEW c \in Conn, end_unchanged(c)
  PROVE  [Abstract!Next]_Abstract!vars
<1>1. Committed' = Committed /\ Previous' = Previous
  BY StaysCommitted DEF end_unchanged, Call, files
<1>2. (\A d \in Conn \ {c} : Same(d)) /\ UNCHANGED setting
  BY StepSame DEF Call
<1>3. eState[c] = "WRITER_LOCKED" /\ eState'[c] = "READER" /\ pc[c] = "idle" /\ pc'[c] = "idle"
      /\ job[c] = "none" /\ job'[c] = "none"
  BY DEF end_unchanged, SetState, PInv, DbInv, LockInv, ConnOK, ControlOK, Writer
<1>4. View(c) = Committed /\ View(c)' = Committed'
  BY <1>3, ReadersView, ReadersViewThen
<1>5. /\ ViewOf(c) = Committed /\ ViewOf(c)' = ViewOf(c) /\ IsWriting(c) /\ ~IsWriting(c)'
  BY <1>1, <1>3, <1>4 DEF ViewOf, IsWriting, InTransaction, Writer
<1>6. ASSUME NEW d \in Conn \ {c} PROVE ~IsWriting(d)
  BY <1>5, WritesReserved, OneReserved, LevelsApart DEF PInv
<1> QED
  BY <1>1, <1>2, <1>5, <1>6, ReleaseStep

LEMMA CallRefines ==
  ASSUME PInv, PInv', NEW c \in Conn, Call(c)
  PROVE  [Abstract!Next]_Abstract!vars
<1>1. (\A d \in Conn \ {c} : Same(d)) /\ UNCHANGED setting
  BY StepSame
<1>2. ControlOK(eState[c], pc[c], job[c])
  BY DEF PInv, DbInv, ConnOK
<1>3. CASE shared_lock(c)
  <2>1. Committed' = Committed /\ Previous' = Previous
    BY <1>3, StaysCommitted DEF shared_lock, files
  <2>2. Same(c)
    BY <1>3 DEF shared_lock, Same, ViewOf, IsWriting, InTransaction
  <2> QED
    BY <1>1, <2>1, <2>2, SettleStep
<1>4. CASE end_read(c)
  <2>1. Committed' = Committed /\ Previous' = Previous
    BY <1>4, StaysCommitted DEF end_read, files
  <2>2. ViewOf(c)' = None /\ ~IsWriting(c)'
    BY <1>4 DEF end_read, SetState, PInv, LockInv, ViewOf, IsWriting, InTransaction
  <2> QED
    BY <1>1, <2>1, <2>2, LeaveStep
<1>5. CASE sqlite3PagerRollback(c)
  <2>1. Committed' = Committed /\ Previous' = Previous
    BY <1>5, StaysCommitted DEF sqlite3PagerRollback, files
  <2>2. ViewOf(c)' = None /\ ~IsWriting(c)'
    BY <1>5 DEF sqlite3PagerRollback, PInv, DbInv, TypeOK, ViewOf, IsWriting, InTransaction
  <2> QED
    BY <1>1, <2>1, <2>2, LeaveStep
<1>6. ASSUME NEW p \in Page, sqlite3PagerGet(c, p) \/ recycle_page(c, p)
      PROVE  [Abstract!Next]_Abstract!vars
  <2>1. Committed' = Committed /\ Previous' = Previous
    BY <1>6, StaysCommitted DEF sqlite3PagerGet, recycle_page, files
  <2>2. Same(c)
    BY <1>6, ReadView
  <2> QED
    BY <1>1, <2>1, <2>2, SettleStep
<1>7. ASSUME NEW p \in Page, pagerStress(c, p)
      PROVE  [Abstract!Next]_Abstract!vars
  <2>1. Committed' = Committed /\ Previous' = Previous
    BY <1>7, StaysCommitted DEF pagerStress, files
  <2>2. job[c] = "none" /\ eState[c] \in Writer /\ pc[c] = "idle"
    BY <1>2, <1>7 DEF pagerStress, ControlOK, InPhaseOne, RollsBack, Writer, Opening
  <2>3. /\ eState' = eState /\ job'[c] = "spill" /\ pc'[c] \in {"lock", "spill"}
        /\ cache' = cache /\ db' = db
    BY <1>7 DEF pagerStress, Goto, files, PInv, DbInv, TypeOK
  <2>4. Same(c)
    BY <2>2, <2>3 DEF Same, ViewOf, IsWriting, InTransaction, Writer, View
  <2> QED
    BY <1>1, <2>1, <2>4, SettleStep
<1> QED
  BY <1>3, <1>4, <1>5, <1>6, <1>7, BeginRefines, EndUnchangedRefines, WriteRefines DEF Call


\* What unlinked may be when the journal file goes.
LEMMA GoneOrLeft ==
  ASSUME Finalize \/ FinalizeUnsynced
  PROVE  unlinked' \in {None, unlinked} \/ (unlinked' = jrnl /\ jrnl # None /\ jrnl.entry)
BY DEF Finalize, FinalizeUnsynced, LeftBehind

\* The end of a playback keeps the image: the journal is gone, or what is kept of
\* it for a power failure leads to the same image.
LEMMA RolledBackPrevious ==
  ASSUME PInv, PInv', Finalize \/ FinalizeUnsynced, Committed' = Committed, UNCHANGED db
  PROVE  Previous' \in {Previous, Committed}
<1>1. CASE unlinked' = unlinked
  BY <1>1, PreviousStays
<1>2. CASE unlinked' = None
  BY <1>2 DEF Previous, IsHot
<1>3. CASE unlinked' = jrnl
  <2>1. CASE IsHot(jrnl)
    <3>1. Previous' = Restored(db, jrnl)
      BY <1>3, <2>1 DEF Previous, IsHot, Restored
    <3> QED
      BY <2>1, <3>1, CommittedHot
  <2>2. CASE ~IsHot(jrnl)
    BY <1>3, <2>2 DEF Previous, IsHot
  <2> QED
    BY <2>1, <2>2
<1> QED
  BY <1>1, <1>2, <1>3, GoneOrLeft

\* What the commit point does to the image, and to the one before it.
LEMMA CommitPointImages ==
  ASSUME PInv, PInv', NEW c \in Conn, pc[c] = "finalize", job[c] = "commit",
         Finalize \/ FinalizeUnsynced, UNCHANGED db
  PROVE  /\ \A d \in Conn \ {c} : ViewOf(d) = None /\ ~IsWriting(d)
         /\ View(c) = db /\ ViewOf(c) = db /\ IsWriting(c) /\ eState[c] = "WRITER_FINISHED"
         /\ Committed' = db
         /\ Previous' \in {Committed, db} /\ (unlinked' = None => Previous' = db)
<1> USE DEF PInv, DbInv
<1>1. /\ eState[c] = "WRITER_FINISHED" /\ WriterJournalOK(c) /\ WriterImageOK(c)
      /\ lock[c] = FL!EXCLUSIVE_LOCK /\ jrnl # None
  BY AtFinalize DEF Writer
<1>2. \A d \in Conn \ {c} : ViewOf(d) = None /\ ~IsWriting(d)
  BY <1>1, Alone DEF ViewOf, IsWriting, InTransaction
<1>3. View(c) = db
  <2>1. \A p \in Page : cache[c][p] \in {None, db[p]}
    BY <1>1 DEF WriterImageOK
  <2>2. \A p \in Page : View(c)[p] = db[p]
    BY <2>1 DEF View
  <2> QED
    BY <2>2 DEF View, TypeOK
<1>4. ViewOf(c) = db /\ IsWriting(c)
  BY <1>1, <1>3 DEF ViewOf, IsWriting, InTransaction, Writer
<1>5. IsHot(jrnl) /\ unlinked = None
  BY <1>1 DEF WriterJournalOK, IsHot
<1>6. ~IsHot(jrnl')
  BY DEF Finalize, FinalizeUnsynced, NewJournal, IsHot
<1>7. Committed' = db
  BY <1>6 DEF Committed
<1>8. /\ unlinked' = None => Previous' = db
      /\ unlinked' = jrnl => Previous' = Committed
  BY <1>5, <1>7 DEF Previous, IsHot, Committed, Restored
<1> QED
  BY <1>1, <1>2, <1>3, <1>4, <1>5, <1>7, <1>8, GoneOrLeft

\* The commit is answered with an error, and may be kept all the same.
LEMMA CommitPointFailsRefines ==
  ASSUME PInv, PInv', NEW c \in Conn, CommitPointFails(c)
  PROVE  [Abstract!Next]_Abstract!vars
<1>1. (\A d \in Conn \ {c} : Same(d)) /\ UNCHANGED setting
  BY StepSame DEF Fault, CommitPointFails
<1>2. /\ pc[c] = "finalize" /\ job[c] = "commit" /\ FinalizeUnsynced
      /\ UNCHANGED db /\ eState'[c] = "ERROR"
  BY FinalizeFailsState DEF CommitPointFails, PInv
<1>3. ViewOf(c)' = None /\ ~IsWriting(c)'
  BY <1>2 DEF ViewOf, IsWriting, InTransaction
<1> QED
  BY <1>1, <1>2, <1>3, CommitPointImages, CommitFailsStep

\* A playback is over, but not for good.
LEMMA FinalizeFailsRefines ==
  ASSUME PInv, PInv', NEW c \in Conn, finalize_fails(c), FinalizeUnsynced, job[c] # "commit"
  PROVE  [Abstract!Next]_Abstract!vars
<1>1. (\A d \in Conn \ {c} : Same(d)) /\ UNCHANGED setting
  BY StepSame DEF Fault
<1>2. pc[c] = "finalize" /\ UNCHANGED db /\ eState'[c] = "ERROR"
  BY FinalizeFailsState DEF PInv
<1>3. eState[c] = "OPEN" \/ job[c] = "rollback"
  BY <1>2, AtFinalize
<1>4. Same(c)
  BY <1>2, <1>3 DEF Same, ViewOf, IsWriting, InTransaction
<1>5. Committed' = Committed
  BY FinalizeFailsKeeps DEF PInv, ImageKept, CommitPointFails
<1>6. Previous' \in {Previous, Committed}
  BY <1>2, <1>5, RolledBackPrevious
<1> QED
  BY <1>1, <1>4, <1>5, <1>6, SettleStep

LEMMA FaultRefines ==
  ASSUME PInv, PInv', NEW c \in Conn, Fault(c)
  PROVE  [Abstract!Next]_Abstract!vars
<1>1. CASE finalize_fails(c) /\ FinalizeUnsynced
  BY <1>1, CommitPointFailsRefines, FinalizeFailsRefines DEF CommitPointFails
<1>2. CASE ~(finalize_fails(c) /\ FinalizeUnsynced)
  <2>1. UNCHANGED unlinked /\ ~CommitPointFails(c)
    BY <1>2 DEF Fault, commit_fails, pager_error, finalize_fails, unlock_error, Crash, files,
       CommitPointFails
  <2>2. Committed' = Committed /\ Previous' = Previous
    BY <2>1, StaysCommitted
  <2>3. (\A d \in Conn \ {c} : Same(d)) /\ UNCHANGED setting
    BY StepSame
  <2>4. eState'[c] \in {"OPEN", "ERROR"} \/ job'[c] = "rollback"
    BY DEF Fault, commit_fails, pager_error, finalize_fails, unlock_error, Crash, Forgotten,
       SetState, PInv, DbInv, TypeOK
  <2>5. ViewOf(c)' = None /\ ~IsWriting(c)'
    BY <2>4 DEF ViewOf, IsWriting, InTransaction
  <2> QED
    BY <2>2, <2>3, <2>5, LeaveStep
<1> QED
  BY <1>1, <1>2

\* A commit changes nothing of what the transaction sees: the pages it writes
\* are those of its cache.
LEMMA CommitView ==
  ASSUME PInv, NEW c \in Conn, Commit(c), pc[c] \notin {"finalize", "unlock"}
  PROVE  Same(c)
<1> USE DEF PInv, DbInv
<1>1. /\ ~pending_lock(c) => pc[c] \in PhaseOne \cup {"spill"}
      /\ pending_lock(c) => UNCHANGED <<db, eState, pc, job, cache>>
  BY DEF Commit, pending_lock, exclusive_lock, exclusive_busy, sync_journal, write_header,
     sync_header, spill_page, write_page, sync_database, finalize_journal, end_transaction,
     PhaseOne, pager, files
<1>2. CASE pending_lock(c) /\ UNCHANGED <<db, eState, pc, job, cache>>
  BY <1>2 DEF Same, ViewOf, IsWriting, InTransaction, View
<1>3. CASE ~pending_lock(c) /\ pc[c] \in PhaseOne \cup {"spill"}
  <2>1. eState[c] \in Writer /\ job[c] \in {"commit", "spill"}
    BY <1>3 DEF ConnOK, ControlOK, InPhaseOne, RollsBack, PhaseOne, Writer, Opening
  <2>2. /\ eState'[c] \in Writer \cup {"WRITER_FINISHED"} /\ job'[c] \in {"commit", "spill", "none"}
        /\ pc'[c] # "unlock" /\ cache' = cache
    BY <1>3, <2>1 DEF Commit, pending_lock, exclusive_lock, exclusive_busy, sync_journal, write_header,
       sync_header, spill_page, write_page, sync_database, finalize_journal, end_transaction,
       Goto, SetState, PhaseOne, TypeOK, Writer
  <2>3. db' = db \/ \E p \in dirty[c] : WritePage(c, p)
    <3>1. CASE write_page(c)
      <4>1. dirty[c] \in SUBSET Nat /\ dirty[c] # {}
        BY <3>1, PageRange DEF write_page, TypeOK
      <4>2. Min(dirty[c]) \in dirty[c]
        BY <4>1, MinOf
      <4> QED
        BY <3>1, <4>2 DEF write_page
    <3>2. CASE spill_page(c)
      <4>1. job[c] = "spill" /\ WriterImageOK(c)
        BY <2>1, <3>2 DEF ConnOK, ControlOK, InPhaseOne, RollsBack, Writer, Opening, spill_page,
           WriterOK
      <4> QED
        BY <3>2, <4>1 DEF spill_page, WriterImageOK
    <3>3. CASE ~write_page(c) /\ ~spill_page(c)
      BY <3>3 DEF Commit, pending_lock, exclusive_lock, exclusive_busy, sync_journal, write_header,
         sync_header, sync_database, DbSync, finalize_journal, end_transaction, files
    <3> QED
      BY <3>1, <3>2, <3>3
  <2>4. WriterImageOK(c)
    BY <2>1, <1>3 DEF ConnOK, WriterOK, PhaseOne
  <2>5. \A q \in Page : (IF cache'[c][q] = None THEN db'[q] ELSE cache'[c][q]) =
                        (IF cache[c][q] = None THEN db[q] ELSE cache[c][q])
    <3>1. CASE db' = db
      BY <2>2, <3>1
    <3>2. CASE \E p \in dirty[c] : WritePage(c, p)
      <4>1. PICK p \in dirty[c] : WritePage(c, p)
        BY <3>2
      <4>2. cache[c][p] # None /\ \A q \in Page : q # p => db'[q] = db[q]
        BY <2>4, <4>1 DEF WriterImageOK, WritePage, DbWrite
      <4> QED
        BY <2>2, <4>2
    <3> QED
      BY <2>3, <3>1, <3>2
  <2>6. View(c)' = View(c)
    BY <2>5 DEF View
  <2> QED
    BY <1>3, <2>1, <2>2, <2>6 DEF Same, ViewOf, IsWriting, InTransaction, Writer, PhaseOne
<1> QED
  BY <1>1, <1>2, <1>3

LEMMA PhaseOneRefines ==
  ASSUME PInv, PInv', NEW c \in Conn, Commit(c), pc[c] \notin {"finalize", "unlock"}
  PROVE  [Abstract!Next]_Abstract!vars
<1>1. (\A d \in Conn \ {c} : Same(d)) /\ Same(c) /\ UNCHANGED setting
  BY StepSame, CommitView
<1>2. ~CommitPoint(c)
  BY DEF CommitPoint, finalize_journal
<1>3. unlinked' \in {unlinked, None}
  BY DEF Commit, pending_lock, exclusive_lock, exclusive_busy, sync_journal, write_header,
     sync_header, spill_page, write_page, sync_database, finalize_journal, end_transaction, files
<1>4. Committed' = Committed
  BY <1>2, CommitKeepsDb DEF PInv
<1>5. CASE unlinked' = unlinked
  BY <1>1, <1>4, <1>5, PreviousStays, SettleStep
<1>6. CASE unlinked' = None
  <2>1. Previous' = Committed
    BY <1>4, <1>6 DEF Previous, IsHot
  <2> QED
    BY <1>1, <1>4, <2>1, SettleStep
<1> QED
  BY <1>3, <1>5, <1>6


LEMMA RolledBackRefines ==
  ASSUME PInv, PInv', NEW c \in Conn, finalize_journal(c), job[c] # "commit"
  PROVE  [Abstract!Next]_Abstract!vars
<1>1. (\A d \in Conn \ {c} : Same(d)) /\ UNCHANGED setting
  BY StepSame DEF Commit
<1>2. Committed' = Committed
  BY RolledBackKeeps DEF PInv, ImageKept
<1>3. /\ eState[c] = "OPEN" \/ job[c] = "rollback"
      /\ Finalize /\ UNCHANGED <<db, eState, job>>
  BY FinalizeState
<1>4. Same(c)
  BY <1>3 DEF Same, ViewOf, IsWriting, InTransaction
<1>5. Previous' \in {Previous, Committed}
  BY <1>2, <1>3, RolledBackPrevious
<1> QED
  BY <1>1, <1>2, <1>4, <1>5, SettleStep

LEMMA CommitPointRefines ==
  ASSUME PInv, PInv', NEW c \in Conn, CommitPoint(c)
  PROVE  [Abstract!Next]_Abstract!vars
<1>1. (\A d \in Conn \ {c} : Same(d)) /\ UNCHANGED setting
  BY StepSame DEF Commit, CommitPoint
<1>2. /\ job[c] = "commit" /\ pc[c] = "finalize" /\ Finalize
      /\ pc'[c] = "unlock" /\ cache'[c] = cache[c] /\ UNCHANGED <<db, eState, job>>
  BY FinalizeState DEF CommitPoint, PInv, DbInv, TypeOK
<1>3. /\ \A d \in Conn \ {c} : ViewOf(d) = None /\ ~IsWriting(d)
      /\ View(c) = db /\ ViewOf(c) = db /\ IsWriting(c) /\ eState[c] = "WRITER_FINISHED"
      /\ Committed' = db
      /\ Previous' \in {Committed, db} /\ (unlinked' = None => Previous' = db)
  BY <1>2, CommitPointImages
<1>4. View(c)' = View(c)
  BY <1>2 DEF View
<1>5. ViewOf(c)' = ViewOf(c) /\ ~IsWriting(c)'
  BY <1>2, <1>3, <1>4 DEF ViewOf, IsWriting, InTransaction
<1>6. setting.journal_mode = "TRUNCATE" \/ setting.synchronous = "EXTRA" => unlinked' = None
  <2>1. setting.journal_mode \in {"DELETE", "TRUNCATE"}
    BY PagerAssumption DEF PInv, DbInv, TypeOK
  <2> QED
    BY <1>2, <2>1 DEF Finalize
<1> QED
  BY <1>1, <1>3, <1>5, <1>6, CommitStep

LEMMA EndTransactionRefines ==
  ASSUME PInv, PInv', NEW c \in Conn, end_transaction(c)
  PROVE  [Abstract!Next]_Abstract!vars
<1>1. Committed' = Committed /\ Previous' = Previous
  BY StaysCommitted DEF end_transaction, Commit, CommitPoint, finalize_journal, files
<1>2. (\A d \in Conn \ {c} : Same(d)) /\ UNCHANGED setting
  BY StepSame DEF Commit
<1>3. ControlOK(eState[c], pc[c], job[c]) /\ pc[c] = "unlock"
  BY DEF PInv, DbInv, ConnOK, end_transaction
<1>4. /\ job'[c] = "none"
      /\ eState'[c] = IF eState[c] \in {"OPEN", "ERROR"} THEN eState[c] ELSE "READER"
      /\ cache' = cache /\ db' = db
  BY DEF end_transaction, SetState, PInv, DbInv, TypeOK, files
<1>5. CASE eState[c] = "OPEN" /\ job[c] = "recover"
  <2>1. Same(c)
    BY <1>4, <1>5 DEF Same, ViewOf, IsWriting, InTransaction
  <2> QED
    BY <1>1, <1>2, <2>1, SettleStep
<1>6. CASE eState[c] \in Writer /\ job[c] = "rollback"
  <2>1. View(c)' = Committed'
    BY <1>4, <1>6, ReadersViewThen DEF Writer
  <2>2. ViewOf(c) = None /\ ViewOf(c)' = Committed /\ ~IsWriting(c) /\ ~IsWriting(c)'
    BY <1>1, <1>4, <1>6, <2>1 DEF ViewOf, IsWriting, InTransaction, Writer
  <2> QED
    BY <1>1, <1>2, <2>2, BeginReadStep
<1>7. CASE eState[c] = "WRITER_FINISHED" /\ job[c] = "commit"
  <2>1. Same(c)
    BY <1>3, <1>4, <1>7 DEF Same, ViewOf, IsWriting, InTransaction, Writer, View
  <2> QED
    BY <1>1, <1>2, <2>1, SettleStep
<1>8. CASE eState[c] = "ERROR"
  <2>1. Same(c)
    BY <1>4, <1>8 DEF Same, ViewOf, IsWriting, InTransaction
  <2> QED
    BY <1>1, <1>2, <2>1, SettleStep
<1> QED
  BY <1>3, <1>5, <1>6, <1>7, <1>8 DEF ControlOK, Opening, InPhaseOne, RollsBack

LEMMA CommitRefines ==
  ASSUME PInv, PInv', NEW c \in Conn, Commit(c)
  PROVE  [Abstract!Next]_Abstract!vars
<1>1. CASE pc[c] \notin {"finalize", "unlock"}
  BY <1>1, PhaseOneRefines
<1>2. CASE pc[c] = "finalize"
  <2>1. finalize_journal(c) \/ pending_lock(c)
    BY <1>2 DEF Commit, exclusive_lock, exclusive_busy, sync_journal, write_header,
       sync_header, spill_page, write_page, sync_database, end_transaction
  <2> QED
    BY <1>2, <2>1, RolledBackRefines, CommitPointRefines DEF CommitPoint, pending_lock
<1>3. CASE pc[c] = "unlock"
  <2>1. end_transaction(c)
    BY <1>3 DEF Commit, pending_lock, exclusive_lock, exclusive_busy, sync_journal, write_header,
       sync_header, spill_page, write_page, sync_database, finalize_journal
  <2> QED
    BY <2>1, EndTransactionRefines
<1> QED
  BY <1>1, <1>2, <1>3


LEMMA PowerLossRefines ==
  ASSUME PInv, PInv', PowerLoss
  PROVE  [Abstract!Next]_Abstract!vars
<1>1. UNCHANGED setting /\ unlinked' = None
  BY DEF PowerLoss
<1>2. \A d \in Conn : ViewOf(d)' = None /\ ~IsWriting(d)'
  BY DEF PowerLoss, Forgotten, ViewOf, IsWriting, InTransaction
<1>3. Previous' = Committed'
  BY <1>1 DEF Previous, IsHot
<1>4. Committed' \in {Committed, Previous}
  BY PowerLossFiles DEF PInv, DbInv, FilesAfter
<1> QED
  BY <1>1, <1>2, <1>3, <1>4, PowerLossStep

LEMMA NothingRefines ==
  ASSUME UNCHANGED vars
  PROVE  [Abstract!Next]_Abstract!vars
<1>1. UNCHANGED <<db, jrnl, unlinked, eState, pc, job, cache, setting>>
  BY DEF vars, files, pager
<1>2. Committed' = Committed
  BY <1>1, FilesSame
<1>3. Previous' = Previous
  BY <1>1, <1>2 DEF Previous, IsHot, Restored
<1>4. \A d \in Conn : Same(d)
  BY <1>1 DEF Same, ViewOf, IsWriting, InTransaction, View
<1> QED
  BY <1>1, <1>2, <1>3, <1>4, SettleStep

LEMMA AbstractNext == PInv /\ PInv' /\ [Next]_vars => [Abstract!Next]_Abstract!vars
<1> SUFFICES ASSUME PInv, PInv', [Next]_vars PROVE [Abstract!Next]_Abstract!vars
  OBVIOUS
<1>1. CASE UNCHANGED vars
  BY <1>1, NothingRefines
<1>2. CASE PowerLoss
  BY <1>2, PowerLossRefines
<1>3. CASE \E c \in Conn : Call(c) \/ Recover(c) \/ Commit(c) \/ Fault(c)
  BY <1>3, CallRefines, RecoverRefines, CommitRefines, FaultRefines
<1> QED
  BY <1>1, <1>2, <1>3 DEF Next

LEMMA AbstractInit == ASSUME InitialSize > 0, Init PROVE Abstract!Init
<1>1. PInv
  BY PagerInit
<1>2. Committed \in [Page -> Content]
  BY <1>1, CommittedFacts DEF PInv, DbInv
<1>3. Previous = Committed
  BY DEF Init, Previous, IsHot
<1>4. \A c \in Conn : ~InTransaction(c)
  BY DEF Init, InTransaction
<1>5. [c \in Conn |-> IF InTransaction(c) THEN View(c) ELSE None] = [c \in Conn |-> None]
  BY <1>4
<1>6. Writing = {}
  BY <1>4 DEF Writing
<1> QED
  BY <1>2, <1>3, <1>5, <1>6 DEF Abstract!Init

\* The pager is an atomic database for the code above it: commits replace the
\* image as a whole and wait for the readers, who see one image as long as they
\* read, one connection writes at a time, and an I/O error, the end of a process
\* or a power failure leaves the last commit that was answered with success, or
\* undoes it as a whole where journal_mode and synchronous allow that.  A commit
\* whose journal could not be finalized, or not for good, is answered with an
\* error and is kept or undone as a whole (pager_end_transaction()).
THEOREM TheJournalIsAtomic == ASSUME InitialSize > 0 PROVE Spec => ImplementsAtomicDb
<1>1. Init => Abstract!Init
  BY AbstractInit
<1>2. Spec => Abstract!Spec
  BY <1>1, AbstractNext, PagerInvariant, PTL DEF Spec, Abstract!Spec
<1> QED
  BY <1>2 DEF ImplementsAtomicDb
==============================================================================
