------------------------------- MODULE Pager --------------------------------
(***************************************************************************)
(* The rollback-journal protocol of SQLite's pager (pager.c): how one      *)
(* connection per process reads and changes a database file that other     *)
(* processes use as well, and how it recovers from a hot journal.          *)
(*                                                                         *)
(* Between two steps any other connection may run, a process may die, the  *)
(* power may fail, or the call of the step may return an I/O error.  What  *)
(* a write leaves on the disk is undecided until an fsync of its file.     *)
(***************************************************************************)
EXTENDS Integers, Sequences, FiniteSets, FiniteSetsExt

CONSTANTS
  Conn,          \* the connections, each in a process of its own
  MaxPage,       \* bound: the database has at most this many pages
  MaxTxn,        \* bound: write transactions begun in a behaviour
  InitialSize,   \* the pages of the database at the beginning
  Settings,      \* the PRAGMAs that are tried, each [journal_mode, synchronous]
  IoErrors,      \* writes, syncs and deletions may fail
  PowerFailures, \* the power may fail
  None,          \* no journal file, a page that is not in the cache
  Absent,        \* the content of a page behind the end of the file
  Torn           \* the content of a page whose write did not complete

ASSUME PagerAssumption ==
  /\ MaxPage \in Nat /\ MaxTxn \in Nat /\ InitialSize \in 0 .. MaxPage
  /\ {IoErrors, PowerFailures} \subseteq BOOLEAN
  /\ Settings \subseteq [journal_mode : {"DELETE", "TRUNCATE"},
                         synchronous : {"NORMAL", "FULL", "EXTRA"}]
  /\ \A s \in Settings : s.journal_mode = "TRUNCATE" => s.synchronous # "NORMAL"
  /\ Absent # Torn /\ None \notin {Absent, Torn}

VARIABLES
  \* the files
  db,            \* page -> content, as the operating system shows the file
  unsynced,      \* page -> older contents a power failure may bring back
  jrnl,          \* the journal file, or None
  unlinked,      \* a journal deleted or truncated that a power failure may
                 \*   bring back, or None
  lock,          \* connection -> its lock level on the database file
  \* the Pager of each connection
  eState, pc, job, cache, dirty, dbFileVers, journalHdr, at,
  nTxn,          \* write transactions begun so far
  setting        \* the PRAGMAs of all connections, fixed

files == <<db, unsynced, jrnl, unlinked>>
pager == <<eState, pc, job, cache, dirty, dbFileVers, journalHdr, at>>
vars == <<files, lock, pager, nTxn, setting>>

FL == INSTANCE FileLock WITH File <- Conn, ProcessOf <- [c \in Conn |-> c]

Page == 1 .. MaxPage

-----------------------------------------------------------------------------
(* Data *)

\* The change counter and the page count, bytes 24 to 31 of page 1.  The
\* B-tree keeps the page count there; the pager only compares the bytes.
Version == (0 .. MaxTxn + 1) \X (0 .. MaxPage)

\* What a transaction writes into a page, named by the transaction.
Written == [by : 0 .. MaxTxn, vers : Version]
Content == Written \cup {Absent, Torn}

NoVersion == <<0, 0>>
VersionOf(page1) == IF page1 \in {Absent, Torn} THEN NoVersion ELSE page1.vers

Size(image) == Cardinality({p \in Page : image[p] # Absent})

EmptyCache == [p \in Page |-> None]

\* The image a connection sees: its cache, and the file behind it.
View(c) == [p \in Page |-> IF cache[c][p] = None THEN db[p] ELSE cache[c][p]]
dbSize(c) == Size(View(c))

\* The magic number and the number of records of a header are written when the
\* records are complete: counted are the records behind such headers.  synced,
\* syncedMagic and syncedCount are what is known to be on the disk, and entry
\* says that the file is, for its directory entry and for its truncation.
Journal == [magic : BOOLEAN, orig : 0 .. MaxPage, counted : Nat, entry : BOOLEAN,
            recs : Seq([pgno : Page, content : Content]),
            synced : Nat, syncedMagic : BOOLEAN, syncedCount : Nat]

\* None of them is one of the special values.
ASSUME ValueAssumption ==
  /\ None \notin Journal /\ None \notin [Page -> Content]
  /\ Written \cap {None, Absent, Torn} = {}

NewJournal(size, there) ==
  [magic |-> FALSE, orig |-> size, counted |-> 0, entry |-> there, recs |-> <<>>,
   synced |-> 0, syncedMagic |-> FALSE, syncedCount |-> 0]

SyncedJournal(j) ==
  [j EXCEPT !.entry = TRUE, !.synced = Len(j.recs),
            !.syncedMagic = j.magic, !.syncedCount = j.counted]

InJournal == IF jrnl = None THEN {} ELSE {jrnl.recs[i].pgno : i \in DOMAIN jrnl.recs}

IsHot(j) == j # None /\ j.magic

\* What the disk may still hold when the journal file goes and nothing is synced.
LeftBehind == IF jrnl # None /\ jrnl.entry THEN jrnl ELSE unlinked

\* What the playback of a hot journal makes of a database file.
Restored(image, j) ==
  [p \in Page |->
     IF p > j.orig THEN Absent
     ELSE IF \E i \in 1 .. j.counted : j.recs[i].pgno = p
     THEN j.recs[CHOOSE i \in 1 .. j.counted : j.recs[i].pgno = p].content
     ELSE image[p]]

\* xWrite() and xTruncate() of the database file: nothing is on the disk yet.
DbWrite(content) ==
  /\ db' = [p \in Page |-> IF p \in DOMAIN content THEN content[p] ELSE db[p]]
  /\ unsynced' = [p \in Page |->
       IF p \in DOMAIN content THEN unsynced[p] \cup {db[p]} ELSE unsynced[p]]

DbSync ==
  /\ unsynced' = [p \in Page |-> {}]
  /\ UNCHANGED db

-----------------------------------------------------------------------------
(* A connection *)

Init ==
  /\ db = [p \in Page |->
             IF p > InitialSize THEN Absent
             ELSE [by |-> 0, vers |-> IF p = 1 THEN <<1, InitialSize>> ELSE NoVersion]]
  /\ unsynced = [p \in Page |-> {}]
  /\ jrnl = None
  /\ unlinked = None
  /\ FL!Init
  /\ eState = [c \in Conn |-> "OPEN"]
  /\ pc = [c \in Conn |-> "idle"]
  /\ job = [c \in Conn |-> "none"]
  /\ cache = [c \in Conn |-> EmptyCache]
  /\ dirty = [c \in Conn |-> {}]
  /\ dbFileVers = [c \in Conn |-> NoVersion]
  /\ journalHdr = [c \in Conn |-> 0]
  /\ at = [c \in Conn |-> 0]
  /\ nTxn = 0
  /\ setting \in Settings

Writer == {"WRITER_CACHEMOD", "WRITER_DBMOD"}
Goto(c, label) == pc' = [pc EXCEPT ![c] = label]
SetState(c, s) == eState' = [eState EXCEPT ![c] = s]

\* pager_reset()
Reset(c) == cache' = [cache EXCEPT ![c] = EmptyCache]

\* The memory of the connection after pager_unlock() in state ERROR, or in a
\* new process, which knows no version either.
Forgotten(S, versions) ==
  /\ eState' = [c \in Conn |-> IF c \in S THEN "OPEN" ELSE eState[c]]
  /\ pc' = [c \in Conn |-> IF c \in S THEN "idle" ELSE pc[c]]
  /\ job' = [c \in Conn |-> IF c \in S THEN "none" ELSE job[c]]
  /\ cache' = [c \in Conn |-> IF c \in S THEN EmptyCache ELSE cache[c]]
  /\ dirty' = [c \in Conn |-> IF c \in S THEN {} ELSE dirty[c]]
  /\ dbFileVers' = versions
  /\ journalHdr' = [c \in Conn |-> IF c \in S THEN 0 ELSE journalHdr[c]]
  /\ at' = [c \in Conn |-> IF c \in S THEN 0 ELSE at[c]]
  /\ FL!Release(S)

-----------------------------------------------------------------------------
(* sqlite3PagerSharedLock(), hasHotJournal(), pager_playback() of a hot journal *)

shared_lock(c) ==
  /\ pc[c] = "idle" /\ eState[c] = "OPEN"
  /\ FL!Shared(c)
  /\ Goto(c, "access")
  /\ UNCHANGED <<files, eState, job, cache, dirty, dbFileVers, journalHdr, at,
                 nTxn, setting>>

\* xAccess(): is there a journal file?
access_journal(c) ==
  /\ pc[c] = "access"
  /\ Goto(c, IF jrnl = None THEN "version" ELSE "reserved")
  /\ UNCHANGED <<files, lock, eState, job, cache, dirty, dbFileVers, journalHdr, at,
                 nTxn, setting>>

\* Some process holds RESERVED: the journal belongs to a live transaction.
ReservedElsewhere(c) == \E d \in Conn \ {c} : lock[d] >= FL!RESERVED_LOCK

check_reserved(c) ==
  /\ pc[c] = "reserved"
  /\ Goto(c, IF ReservedElsewhere(c) THEN "version"
             ELSE IF Size(db) = 0 THEN "remnant"
             ELSE "peek")
  /\ UNCHANGED <<files, lock, eState, job, cache, dirty, dbFileVers, journalHdr, at,
                 nTxn, setting>>

\* The journal of an empty database is deleted.
delete_remnant(c) ==
  /\ pc[c] = "remnant"
  /\ \/ FL!Reserved(c) /\ jrnl' = None /\ unlinked' = LeftBehind /\ Goto(c, "remnant_unlock")
     \/ ReservedElsewhere(c) /\ Goto(c, "version") /\ UNCHANGED <<jrnl, unlinked, lock>>
  /\ UNCHANGED <<db, unsynced>>
  /\ UNCHANGED <<eState, job, cache, dirty, dbFileVers, journalHdr, at, nTxn, setting>>

remnant_unlock(c) ==
  /\ pc[c] = "remnant_unlock"
  /\ FL!Downgrade(c)
  /\ Goto(c, "version")
  /\ UNCHANGED <<files, eState, job, cache, dirty, dbFileVers, journalHdr, at,
                 nTxn, setting>>

\* Only the journal that is gone is taken for hot.
peek_missing(c) ==
  /\ pc[c] = "peek"
  /\ Goto(c, IF jrnl = None THEN "recover" ELSE "version")
  /\ UNCHANGED <<files, lock, eState, job, cache, dirty, dbFileVers, journalHdr, at,
                 nTxn, setting>>

\* A journal that cannot be opened any more is taken for hot as well.
peek_journal(c) ==
  /\ pc[c] = "peek"
  /\ Goto(c, IF jrnl = None \/ IsHot(jrnl) THEN "recover" ELSE "version")
  /\ UNCHANGED <<files, lock, eState, job, cache, dirty, dbFileVers, journalHdr, at,
                 nTxn, setting>>

\* Straight from SHARED to EXCLUSIVE: with RESERVED on the way another reader
\* would take the journal for that of a live transaction.
recover_lock(c) ==
  /\ pc[c] = "recover"
  /\ FL!Exclusive(c)
  /\ Goto(c, "reopen")
  /\ UNCHANGED <<files, eState, job, cache, dirty, dbFileVers, journalHdr, at,
                 nTxn, setting>>

recover_busy(c) ==
  /\ pc[c] = "recover"
  /\ \E d \in Conn \ {c} : lock[d] # FL!NO_LOCK
  /\ FL!Release({c})
  /\ Goto(c, "idle")
  /\ UNCHANGED <<files, eState, job, cache, dirty, dbFileVers, journalHdr, at,
                 nTxn, setting>>

\* The journal is looked for once more, and synced before it is played back: the
\* file, with a truncation before it, and not its directory.
reopen_journal(c) ==
  /\ pc[c] = "reopen"
  /\ IF jrnl = None
     THEN /\ FL!Downgrade(c) /\ Goto(c, "version")
          /\ UNCHANGED <<files, job, journalHdr, at>>
     ELSE /\ jrnl' = [SyncedJournal(jrnl) EXCEPT !.entry = jrnl.entry]
          /\ job' = [job EXCEPT ![c] = "recover"]
          /\ journalHdr' = [journalHdr EXCEPT ![c] = Len(jrnl.recs)]
          /\ at' = [at EXCEPT ![c] = 0]
          /\ Goto(c, "playback")
          /\ unlinked' = IF setting.journal_mode = "TRUNCATE" THEN None ELSE unlinked
          /\ UNCHANGED <<db, unsynced, lock>>
  /\ UNCHANGED <<eState, cache, dirty, dbFileVers, nTxn, setting>>

\* A hot journal is played back as far as its headers count, that of the
\* connection's own transaction to the end of the file.
Records(c) ==
  IF job[c] # "recover" THEN Len(jrnl.recs)
  ELSE IF jrnl.magic THEN jrnl.counted ELSE 0

WritesDb(c) == eState[c] \in {"OPEN", "WRITER_DBMOD", "WRITER_FINISHED"}

\* The first header: the file gets its old size, a reader's cache is dropped.
playback_header(c) ==
  /\ pc[c] = "playback"
  /\ at[c] = 0
  /\ at' = [at EXCEPT ![c] = 1]
  /\ IF WritesDb(c) /\ (job[c] = "recover" => jrnl.magic)
     THEN DbWrite([p \in {q \in Page : q > jrnl.orig /\ db[q] # Absent} |-> Absent])
     ELSE UNCHANGED <<db, unsynced>>
  /\ IF job[c] = "recover" /\ Records(c) > 0 THEN Reset(c) ELSE UNCHANGED cache
  /\ UNCHANGED <<jrnl, unlinked, lock, eState, pc, job, dirty, dbFileVers, journalHdr,
                 nTxn, setting>>

\* pager_playback_one_page(): into the file when the record is known to be on
\* the disk, and into the cache when the page is there.
playback_one_page(c) ==
  /\ pc[c] = "playback"
  /\ at[c] \in 1 .. Records(c)
  /\ LET r == jrnl.recs[at[c]]
         cached == cache[c][r.pgno] # None
     IN  /\ IF WritesDb(c) /\ at[c] <= journalHdr[c]
            THEN DbWrite([p \in {r.pgno} |-> r.content])
            ELSE UNCHANGED <<db, unsynced>>
         /\ cache' = IF cached THEN [cache EXCEPT ![c][r.pgno] = r.content] ELSE cache
         /\ dbFileVers' =
              IF cached /\ r.pgno = 1
              THEN [dbFileVers EXCEPT ![c] = VersionOf(r.content)] ELSE dbFileVers
  /\ at' = [at EXCEPT ![c] = @ + 1]
  /\ UNCHANGED <<jrnl, unlinked, lock, eState, pc, job, dirty, journalHdr, nTxn, setting>>

playback_end(c) ==
  /\ pc[c] = "playback"
  /\ at[c] = Records(c) + 1
  /\ IF WritesDb(c) THEN DbSync ELSE UNCHANGED <<db, unsynced>>
  /\ Goto(c, "finalize")
  /\ UNCHANGED <<jrnl, unlinked, lock, eState, job, cache, dirty, dbFileVers, journalHdr,
                 at, nTxn, setting>>

\* The cache is taken for fresh.
check_no_version(c) ==
  /\ pc[c] = "version"
  /\ SetState(c, "READER")
  /\ Goto(c, "page1")
  /\ UNCHANGED <<files, lock, job, cache, dirty, dbFileVers, journalHdr, at, nTxn, setting>>

\* With SHARED in hand: did the database change since the cache was filled?
check_version(c) ==
  /\ pc[c] = "version"
  /\ IF dbFileVers[c] # VersionOf(db[1]) THEN Reset(c) ELSE UNCHANGED cache
  /\ SetState(c, "READER")
  /\ Goto(c, "page1")
  /\ UNCHANGED <<files, lock, job, dirty, dbFileVers, journalHdr, at, nTxn, setting>>

-----------------------------------------------------------------------------
(* Reading *)

\* A page that is not in the cache is read, a page behind the end is zeroed.
Fetch(c, p) ==
  /\ cache' = [cache EXCEPT ![c][p] = View(c)[p]]
  /\ dbFileVers' = IF p = 1 /\ cache[c][1] = None /\ db[1] # Absent
                   THEN [dbFileVers EXCEPT ![c] = VersionOf(db[1])] ELSE dbFileVers

\* lockBtree() gets page 1 at the start of every transaction and keeps it.
get_page1(c) ==
  /\ pc[c] = "page1"
  /\ Fetch(c, 1)
  /\ Goto(c, "idle")
  /\ UNCHANGED <<files, lock, eState, job, dirty, journalHdr, at, nTxn, setting>>

InUse(c) == pc[c] = "idle" /\ eState[c] \in Writer \cup {"READER", "WRITER_LOCKED"}

sqlite3PagerGet(c, p) ==
  /\ InUse(c)
  /\ cache[c][p] = None /\ p <= dbSize(c)
  /\ Fetch(c, p)
  /\ UNCHANGED <<files, lock, eState, pc, job, dirty, journalHdr, at, nTxn, setting>>

\* The page cache gives the memory of a clean page to another one.
recycle_page(c, p) ==
  /\ InUse(c)
  /\ p # 1 /\ cache[c][p] # None /\ p \notin dirty[c]
  /\ cache' = [cache EXCEPT ![c][p] = None]
  /\ UNCHANGED <<files, lock, eState, pc, job, dirty, dbFileVers, journalHdr, at,
                 nTxn, setting>>

\* The last page is released: pager_unlock().
end_read(c) ==
  /\ pc[c] = "idle" /\ eState[c] = "READER"
  /\ FL!Release({c})
  /\ SetState(c, "OPEN")
  /\ UNCHANGED <<files, pc, job, cache, dirty, dbFileVers, journalHdr, at, nTxn, setting>>

-----------------------------------------------------------------------------
(* Writing *)

sqlite3PagerBegin(c) ==
  /\ pc[c] = "idle" /\ eState[c] = "READER"
  /\ nTxn < MaxTxn
  /\ FL!Reserved(c)
  /\ SetState(c, "WRITER_LOCKED")
  /\ nTxn' = nTxn + 1
  /\ UNCHANGED <<files, pc, job, cache, dirty, dbFileVers, journalHdr, at, setting>>

\* pager_write() and the change of the page by its caller: the journal is opened
\* at the first page, and gets the original of every page the file had.
Change(c, p, content) ==
  LET opened == IF eState[c] = "WRITER_LOCKED"
                THEN NewJournal(dbSize(c), jrnl # None /\ jrnl.entry) ELSE jrnl
      known  == {opened.recs[i].pgno : i \in DOMAIN opened.recs}
      record == [pgno |-> p, content |-> cache[c][p]]
  IN  /\ jrnl' = IF p <= opened.orig /\ p \notin known
                 THEN [opened EXCEPT !.recs = Append(opened.recs, record)] ELSE opened
      /\ journalHdr' = IF eState[c] = "WRITER_LOCKED"
                       THEN [journalHdr EXCEPT ![c] = 0] ELSE journalHdr
      /\ SetState(c, IF eState[c] = "WRITER_LOCKED" THEN "WRITER_CACHEMOD" ELSE eState[c])
      /\ cache' = [cache EXCEPT ![c][p] = content]
      /\ dirty' = [dirty EXCEPT ![c] = @ \cup {p}]

pager_write(c, p) ==
  /\ pc[c] = "idle" /\ eState[c] \in Writer \cup {"WRITER_LOCKED"}
  /\ p <= dbSize(c) + 1
  /\ p <= dbSize(c) => cache[c][p] # None
  /\ Change(c, p, [by |-> nTxn, vers |-> IF p = 1 THEN VersionOf(cache[c][1]) ELSE NoVersion])
  /\ UNCHANGED <<db, unsynced, unlinked, lock, pc, job, dbFileVers, at, nTxn, setting>>

\* PGHDR_NEED_SYNC: the original of the page is behind the last synced header.
NeedSync(c, p) ==
  \E i \in DOMAIN jrnl.recs : jrnl.recs[i].pgno = p /\ i > journalHdr[c]

\* pagerStress(): a dirty page that nobody uses is written to make room.
pagerStress(c, p) ==
  /\ pc[c] = "idle" /\ eState[c] \in Writer
  /\ p \in dirty[c] \ {1}
  /\ job' = [job EXCEPT ![c] = "spill"]
  /\ at' = [at EXCEPT ![c] = p]
  /\ Goto(c, IF eState[c] = "WRITER_CACHEMOD" \/ NeedSync(c, p) THEN "lock" ELSE "spill")
  /\ UNCHANGED <<files, lock, eState, cache, dirty, dbFileVers, journalHdr, nTxn, setting>>

\* The counter of the page is incremented, once more with every attempt to commit.
CommitPhaseOneRecounts(c) ==
  /\ pc[c] = "idle" /\ eState[c] \in Writer
  /\ Change(c, 1, [by |-> nTxn, vers |-> <<VersionOf(cache[c][1])[1] + 1, dbSize(c)>>])
  /\ job' = [job EXCEPT ![c] = "commit"]
  /\ Goto(c, "lock")
  /\ UNCHANGED <<db, unsynced, unlinked, lock, dbFileVers, at, nTxn, setting>>

\* sqlite3PagerCommitPhaseOne(): pager_incr_changecounter() makes page 1 part of
\* the transaction.
sqlite3PagerCommitPhaseOne(c) ==
  /\ pc[c] = "idle" /\ eState[c] \in Writer
  /\ Change(c, 1, [by |-> nTxn, vers |-> <<dbFileVers[c][1] + 1, dbSize(c)>>])
  /\ job' = [job EXCEPT ![c] = "commit"]
  /\ Goto(c, "lock")
  /\ UNCHANGED <<db, unsynced, unlinked, lock, dbFileVers, at, nTxn, setting>>

\* The end of a write transaction that has changed nothing.
end_unchanged(c) ==
  /\ pc[c] = "idle" /\ eState[c] = "WRITER_LOCKED"
  /\ FL!Downgrade(c)
  /\ SetState(c, "READER")
  /\ UNCHANGED <<files, pc, job, cache, dirty, dbFileVers, journalHdr, at, nTxn, setting>>

\* syncJournal(): sqlite3PagerExclusiveLock(), by way of PENDING.
pending_lock(c) ==
  /\ pc[c] = "lock"
  /\ FL!Pending(c)
  /\ UNCHANGED <<files, pager, nTxn, setting>>

\* faulty variant: the readers that are still there do not count
exclusive_unchecked(c) ==
  /\ pc[c] = "lock"
  /\ lock[c] = FL!PENDING_LOCK
  /\ lock' = [lock EXCEPT ![c] = FL!EXCLUSIVE_LOCK]
  /\ Goto(c, IF setting.synchronous = "NORMAL" THEN "header" ELSE "sync")
  /\ UNCHANGED <<files, eState, job, cache, dirty, dbFileVers, journalHdr, at,
                 nTxn, setting>>

exclusive_lock(c) ==
  /\ pc[c] = "lock"
  /\ \/ lock[c] = FL!PENDING_LOCK /\ FL!Exclusive(c)
     \/ lock[c] = FL!EXCLUSIVE_LOCK /\ UNCHANGED lock
  /\ Goto(c, IF setting.synchronous = "NORMAL" THEN "header" ELSE "sync")
  /\ UNCHANGED <<files, eState, job, cache, dirty, dbFileVers, journalHdr, at,
                 nTxn, setting>>

\* SQLITE_BUSY: the transaction stays open, and PENDING stays with it.
exclusive_busy(c) ==
  /\ pc[c] = "lock"
  /\ lock[c] = FL!PENDING_LOCK
  /\ \E d \in Conn \ {c} : lock[d] # FL!NO_LOCK
  /\ Goto(c, "idle")
  /\ job' = [job EXCEPT ![c] = "none"]
  /\ at' = [at EXCEPT ![c] = 0]
  /\ UNCHANGED <<files, lock, eState, cache, dirty, dbFileVers, journalHdr, nTxn, setting>>

\* The first fsync of a journal file syncs its directory, too.
sync_journal(c) ==
  /\ pc[c] = "sync"
  /\ jrnl' = SyncedJournal(jrnl)
  /\ unlinked' = None
  /\ Goto(c, "header")
  /\ UNCHANGED <<db, unsynced, lock, eState, job, cache, dirty, dbFileVers, journalHdr, at,
                 nTxn, setting>>

\* The magic number and nRec of the last header.
write_header(c) ==
  /\ pc[c] = "header"
  /\ jrnl' = [jrnl EXCEPT !.magic = TRUE, !.counted = Len(jrnl.recs)]
  /\ Goto(c, "resync")
  /\ UNCHANGED <<db, unsynced, unlinked, lock, eState, job, cache, dirty, dbFileVers,
                 journalHdr, at, nTxn, setting>>

\* The header is not on the disk when the pages are written.
unsynced_header(c) ==
  /\ pc[c] = "resync"
  /\ journalHdr' = [journalHdr EXCEPT ![c] = Len(jrnl.recs)]
  /\ SetState(c, "WRITER_DBMOD")
  /\ Goto(c, IF job[c] = "commit" THEN "pages" ELSE "spill")
  /\ UNCHANGED <<files, lock, job, cache, dirty, dbFileVers, at, nTxn, setting>>

sync_header(c) ==
  /\ pc[c] = "resync"
  /\ jrnl' = SyncedJournal(jrnl)
  /\ unlinked' = None
  /\ journalHdr' = [journalHdr EXCEPT ![c] = Len(jrnl.recs)]
  /\ SetState(c, "WRITER_DBMOD")
  /\ Goto(c, IF job[c] = "commit" THEN "pages" ELSE "spill")
  /\ UNCHANGED <<db, unsynced, lock, job, cache, dirty, dbFileVers, at, nTxn, setting>>

\* pager_write_pagelist() of one page, of the dirty pages in order.
WritePage(c, p) ==
  /\ DbWrite([q \in {p} |-> cache[c][p]])
  /\ dbFileVers' = IF p = 1 THEN [dbFileVers EXCEPT ![c] = VersionOf(cache[c][1])]
                   ELSE dbFileVers
  /\ dirty' = [dirty EXCEPT ![c] = @ \ {p}]

spill_page(c) ==
  /\ pc[c] = "spill"
  /\ WritePage(c, at[c])
  /\ job' = [job EXCEPT ![c] = "none"]
  /\ at' = [at EXCEPT ![c] = 0]
  /\ Goto(c, "idle")
  /\ UNCHANGED <<jrnl, unlinked, lock, eState, cache, journalHdr, nTxn, setting>>

write_page(c) ==
  /\ pc[c] = "pages"
  /\ dirty[c] # {}
  /\ WritePage(c, Min(dirty[c]))
  /\ UNCHANGED <<jrnl, unlinked, lock, eState, pc, job, cache, journalHdr, at,
                 nTxn, setting>>

\* The journal goes before the pages are on the disk.
unsynced_database(c) ==
  /\ pc[c] = "pages"
  /\ dirty[c] = {}
  /\ SetState(c, "WRITER_FINISHED")
  /\ Goto(c, "finalize")
  /\ UNCHANGED <<files, lock, job, cache, dirty, dbFileVers, journalHdr, at, nTxn, setting>>

sync_database(c) ==
  /\ pc[c] = "pages"
  /\ dirty[c] = {}
  /\ DbSync
  /\ SetState(c, "WRITER_FINISHED")
  /\ Goto(c, "finalize")
  /\ UNCHANGED <<jrnl, unlinked, lock, job, cache, dirty, dbFileVers, journalHdr, at,
                 nTxn, setting>>

-----------------------------------------------------------------------------
(* sqlite3PagerCommitPhaseTwo(), pager_end_transaction() *)

\* The commit point.  A deletion is on the disk only when the directory is.
Finalize ==
  IF setting.journal_mode = "DELETE"
  THEN /\ jrnl' = None
       /\ unlinked' = IF setting.synchronous = "EXTRA" THEN None ELSE LeftBehind
  ELSE /\ jrnl' = NewJournal(0, TRUE)
       /\ unlinked' = None

\* The file is truncated, or deleted, and the sync that follows fails.
FinalizeUnsynced ==
  /\ setting.journal_mode = "TRUNCATE" \/ setting.synchronous = "EXTRA"
  /\ jrnl' = IF setting.journal_mode = "DELETE" THEN None ELSE NewJournal(0, FALSE)
  /\ unlinked' = LeftBehind

\* The cache is clean, and no larger than the database; page 1 is in use and
\* cleared instead of dropped.
CacheTruncate(c, size) ==
  cache' = [cache EXCEPT ![c] =
    [p \in Page |-> IF p <= size THEN cache[c][p]
                    ELSE IF p = 1 /\ cache[c][1] # None THEN Absent ELSE None]]

finalize_journal(c) ==
  /\ pc[c] = "finalize"
  /\ Finalize
  /\ dirty' = [dirty EXCEPT ![c] = {}]
  /\ IF job[c] = "rollback" THEN CacheTruncate(c, jrnl.orig) ELSE UNCHANGED cache
  /\ Goto(c, "unlock")
  /\ UNCHANGED <<db, unsynced, lock, eState, job, dbFileVers, journalHdr, at,
                 nTxn, setting>>

\* The lock goes down to SHARED although the journal could not be finalized.
end_transaction(c) ==
  /\ pc[c] = "unlock"
  /\ FL!Downgrade(c)
  /\ SetState(c, IF eState[c] \in {"OPEN", "ERROR"} THEN eState[c] ELSE "READER")
  /\ Goto(c, IF eState[c] = "OPEN" THEN "version" ELSE "idle")
  /\ job' = [job EXCEPT ![c] = "none"]
  /\ at' = [at EXCEPT ![c] = 0]
  /\ journalHdr' = [journalHdr EXCEPT ![c] = 0]
  /\ UNCHANGED <<files, cache, dirty, dbFileVers, nTxn, setting>>

sqlite3PagerRollback(c) ==
  /\ pc[c] = "idle" /\ eState[c] \in Writer
  /\ job' = [job EXCEPT ![c] = "rollback"]
  /\ at' = [at EXCEPT ![c] = 0]
  /\ Goto(c, "playback")
  /\ UNCHANGED <<files, lock, eState, cache, dirty, dbFileVers, journalHdr, nTxn, setting>>

-----------------------------------------------------------------------------
(* I/O errors *)

\* A write that fails may leave half of the page behind.
HalfWritten(p) == UNCHANGED <<db, unsynced>> \/ DbWrite([q \in {p} |-> Torn])

PhaseOne == {"lock", "sync", "header", "resync", "pages"}

\* The caller of sqlite3PagerCommitPhaseOne() rolls the transaction back.
commit_fails(c) ==
  /\ IoErrors
  /\ job[c] = "commit" /\ pc[c] \in PhaseOne
  /\ IF pc[c] = "pages" /\ dirty[c] # {} THEN HalfWritten(Min(dirty[c]))
     ELSE UNCHANGED <<db, unsynced>>
  /\ job' = [job EXCEPT ![c] = "rollback"]
  /\ at' = [at EXCEPT ![c] = 0]
  /\ Goto(c, "playback")
  /\ UNCHANGED <<jrnl, unlinked, lock, eState, cache, dirty, dbFileVers, journalHdr,
                 nTxn, setting>>

\* pager_error(): the cache is not to be trusted any more.
pager_error(c) ==
  /\ IoErrors
  /\ \/ job[c] = "spill" /\ pc[c] \in PhaseOne /\ UNCHANGED <<db, unsynced>>
     \/ pc[c] = "spill" /\ HalfWritten(at[c])
     \/ pc[c] = "playback" /\ UNCHANGED <<db, unsynced>>
  /\ SetState(c, "ERROR")
  /\ Goto(c, "idle")
  /\ job' = [job EXCEPT ![c] = "none"]
  /\ at' = [at EXCEPT ![c] = 0]
  /\ UNCHANGED <<jrnl, unlinked, lock, cache, dirty, dbFileVers, journalHdr, nTxn, setting>>

\* The journal could not be deleted or truncated, or is gone and may come back:
\* pager_end_transaction() goes on, and its caller keeps the error.
finalize_fails(c) ==
  /\ IoErrors
  /\ pc[c] = "finalize"
  /\ FinalizeUnsynced \/ UNCHANGED <<jrnl, unlinked>>
  /\ SetState(c, "ERROR")
  /\ Goto(c, "unlock")
  /\ job' = [job EXCEPT ![c] = "none"]
  /\ at' = [at EXCEPT ![c] = 0]
  /\ UNCHANGED <<db, unsynced, lock, cache, dirty, dbFileVers, journalHdr, nTxn, setting>>

\* pager_unlock() in state ERROR leaves the journal to the next reader.
unlock_error(c) ==
  /\ pc[c] = "idle" /\ eState[c] = "ERROR"
  /\ Forgotten({c}, dbFileVers)
  /\ UNCHANGED <<files, nTxn, setting>>

-----------------------------------------------------------------------------
(* Crashes *)

\* The files stay as the operating system shows them.
Crash(c) ==
  /\ Forgotten({c}, [dbFileVers EXCEPT ![c] = NoVersion])
  /\ UNCHANGED <<files, nTxn, setting>>

\* What a power failure may leave of a journal file.  A record that is not
\* whole ends the playback by its checksum, as if the header counted no more.
Survivors(j) ==
  LET whole(magic, count) ==
        [NewJournal(j.orig, TRUE) EXCEPT
           !.magic = magic, !.syncedMagic = magic,
           !.counted = count, !.syncedCount = count, !.synced = count,
           !.recs = SubSeq(j.recs, 1, count)]
      reached == Min({j.synced, j.counted}) .. j.counted
  IN  {whole(j.syncedMagic, j.syncedCount)} \cup {whole(j.magic, k) : k \in reached}
      \cup IF j.entry THEN {} ELSE {None}

\* A page whose write was not synced is the old one, the new one, or a mixture.
Remains(p) ==
  unsynced[p] \cup {db[p]} \cup IF unsynced[p] \subseteq {db[p]} THEN {} ELSE {Torn}

PowerLoss ==
  /\ PowerFailures
  /\ db' \in {left \in [Page -> UNION {Remains(p) : p \in Page}] :
               \A p \in Page : left[p] \in Remains(p)}
  /\ unsynced' = [p \in Page |-> {}]
  /\ jrnl' \in (IF jrnl = None THEN {None} ELSE Survivors(jrnl))
               \cup (IF jrnl # None /\ jrnl.entry THEN {} ELSE {unlinked})
  /\ unlinked' = None
  /\ Forgotten(Conn, [c \in Conn |-> NoVersion])
  /\ UNCHANGED <<nTxn, setting>>

-----------------------------------------------------------------------------
Recover(c) ==
  \/ access_journal(c) \/ check_reserved(c) \/ delete_remnant(c) \/ remnant_unlock(c)
  \/ peek_journal(c) \/ recover_lock(c) \/ recover_busy(c) \/ reopen_journal(c)
  \/ playback_header(c) \/ playback_one_page(c) \/ playback_end(c)
  \/ check_version(c) \/ get_page1(c)

Commit(c) ==
  \/ pending_lock(c) \/ exclusive_lock(c) \/ exclusive_busy(c)
  \/ sync_journal(c) \/ write_header(c) \/ sync_header(c)
  \/ spill_page(c) \/ write_page(c) \/ sync_database(c)
  \/ finalize_journal(c) \/ end_transaction(c)

Call(c) ==
  \/ shared_lock(c) \/ end_read(c) \/ end_unchanged(c)
  \/ sqlite3PagerBegin(c) \/ sqlite3PagerCommitPhaseOne(c) \/ sqlite3PagerRollback(c)
  \/ \E p \in Page : \/ sqlite3PagerGet(c, p) \/ recycle_page(c, p)
                     \/ pager_write(c, p) \/ pagerStress(c, p)

Fault(c) ==
  commit_fails(c) \/ pager_error(c) \/ finalize_fails(c) \/ unlock_error(c) \/ Crash(c)

Next ==
  \/ PowerLoss
  \/ \E c \in Conn : Call(c) \/ Recover(c) \/ Commit(c) \/ Fault(c)

Spec == Init /\ [][Next]_vars

\* A process that reads tries again until it gets in; its calls come to an end.
FairSpec ==
  Spec /\ \A c \in Conn : /\ WF_vars(shared_lock(c))
                          /\ WF_vars(Recover(c) \/ Commit(c) \/ unlock_error(c))

-----------------------------------------------------------------------------
(* What the pager promises *)

\* The image that a reader who recovers the database first would find.
Committed == IF IsHot(jrnl) THEN Restored(db, jrnl) ELSE db

States == {"OPEN", "READER", "WRITER_LOCKED", "WRITER_CACHEMOD", "WRITER_DBMOD",
           "WRITER_FINISHED", "ERROR"}
Labels == {"idle", "access", "reserved", "remnant", "remnant_unlock", "peek", "recover",
           "reopen", "playback", "version", "page1", "lock", "sync", "header", "resync",
           "pages", "spill", "finalize", "unlock"}

TypeOK ==
  /\ db \in [Page -> Content]
  /\ unsynced \in [Page -> SUBSET Content]
  /\ {jrnl, unlinked} \subseteq Journal \cup {None}
  /\ lock \in [Conn -> FL!LockLevel]
  /\ eState \in [Conn -> States]
  /\ pc \in [Conn -> Labels]
  /\ job \in [Conn -> {"none", "recover", "commit", "rollback", "spill"}]
  /\ cache \in [Conn -> [Page -> Content \cup {None}]]
  /\ dirty \in [Conn -> SUBSET Page]
  /\ dbFileVers \in [Conn -> Version]
  /\ journalHdr \in [Conn -> Nat]
  /\ at \in [Conn -> Nat]
  /\ nTxn \in 0 .. MaxTxn
  /\ setting \in Settings

\* A page of the file that is not what the last commit made of it has its
\* original in the journal, on the disk and counted by a header on the disk,
\* or is a page the journal's header cuts off (syncJournal() before the write).
OriginalsAreSafe ==
  \A p \in Page :
    unsynced[p] \cup {db[p]} # {Committed[p]} =>
      /\ IsHot(jrnl) /\ jrnl.syncedMagic /\ jrnl.entry
      /\ p > jrnl.orig \/ \E i \in 1 .. Min({jrnl.syncedCount, jrnl.synced}) :
                            jrnl.recs[i] = [pgno |-> p, content |-> Committed[p]]

\* Nobody trusts a cached page that is not the committed one: the change counter
\* finds every change made by others while no lock was held.
CacheIsFresh ==
  \A c \in Conn :
    eState[c] \in {"READER", "WRITER_LOCKED"} =>
      \A p \in Page : cache[c][p] \in {None, Committed[p]}

\* While a connection reads, or changes pages in its cache alone, the file does
\* not change under it: commits, spills and playbacks of others wait for
\* EXCLUSIVE, its own come later (PAGER_READER .. PAGER_WRITER_CACHEMOD).
FileStandsStill ==
  [][\A c \in Conn :
       eState[c] \in {"READER", "WRITER_LOCKED", "WRITER_CACHEMOD"} /\ eState'[c] # "OPEN"
         => db' = db]_vars

\* Once nothing fails any more, a hot journal that a crash left behind is rolled
\* back by the next connection that reads (sqlite3PagerSharedLock()).
Failure ==
  \/ PowerLoss
  \/ \E c \in Conn : commit_fails(c) \/ pager_error(c) \/ finalize_fails(c) \/ Crash(c)
Abandoned == IsHot(jrnl) /\ \A c \in Conn : eState[c] = "OPEN" /\ pc[c] = "idle"
HotJournalIsRolledBack == <>[][~Failure]_vars => (Abandoned ~> ~IsHot(jrnl))

\* Refinement: the committed image, and what each transaction sees.
InTransaction(c) ==
  /\ eState[c] \notin {"OPEN", "ERROR"}
  /\ job[c] # "rollback"

\* The image that a power failure goes back to when it brings the journal of the
\* last commit back.
Previous == IF IsHot(unlinked) THEN Restored(db, unlinked) ELSE Committed

Writing == {c \in Conn : /\ InTransaction(c)
                         /\ eState[c] \in Writer \cup {"WRITER_LOCKED", "WRITER_FINISHED"}
                         /\ pc[c] # "unlock"}

Abstract == INSTANCE AtomicDb WITH
  NoView   <- None,
  durable  <- setting.journal_mode = "TRUNCATE" \/ setting.synchronous = "EXTRA",
  data     <- Committed,
  previous <- Previous,
  view     <- [c \in Conn |-> IF InTransaction(c) THEN View(c) ELSE None],
  writing  <- Writing

ImplementsAtomicDb == Abstract!Spec
=============================================================================
