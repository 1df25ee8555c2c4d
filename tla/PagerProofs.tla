----------------------------- MODULE PagerProofs -----------------------------
(***************************************************************************)
(* A theorem about Pager for any number of connections, pages and          *)
(* transactions, whatever fails: what a connection does at each step is    *)
(* covered by the lock it holds, so that nobody writes the file under      *)
(* another one.                                                            *)
(***************************************************************************)
EXTENDS Pager, TLAPS

\* the statements of sqlite3PagerSharedLock() before the state is READER
Opening == {"access", "reserved", "remnant", "remnant_unlock", "peek", "recover", "reopen",
            "version"}

(***************************************************************************)
(* The lock level that a state and a statement need.  The file is written  *)
(* only in the states WRITER_DBMOD and WRITER_FINISHED, and by the         *)
(* playback of a hot journal, in the state OPEN.                           *)
(***************************************************************************)
Stands(level, state, label) ==
  /\ state \notin {"OPEN", "ERROR"} \/ label # "idle" => level >= FL!SHARED_LOCK
  /\ state \in Writer \cup {"WRITER_LOCKED", "WRITER_FINISHED"} => level >= FL!RESERVED_LOCK
  /\ state \in {"WRITER_DBMOD", "WRITER_FINISHED"} => level = FL!EXCLUSIVE_LOCK
  /\ label \in {"reopen", "sync", "header", "resync"} => level = FL!EXCLUSIVE_LOCK
  /\ state = "OPEN" /\ label \in {"playback", "finalize", "unlock"} =>
       level = FL!EXCLUSIVE_LOCK
  /\ label \in Opening => state = "OPEN"
  /\ label \in PhaseOne => state \in Writer
  /\ label \in {"pages", "spill"} => state = "WRITER_DBMOD"

LockInv ==
  /\ lock \in [Conn -> FL!LockLevel]
  /\ eState \in [Conn -> States]
  /\ pc \in [Conn -> Labels]
  /\ FL!Compatible
  /\ \A c \in Conn : Stands(lock[c], eState[c], pc[c])

Levels == {FL!NO_LOCK, FL!SHARED_LOCK, FL!RESERVED_LOCK, FL!PENDING_LOCK, FL!EXCLUSIVE_LOCK}

LEMMA LevelRange == FL!LockLevel = Levels
BY SMT DEF FL!LockLevel, Levels, FL!NO_LOCK, FL!SHARED_LOCK, FL!RESERVED_LOCK,
       FL!PENDING_LOCK, FL!EXCLUSIVE_LOCK

(***************************************************************************)
(* The operations of FileLock keep the levels compatible.                  *)
(***************************************************************************)
LEMMA SharedCompatible ==
  ASSUME LockInv, NEW c \in Conn, FL!Shared(c)
  PROVE  FL!Compatible' /\ lock' = [lock EXCEPT ![c] = FL!SHARED_LOCK]
BY SMT DEF LockInv, FL!Shared, FL!Others, FL!Compatible, FL!LockLevel,
   FL!NO_LOCK, FL!SHARED_LOCK, FL!RESERVED_LOCK, FL!PENDING_LOCK, FL!EXCLUSIVE_LOCK

LEMMA ReservedCompatible ==
  ASSUME LockInv, NEW c \in Conn, FL!Reserved(c)
  PROVE  FL!Compatible' /\ lock' = [lock EXCEPT ![c] = FL!RESERVED_LOCK]
BY SMT DEF LockInv, FL!Reserved, FL!Others, FL!Compatible, FL!LockLevel,
   FL!NO_LOCK, FL!SHARED_LOCK, FL!RESERVED_LOCK, FL!PENDING_LOCK, FL!EXCLUSIVE_LOCK

LEMMA PendingCompatible ==
  ASSUME LockInv, NEW c \in Conn, FL!Pending(c)
  PROVE  FL!Compatible' /\ lock' = [lock EXCEPT ![c] = FL!PENDING_LOCK]
BY SMT DEF LockInv, FL!Pending, FL!Others, FL!Compatible, FL!LockLevel,
   FL!NO_LOCK, FL!SHARED_LOCK, FL!RESERVED_LOCK, FL!PENDING_LOCK, FL!EXCLUSIVE_LOCK

LEMMA ExclusiveCompatible ==
  ASSUME LockInv, NEW c \in Conn, FL!Exclusive(c)
  PROVE  FL!Compatible' /\ lock' = [lock EXCEPT ![c] = FL!EXCLUSIVE_LOCK]
BY SMT DEF LockInv, FL!Exclusive, FL!Others, FL!Compatible, FL!LockLevel,
   FL!NO_LOCK, FL!SHARED_LOCK, FL!RESERVED_LOCK, FL!PENDING_LOCK, FL!EXCLUSIVE_LOCK

LEMMA DowngradeCompatible ==
  ASSUME LockInv, NEW c \in Conn, FL!Downgrade(c)
  PROVE  FL!Compatible' /\ lock' = [lock EXCEPT ![c] = FL!SHARED_LOCK]
BY SMT DEF LockInv, FL!Downgrade, FL!Others, FL!Compatible, FL!LockLevel,
   FL!NO_LOCK, FL!SHARED_LOCK, FL!RESERVED_LOCK, FL!PENDING_LOCK, FL!EXCLUSIVE_LOCK

LEMMA ReleaseCompatible ==
  ASSUME LockInv, NEW S \in SUBSET Conn, FL!Release(S)
  PROVE  /\ FL!Compatible'
         /\ lock' = [c \in Conn |-> IF c \in S THEN FL!NO_LOCK ELSE lock[c]]
BY SMT DEF LockInv, FL!Release, FL!Compatible, FL!LockLevel,
   FL!NO_LOCK, FL!SHARED_LOCK, FL!RESERVED_LOCK, FL!PENDING_LOCK, FL!EXCLUSIVE_LOCK

(***************************************************************************)
(* A step of one connection: its new level covers its new state and        *)
(* statement, and the others stand where they stood.                       *)
(***************************************************************************)
LEMMA OneSteps ==
  ASSUME LockInv, NEW c \in Conn,
         NEW level \in Levels, NEW state \in States, NEW label \in Labels,
         lock' = [lock EXCEPT ![c] = level], FL!Compatible',
         eState' = [eState EXCEPT ![c] = state], pc' = [pc EXCEPT ![c] = label],
         Stands(level, state, label)
  PROVE  LockInv'
<1>1. lock' \in [Conn -> FL!LockLevel]
  BY LevelRange DEF LockInv
<1>2. eState' \in [Conn -> States] /\ pc' \in [Conn -> Labels]
  BY DEF LockInv
<1>3. ASSUME NEW d \in Conn PROVE Stands(lock'[d], eState'[d], pc'[d])
  <2>1. CASE d = c
    <3>1. lock'[d] = level /\ eState'[d] = state /\ pc'[d] = label
      BY <2>1 DEF LockInv
    <3> QED
      BY <3>1
  <2>2. CASE d # c
    <3>1. lock'[d] = lock[d] /\ eState'[d] = eState[d] /\ pc'[d] = pc[d]
      BY <2>2 DEF LockInv
    <3> QED
      BY <3>1 DEF LockInv
  <2> QED
    BY <2>1, <2>2
<1> QED
  BY <1>1, <1>2, <1>3 DEF LockInv

\* The level is not touched.
LEMMA LevelKept ==
  ASSUME LockInv, NEW c \in Conn, lock' = lock,
         NEW state \in States, NEW label \in Labels,
         eState' = [eState EXCEPT ![c] = state], pc' = [pc EXCEPT ![c] = label],
         Stands(lock[c], state, label)
  PROVE  LockInv'
<1>1. lock[c] \in Levels /\ lock' = [lock EXCEPT ![c] = lock[c]]
  BY LevelRange DEF LockInv
<1>2. FL!Compatible'
  BY DEF LockInv, FL!Compatible
<1> QED
  BY <1>1, <1>2, OneSteps

\* the level with the statement, or with the state
LEMMA LevelAndStatement ==
  ASSUME LockInv, NEW c \in Conn, NEW level \in Levels, NEW label \in Labels,
         lock' = [lock EXCEPT ![c] = level], FL!Compatible', eState' = eState,
         pc' = [pc EXCEPT ![c] = label], Stands(level, eState[c], label)
  PROVE  LockInv'
<1>1. eState[c] \in States /\ eState' = [eState EXCEPT ![c] = eState[c]]
  BY DEF LockInv
<1> QED
  BY <1>1, OneSteps

LEMMA LevelAndState ==
  ASSUME LockInv, NEW c \in Conn, NEW level \in Levels, NEW state \in States,
         lock' = [lock EXCEPT ![c] = level], FL!Compatible', pc' = pc,
         eState' = [eState EXCEPT ![c] = state], Stands(level, state, pc[c])
  PROVE  LockInv'
<1>1. pc[c] \in Labels /\ pc' = [pc EXCEPT ![c] = pc[c]]
  BY DEF LockInv
<1> QED
  BY <1>1, OneSteps

\* the statement, or the state, alone
LEMMA StatementOnly ==
  ASSUME LockInv, NEW c \in Conn, lock' = lock, eState' = eState,
         NEW label \in Labels, pc' = [pc EXCEPT ![c] = label],
         Stands(lock[c], eState[c], label)
  PROVE  LockInv'
<1>1. eState[c] \in States /\ eState' = [eState EXCEPT ![c] = eState[c]]
  BY DEF LockInv
<1> QED
  BY <1>1, LevelKept

LEMMA StateOnly ==
  ASSUME LockInv, NEW c \in Conn, lock' = lock, pc' = pc,
         NEW state \in States, eState' = [eState EXCEPT ![c] = state],
         Stands(lock[c], state, pc[c])
  PROVE  LockInv'
<1>1. pc[c] \in Labels /\ pc' = [pc EXCEPT ![c] = pc[c]]
  BY DEF LockInv
<1> QED
  BY <1>1, LevelKept

LEMMA NothingMoves ==
  ASSUME LockInv, UNCHANGED <<lock, eState, pc>>
  PROVE  LockInv'
BY DEF LockInv, FL!Compatible

LEMMA LockInit == Init => LockInv
<1> SUFFICES ASSUME Init PROVE LockInv
  OBVIOUS
<1>1. /\ lock = [c \in Conn |-> FL!NO_LOCK]
      /\ eState = [c \in Conn |-> "OPEN"] /\ pc = [c \in Conn |-> "idle"]
  BY DEF Init, FL!Init
<1>2. Stands(FL!NO_LOCK, "OPEN", "idle")
  BY DEF Stands, Writer, Opening, PhaseOne
<1>3. FL!Compatible
  BY <1>1, SMT DEF FL!Compatible, FL!NO_LOCK, FL!RESERVED_LOCK, FL!EXCLUSIVE_LOCK
<1> QED
  BY <1>1, <1>2, <1>3, LevelRange DEF LockInv, Levels, States, Labels

-----------------------------------------------------------------------------
(***************************************************************************)
(* What the connection's step makes of its own level, state and statement. *)
(***************************************************************************)
LEMMA Now ==
  ASSUME LockInv, NEW c \in Conn
  PROVE  /\ Stands(lock[c], eState[c], pc[c])
         /\ lock[c] \in Levels /\ eState[c] \in States /\ pc[c] \in Labels
         /\ eState = [eState EXCEPT ![c] = eState[c]] /\ pc = [pc EXCEPT ![c] = pc[c]]
BY LevelRange DEF LockInv

LEMMA ReleaseOne ==
  ASSUME LockInv, NEW c \in Conn, FL!Release({c})
  PROVE  FL!Compatible' /\ lock' = [lock EXCEPT ![c] = FL!NO_LOCK]
<1>1. /\ FL!Compatible'
      /\ lock' = [d \in Conn |-> IF d \in {c} THEN FL!NO_LOCK ELSE lock[d]]
  BY ReleaseCompatible
<1> QED
  BY <1>1 DEF LockInv

LEMMA RecoverKeeps ==
  ASSUME LockInv, NEW c \in Conn, Recover(c)
  PROVE  LockInv'
<1>1. CASE access_journal(c) \/ check_reserved(c) \/ peek_journal(c)
  <2>1. PICK label \in {"version", "reserved", "remnant", "peek", "recover"} :
          /\ pc[c] \in {"access", "reserved", "peek"} /\ UNCHANGED <<lock, eState>>
          /\ pc' = [pc EXCEPT ![c] = label]
    BY <1>1 DEF access_journal, check_reserved, peek_journal, Goto
  <2>2. Stands(lock[c], eState[c], pc[c])
    BY Now
  <2>3. lock[c] >= FL!SHARED_LOCK /\ eState[c] = "OPEN"
    BY <2>1, <2>2 DEF Stands, Opening
  <2>4. Stands(lock[c], eState[c], label)
    BY <2>1, <2>3 DEF Stands, Writer, Opening, PhaseOne
  <2>5. label \in Labels
    BY DEF Labels
  <2> QED
    BY <2>1, <2>4, <2>5, StatementOnly
<1>2. CASE delete_remnant(c)
  <2>1. pc[c] = "remnant" /\ UNCHANGED eState
    BY <1>2 DEF delete_remnant
  <2>2. CASE FL!Reserved(c) /\ Goto(c, "remnant_unlock")
    <3>1. pc' = [pc EXCEPT ![c] = "remnant_unlock"]
      BY <2>2 DEF Goto
    <3>2. Stands(FL!RESERVED_LOCK, eState[c], "remnant_unlock")
      BY <2>1, Now DEF Stands, Writer, Opening, PhaseOne,
         FL!NO_LOCK, FL!SHARED_LOCK, FL!RESERVED_LOCK, FL!PENDING_LOCK, FL!EXCLUSIVE_LOCK
    <3>3. FL!Compatible' /\ lock' = [lock EXCEPT ![c] = FL!RESERVED_LOCK]
          /\ FL!RESERVED_LOCK \in Levels
      BY <2>2, ReservedCompatible DEF Levels
    <3> QED
      BY <2>1, <3>1, <3>2, <3>3, LevelAndStatement DEF Labels
  <2>3. CASE Goto(c, "version") /\ UNCHANGED lock
    <3>1. pc' = [pc EXCEPT ![c] = "version"]
      BY <2>3 DEF Goto
    <3>2. Stands(lock[c], eState[c], "version")
      BY <2>1, Now DEF Stands, Writer, Opening, PhaseOne,
         FL!NO_LOCK, FL!SHARED_LOCK, FL!RESERVED_LOCK, FL!PENDING_LOCK, FL!EXCLUSIVE_LOCK
    <3> QED
      BY <2>1, <2>3, <3>1, <3>2, StatementOnly DEF Labels
  <2> QED
    BY <1>2, <2>2, <2>3 DEF delete_remnant
<1>3. CASE remnant_unlock(c)
  <2>1. /\ pc[c] = "remnant_unlock" /\ UNCHANGED eState /\ FL!Downgrade(c)
        /\ pc' = [pc EXCEPT ![c] = "version"]
    BY <1>3 DEF remnant_unlock, Goto
  <2>2. Stands(FL!SHARED_LOCK, eState[c], "version")
    BY <2>1, Now DEF Stands, Writer, Opening, PhaseOne,
         FL!NO_LOCK, FL!SHARED_LOCK, FL!RESERVED_LOCK, FL!PENDING_LOCK, FL!EXCLUSIVE_LOCK
  <2>3. FL!Compatible' /\ lock' = [lock EXCEPT ![c] = FL!SHARED_LOCK] /\ FL!SHARED_LOCK \in Levels
    BY <2>1, DowngradeCompatible DEF Levels
  <2> QED
    BY <2>1, <2>2, <2>3, LevelAndStatement DEF Labels
<1>4. CASE recover_lock(c)
  <2>1. /\ pc[c] = "recover" /\ UNCHANGED eState /\ FL!Exclusive(c)
        /\ pc' = [pc EXCEPT ![c] = "reopen"]
    BY <1>4 DEF recover_lock, Goto
  <2>2. Stands(FL!EXCLUSIVE_LOCK, eState[c], "reopen")
    BY <2>1, Now DEF Stands, Writer, Opening, PhaseOne,
         FL!NO_LOCK, FL!SHARED_LOCK, FL!RESERVED_LOCK, FL!PENDING_LOCK, FL!EXCLUSIVE_LOCK
  <2>3. FL!Compatible' /\ lock' = [lock EXCEPT ![c] = FL!EXCLUSIVE_LOCK] /\ FL!EXCLUSIVE_LOCK \in Levels
    BY <2>1, ExclusiveCompatible DEF Levels
  <2> QED
    BY <2>1, <2>2, <2>3, LevelAndStatement DEF Labels
<1>5. CASE recover_busy(c)
  <2>1. /\ pc[c] = "recover" /\ UNCHANGED eState /\ FL!Release({c})
        /\ pc' = [pc EXCEPT ![c] = "idle"]
    BY <1>5 DEF recover_busy, Goto
  <2>2. Stands(FL!NO_LOCK, eState[c], "idle")
    BY <2>1, Now DEF Stands, Writer, Opening, PhaseOne,
         FL!NO_LOCK, FL!SHARED_LOCK, FL!RESERVED_LOCK, FL!PENDING_LOCK, FL!EXCLUSIVE_LOCK
  <2>3. FL!Compatible' /\ lock' = [lock EXCEPT ![c] = FL!NO_LOCK] /\ FL!NO_LOCK \in Levels
    BY <2>1, ReleaseOne DEF Levels
  <2> QED
    BY <2>1, <2>2, <2>3, LevelAndStatement DEF Labels
<1>6. CASE reopen_journal(c)
  <2>1. pc[c] = "reopen" /\ UNCHANGED eState
    BY <1>6 DEF reopen_journal
  <2>2. CASE jrnl = None
    <3>1. FL!Downgrade(c) /\ pc' = [pc EXCEPT ![c] = "version"]
      BY <1>6, <2>2 DEF reopen_journal, Goto
    <3>2. Stands(FL!SHARED_LOCK, eState[c], "version")
      BY <2>1, Now DEF Stands, Writer, Opening, PhaseOne,
         FL!NO_LOCK, FL!SHARED_LOCK, FL!RESERVED_LOCK, FL!PENDING_LOCK, FL!EXCLUSIVE_LOCK
    <3>3. FL!Compatible' /\ lock' = [lock EXCEPT ![c] = FL!SHARED_LOCK]
          /\ FL!SHARED_LOCK \in Levels
      BY <3>1, DowngradeCompatible DEF Levels
    <3> QED
      BY <2>1, <3>1, <3>2, <3>3, LevelAndStatement DEF Labels
  <2>3. CASE jrnl # None
    <3>1. UNCHANGED lock /\ pc' = [pc EXCEPT ![c] = "playback"]
      BY <1>6, <2>3 DEF reopen_journal, Goto
    <3>2. Stands(lock[c], eState[c], "playback")
      BY <2>1, Now DEF Stands, Writer, Opening, PhaseOne,
         FL!NO_LOCK, FL!SHARED_LOCK, FL!RESERVED_LOCK, FL!PENDING_LOCK, FL!EXCLUSIVE_LOCK
    <3> QED
      BY <2>1, <3>1, <3>2, StatementOnly DEF Labels
  <2> QED
    BY <2>2, <2>3
<1>7. CASE playback_header(c) \/ playback_one_page(c)
  BY <1>7, NothingMoves DEF playback_header, playback_one_page
<1>8. CASE playback_end(c)
  <2>1. /\ pc[c] = "playback" /\ UNCHANGED <<lock, eState>>
        /\ pc' = [pc EXCEPT ![c] = "finalize"]
    BY <1>8 DEF playback_end, Goto
  <2>2. Stands(lock[c], eState[c], "finalize")
    BY <2>1, Now DEF Stands, Writer, Opening, PhaseOne,
         FL!NO_LOCK, FL!SHARED_LOCK, FL!RESERVED_LOCK, FL!PENDING_LOCK, FL!EXCLUSIVE_LOCK
  <2> QED
    BY <2>1, <2>2, StatementOnly DEF Labels
<1>9. CASE check_version(c)
  <2>1. /\ pc[c] = "version" /\ UNCHANGED lock
        /\ eState' = [eState EXCEPT ![c] = "READER"] /\ pc' = [pc EXCEPT ![c] = "page1"]
    BY <1>9 DEF check_version, Goto, SetState
  <2>2. Stands(lock[c], "READER", "page1")
    BY <2>1, Now DEF Stands, Writer, Opening, PhaseOne,
         FL!NO_LOCK, FL!SHARED_LOCK, FL!RESERVED_LOCK, FL!PENDING_LOCK, FL!EXCLUSIVE_LOCK
  <2>3. "READER" \in States /\ "page1" \in Labels
    BY <2>1 DEF Labels, States
  <2> QED
    BY <2>1, <2>2, <2>3, LevelKept
<1>10. CASE get_page1(c)
  <2>1. /\ pc[c] = "page1" /\ UNCHANGED <<lock, eState>>
        /\ pc' = [pc EXCEPT ![c] = "idle"]
    BY <1>10 DEF get_page1, Goto
  <2>2. Stands(lock[c], eState[c], "idle")
    BY <2>1, Now DEF Stands, Writer, Opening, PhaseOne,
         FL!NO_LOCK, FL!SHARED_LOCK, FL!RESERVED_LOCK, FL!PENDING_LOCK, FL!EXCLUSIVE_LOCK
  <2> QED
    BY <2>1, <2>2, StatementOnly DEF Labels
<1> QED
  BY <1>1, <1>2, <1>3, <1>4, <1>5, <1>6, <1>7, <1>8, <1>9, <1>10 DEF Recover

LEMMA CommitKeeps ==
  ASSUME LockInv, NEW c \in Conn, Commit(c)
  PROVE  LockInv'
<1>1. CASE pending_lock(c)
  <2>1. /\ pc[c] = "lock" /\ UNCHANGED <<eState, pc>> /\ FL!Pending(c)
        /\ lock[c] = FL!RESERVED_LOCK
    BY <1>1 DEF pending_lock, pager, FL!Pending
  <2>2. Stands(FL!PENDING_LOCK, eState[c], pc[c])
    BY <2>1, Now DEF Stands, Writer, Opening, PhaseOne,
         FL!NO_LOCK, FL!SHARED_LOCK, FL!RESERVED_LOCK, FL!PENDING_LOCK, FL!EXCLUSIVE_LOCK
  <2>3. FL!Compatible' /\ lock' = [lock EXCEPT ![c] = FL!PENDING_LOCK] /\ FL!PENDING_LOCK \in Levels
    BY <2>1, PendingCompatible DEF Levels
  <2>4. pc[c] \in Labels /\ pc' = [pc EXCEPT ![c] = pc[c]]
    BY <2>1, Now
  <2> QED
    BY <2>1, <2>2, <2>3, <2>4, LevelAndStatement
<1>2. CASE exclusive_lock(c)
  <2>1. PICK label \in {"header", "sync"} :
          pc[c] = "lock" /\ UNCHANGED eState /\ pc' = [pc EXCEPT ![c] = label]
    BY <1>2 DEF exclusive_lock, Goto
  <2>2. Stands(FL!EXCLUSIVE_LOCK, eState[c], label)
    BY <2>1, Now DEF Stands, Writer, Opening, PhaseOne,
         FL!NO_LOCK, FL!SHARED_LOCK, FL!RESERVED_LOCK, FL!PENDING_LOCK, FL!EXCLUSIVE_LOCK
  <2>3. CASE FL!Exclusive(c)
    <3>1. FL!Compatible' /\ lock' = [lock EXCEPT ![c] = FL!EXCLUSIVE_LOCK]
          /\ FL!EXCLUSIVE_LOCK \in Levels
      BY <2>3, ExclusiveCompatible DEF Levels
    <3> QED
      BY <2>1, <2>2, <3>1, LevelAndStatement DEF Labels
  <2>4. CASE lock[c] = FL!EXCLUSIVE_LOCK /\ UNCHANGED lock
    BY <2>1, <2>2, <2>4, StatementOnly DEF Labels
  <2> QED
    BY <1>2, <2>3, <2>4 DEF exclusive_lock
<1>3. CASE exclusive_busy(c)
  <2>1. /\ pc[c] = "lock" /\ UNCHANGED <<lock, eState>>
        /\ pc' = [pc EXCEPT ![c] = "idle"]
    BY <1>3 DEF exclusive_busy, Goto
  <2>2. Stands(lock[c], eState[c], "idle")
    BY <2>1, Now DEF Stands, Writer, Opening, PhaseOne,
         FL!NO_LOCK, FL!SHARED_LOCK, FL!RESERVED_LOCK, FL!PENDING_LOCK, FL!EXCLUSIVE_LOCK
  <2> QED
    BY <2>1, <2>2, StatementOnly DEF Labels
<1>4. CASE sync_journal(c) \/ write_header(c)
  <2>1. PICK label \in {"header", "resync"} :
          /\ pc[c] \in {"sync", "header"} /\ UNCHANGED <<lock, eState>>
          /\ pc' = [pc EXCEPT ![c] = label]
    BY <1>4 DEF sync_journal, write_header, Goto
  <2>2. Stands(lock[c], eState[c], label)
    BY <2>1, Now DEF Stands, Writer, Opening, PhaseOne,
         FL!NO_LOCK, FL!SHARED_LOCK, FL!RESERVED_LOCK, FL!PENDING_LOCK, FL!EXCLUSIVE_LOCK
  <2> QED
    BY <2>1, <2>2, StatementOnly DEF Labels
<1>5. CASE sync_header(c)
  <2>1. PICK label \in {"pages", "spill"} :
          /\ pc[c] = "resync" /\ UNCHANGED lock
          /\ eState' = [eState EXCEPT ![c] = "WRITER_DBMOD"] /\ pc' = [pc EXCEPT ![c] = label]
    BY <1>5 DEF sync_header, Goto, SetState
  <2>2. Stands(lock[c], "WRITER_DBMOD", label)
    BY <2>1, Now DEF Stands, Writer, Opening, PhaseOne,
         FL!NO_LOCK, FL!SHARED_LOCK, FL!RESERVED_LOCK, FL!PENDING_LOCK, FL!EXCLUSIVE_LOCK
  <2>3. "WRITER_DBMOD" \in States /\ label \in Labels
    BY <2>1 DEF Labels, States
  <2> QED
    BY <2>1, <2>2, <2>3, LevelKept
<1>6. CASE spill_page(c)
  <2>1. /\ pc[c] = "spill" /\ UNCHANGED <<lock, eState>>
        /\ pc' = [pc EXCEPT ![c] = "idle"]
    BY <1>6 DEF spill_page, Goto
  <2>2. Stands(lock[c], eState[c], "idle")
    BY <2>1, Now DEF Stands, Writer, Opening, PhaseOne,
         FL!NO_LOCK, FL!SHARED_LOCK, FL!RESERVED_LOCK, FL!PENDING_LOCK, FL!EXCLUSIVE_LOCK
  <2> QED
    BY <2>1, <2>2, StatementOnly DEF Labels
<1>7. CASE write_page(c)
  BY <1>7, NothingMoves DEF write_page
<1>8. CASE sync_database(c)
  <2>1. /\ pc[c] = "pages" /\ UNCHANGED lock
        /\ eState' = [eState EXCEPT ![c] = "WRITER_FINISHED"]
        /\ pc' = [pc EXCEPT ![c] = "finalize"]
    BY <1>8 DEF sync_database, Goto, SetState
  <2>2. Stands(lock[c], "WRITER_FINISHED", "finalize")
    BY <2>1, Now DEF Stands, Writer, Opening, PhaseOne,
         FL!NO_LOCK, FL!SHARED_LOCK, FL!RESERVED_LOCK, FL!PENDING_LOCK, FL!EXCLUSIVE_LOCK
  <2>3. "WRITER_FINISHED" \in States /\ "finalize" \in Labels
    BY <2>1 DEF Labels, States
  <2> QED
    BY <2>1, <2>2, <2>3, LevelKept
<1>9. CASE finalize_journal(c)
  <2>1. /\ pc[c] = "finalize" /\ UNCHANGED <<lock, eState>>
        /\ pc' = [pc EXCEPT ![c] = "unlock"]
    BY <1>9 DEF finalize_journal, Goto
  <2>2. Stands(lock[c], eState[c], "unlock")
    BY <2>1, Now DEF Stands, Writer, Opening, PhaseOne,
         FL!NO_LOCK, FL!SHARED_LOCK, FL!RESERVED_LOCK, FL!PENDING_LOCK, FL!EXCLUSIVE_LOCK
  <2> QED
    BY <2>1, <2>2, StatementOnly DEF Labels
<1>10. CASE end_transaction(c)
  <2>1. PICK state \in {"OPEN", "READER", "ERROR"}, label \in {"version", "idle"} :
          /\ label = "version" <=> state = "OPEN"
          /\ FL!Downgrade(c)
          /\ eState' = [eState EXCEPT ![c] = state] /\ pc' = [pc EXCEPT ![c] = label]
    BY <1>10 DEF end_transaction, Goto, SetState
  <2>2. Stands(FL!SHARED_LOCK, state, label)
    BY <2>1, Now DEF Stands, Writer, Opening, PhaseOne,
         FL!NO_LOCK, FL!SHARED_LOCK, FL!RESERVED_LOCK, FL!PENDING_LOCK, FL!EXCLUSIVE_LOCK
  <2>3. FL!Compatible' /\ lock' = [lock EXCEPT ![c] = FL!SHARED_LOCK] /\ FL!SHARED_LOCK \in Levels
    BY <2>1, DowngradeCompatible DEF Levels
  <2>4. state \in States /\ label \in Labels
    BY <2>1 DEF Labels, States
  <2> QED
    BY <2>1, <2>2, <2>3, <2>4, OneSteps
<1> QED
  BY <1>1, <1>2, <1>3, <1>4, <1>5, <1>6, <1>7, <1>8, <1>9, <1>10 DEF Commit

LEMMA CallKeeps ==
  ASSUME LockInv, NEW c \in Conn, Call(c)
  PROVE  LockInv'
<1>1. CASE shared_lock(c)
  <2>1. /\ eState[c] = "OPEN" /\ UNCHANGED eState /\ FL!Shared(c)
        /\ pc' = [pc EXCEPT ![c] = "access"]
    BY <1>1 DEF shared_lock, Goto
  <2>2. Stands(FL!SHARED_LOCK, eState[c], "access")
    BY <2>1, Now DEF Stands, Writer, Opening, PhaseOne,
         FL!NO_LOCK, FL!SHARED_LOCK, FL!RESERVED_LOCK, FL!PENDING_LOCK, FL!EXCLUSIVE_LOCK
  <2>3. FL!Compatible' /\ lock' = [lock EXCEPT ![c] = FL!SHARED_LOCK] /\ FL!SHARED_LOCK \in Levels
    BY <2>1, SharedCompatible DEF Levels
  <2> QED
    BY <2>1, <2>2, <2>3, LevelAndStatement DEF Labels
<1>2. CASE end_read(c)
  <2>1. /\ pc[c] = "idle" /\ UNCHANGED pc /\ FL!Release({c})
        /\ eState' = [eState EXCEPT ![c] = "OPEN"]
    BY <1>2 DEF end_read, SetState
  <2>2. Stands(FL!NO_LOCK, "OPEN", pc[c])
    BY <2>1, Now DEF Stands, Writer, Opening, PhaseOne,
         FL!NO_LOCK, FL!SHARED_LOCK, FL!RESERVED_LOCK, FL!PENDING_LOCK, FL!EXCLUSIVE_LOCK
  <2>3. FL!Compatible' /\ lock' = [lock EXCEPT ![c] = FL!NO_LOCK] /\ FL!NO_LOCK \in Levels
    BY <2>1, ReleaseOne DEF Levels
  <2> QED
    BY <2>1, <2>2, <2>3, LevelAndState DEF States
<1>3. CASE end_unchanged(c)
  <2>1. /\ pc[c] = "idle" /\ UNCHANGED pc /\ FL!Downgrade(c)
        /\ eState' = [eState EXCEPT ![c] = "READER"]
    BY <1>3 DEF end_unchanged, SetState
  <2>2. Stands(FL!SHARED_LOCK, "READER", pc[c])
    BY <2>1, Now DEF Stands, Writer, Opening, PhaseOne,
         FL!NO_LOCK, FL!SHARED_LOCK, FL!RESERVED_LOCK, FL!PENDING_LOCK, FL!EXCLUSIVE_LOCK
  <2>3. FL!Compatible' /\ lock' = [lock EXCEPT ![c] = FL!SHARED_LOCK] /\ FL!SHARED_LOCK \in Levels
    BY <2>1, DowngradeCompatible DEF Levels
  <2> QED
    BY <2>1, <2>2, <2>3, LevelAndState DEF States
<1>4. CASE sqlite3PagerBegin(c)
  <2>1. /\ pc[c] = "idle" /\ UNCHANGED pc /\ FL!Reserved(c)
        /\ eState' = [eState EXCEPT ![c] = "WRITER_LOCKED"]
    BY <1>4 DEF sqlite3PagerBegin, SetState
  <2>2. Stands(FL!RESERVED_LOCK, "WRITER_LOCKED", pc[c])
    BY <2>1, Now DEF Stands, Writer, Opening, PhaseOne,
         FL!NO_LOCK, FL!SHARED_LOCK, FL!RESERVED_LOCK, FL!PENDING_LOCK, FL!EXCLUSIVE_LOCK
  <2>3. FL!Compatible' /\ lock' = [lock EXCEPT ![c] = FL!RESERVED_LOCK] /\ FL!RESERVED_LOCK \in Levels
    BY <2>1, ReservedCompatible DEF Levels
  <2> QED
    BY <2>1, <2>2, <2>3, LevelAndState DEF States
<1>5. CASE sqlite3PagerCommitPhaseOne(c)
  <2>1. /\ pc[c] = "idle" /\ eState[c] \in Writer /\ UNCHANGED lock
        /\ eState' = [eState EXCEPT ![c] = eState[c]] /\ pc' = [pc EXCEPT ![c] = "lock"]
    BY <1>5 DEF sqlite3PagerCommitPhaseOne, Change, Goto, SetState, Writer
  <2>2. Stands(lock[c], eState[c], "lock")
    BY <2>1, Now DEF Stands, Writer, Opening, PhaseOne,
         FL!NO_LOCK, FL!SHARED_LOCK, FL!RESERVED_LOCK, FL!PENDING_LOCK, FL!EXCLUSIVE_LOCK
  <2> QED
    BY <2>1, <2>2, Now, LevelKept DEF Labels
<1>6. CASE sqlite3PagerRollback(c)
  <2>1. /\ eState[c] \in Writer /\ pc[c] = "idle" /\ UNCHANGED <<lock, eState>>
        /\ pc' = [pc EXCEPT ![c] = "playback"]
    BY <1>6 DEF sqlite3PagerRollback, Goto
  <2>2. Stands(lock[c], eState[c], "playback")
    BY <2>1, Now DEF Stands, Writer, Opening, PhaseOne,
         FL!NO_LOCK, FL!SHARED_LOCK, FL!RESERVED_LOCK, FL!PENDING_LOCK, FL!EXCLUSIVE_LOCK
  <2> QED
    BY <2>1, <2>2, StatementOnly DEF Labels
<1>7. ASSUME NEW p \in Page, sqlite3PagerGet(c, p) \/ recycle_page(c, p) PROVE LockInv'
  BY <1>7, NothingMoves DEF sqlite3PagerGet, recycle_page
<1>8. ASSUME NEW p \in Page, pager_write(c, p) PROVE LockInv'
  <2>1. PICK state \in Writer :
          /\ pc[c] = "idle" /\ UNCHANGED <<lock, pc>>
          /\ IF eState[c] = "WRITER_LOCKED" THEN state = "WRITER_CACHEMOD" ELSE state = eState[c]
          /\ eState' = [eState EXCEPT ![c] = state]
    BY <1>8 DEF pager_write, Change, SetState, Writer
  <2>2. Stands(lock[c], state, pc[c])
    BY <2>1, Now DEF Stands, Writer, Opening, PhaseOne,
         FL!NO_LOCK, FL!SHARED_LOCK, FL!RESERVED_LOCK, FL!PENDING_LOCK, FL!EXCLUSIVE_LOCK
  <2> QED
    BY <2>1, <2>2, StateOnly DEF States, Writer
<1>9. ASSUME NEW p \in Page, pagerStress(c, p) PROVE LockInv'
  <2>1. PICK label \in {"lock", "spill"} :
          /\ pc[c] = "idle" /\ eState[c] \in Writer /\ UNCHANGED <<lock, eState>>
          /\ label = "spill" => eState[c] # "WRITER_CACHEMOD"
          /\ pc' = [pc EXCEPT ![c] = label]
    BY <1>9 DEF pagerStress, Goto
  <2>2. Stands(lock[c], eState[c], label)
    BY <2>1, Now DEF Stands, Writer, Opening, PhaseOne,
         FL!NO_LOCK, FL!SHARED_LOCK, FL!RESERVED_LOCK, FL!PENDING_LOCK, FL!EXCLUSIVE_LOCK
  <2> QED
    BY <2>1, <2>2, StatementOnly DEF Labels
<1> QED
  BY <1>1, <1>2, <1>3, <1>4, <1>5, <1>6, <1>7, <1>8, <1>9 DEF Call

\* The end of a process, of all of them, or of a transaction in state ERROR.
LEMMA ForgottenKeeps ==
  ASSUME LockInv, NEW S \in SUBSET Conn, NEW versions, Forgotten(S, versions)
  PROVE  LockInv'
<1>1. /\ FL!Compatible'
      /\ lock' = [c \in Conn |-> IF c \in S THEN FL!NO_LOCK ELSE lock[c]]
      /\ eState' = [c \in Conn |-> IF c \in S THEN "OPEN" ELSE eState[c]]
      /\ pc' = [c \in Conn |-> IF c \in S THEN "idle" ELSE pc[c]]
  BY ReleaseCompatible DEF Forgotten
<1>2. Stands(FL!NO_LOCK, "OPEN", "idle")
  BY DEF Stands, Writer, Opening, PhaseOne
<1>3. lock' \in [Conn -> FL!LockLevel] /\ eState' \in [Conn -> States] /\ pc' \in [Conn -> Labels]
  BY <1>1, LevelRange DEF LockInv, Levels, States, Labels
<1>4. ASSUME NEW c \in Conn PROVE Stands(lock'[c], eState'[c], pc'[c])
  <2>1. CASE c \in S
    BY <1>1, <1>2, <2>1
  <2>2. CASE c \notin S
    <3>1. lock'[c] = lock[c] /\ eState'[c] = eState[c] /\ pc'[c] = pc[c]
      BY <1>1, <2>2
    <3> QED
      BY <3>1 DEF LockInv
  <2> QED
    BY <2>1, <2>2
<1> QED
  BY <1>1, <1>3, <1>4 DEF LockInv

LEMMA FaultKeeps ==
  ASSUME LockInv, NEW c \in Conn, Fault(c)
  PROVE  LockInv'
<1>1. CASE commit_fails(c)
  <2>1. /\ pc[c] \in PhaseOne /\ UNCHANGED <<lock, eState>>
        /\ pc' = [pc EXCEPT ![c] = "playback"]
    BY <1>1 DEF commit_fails, Goto
  <2>2. Stands(lock[c], eState[c], "playback")
    BY <2>1, Now DEF Stands, Writer, Opening, PhaseOne,
         FL!NO_LOCK, FL!SHARED_LOCK, FL!RESERVED_LOCK, FL!PENDING_LOCK, FL!EXCLUSIVE_LOCK
  <2> QED
    BY <2>1, <2>2, StatementOnly DEF Labels
<1>2. CASE pager_error(c)
  <2>1. /\ UNCHANGED lock /\ eState' = [eState EXCEPT ![c] = "ERROR"]
        /\ pc' = [pc EXCEPT ![c] = "idle"]
    BY <1>2 DEF pager_error, Goto, SetState
  <2>2. Stands(lock[c], "ERROR", "idle")
    BY <2>1, Now DEF Stands, Writer, Opening, PhaseOne,
         FL!NO_LOCK, FL!SHARED_LOCK, FL!RESERVED_LOCK, FL!PENDING_LOCK, FL!EXCLUSIVE_LOCK
  <2>3. "ERROR" \in States /\ "idle" \in Labels
    BY <2>1 DEF Labels, States
  <2> QED
    BY <2>1, <2>2, <2>3, LevelKept
<1>3. CASE unlock_error(c)
  BY <1>3, ForgottenKeeps DEF unlock_error
<1>4. CASE Crash(c)
  BY <1>4, ForgottenKeeps DEF Crash
<1>5. CASE finalize_fails(c)
  <2>1. /\ pc[c] = "finalize" /\ UNCHANGED lock
        /\ eState' = [eState EXCEPT ![c] = "ERROR"] /\ pc' = [pc EXCEPT ![c] = "unlock"]
    BY <1>5 DEF finalize_fails, Goto, SetState
  <2>2. Stands(lock[c], "ERROR", "unlock")
    BY <2>1, Now DEF Stands, Writer, Opening, PhaseOne,
         FL!NO_LOCK, FL!SHARED_LOCK, FL!RESERVED_LOCK, FL!PENDING_LOCK, FL!EXCLUSIVE_LOCK
  <2>3. "ERROR" \in States /\ "unlock" \in Labels
    BY <2>1 DEF Labels, States
  <2> QED
    BY <2>1, <2>2, <2>3, LevelKept
<1> QED
  BY <1>1, <1>2, <1>3, <1>4, <1>5 DEF Fault

LEMMA LockNext == LockInv /\ [Next]_vars => LockInv'
<1> SUFFICES ASSUME LockInv, [Next]_vars PROVE LockInv'
  OBVIOUS
<1>1. CASE UNCHANGED vars
  BY <1>1, NothingMoves DEF vars, pager
<1>2. CASE PowerLoss
  BY <1>2, ForgottenKeeps DEF PowerLoss
<1> QED
  BY <1>1, <1>2, RecoverKeeps, CommitKeeps, CallKeeps, FaultKeeps DEF Next

-----------------------------------------------------------------------------
(***************************************************************************)
(* Whoever changes the file holds EXCLUSIVE.                               *)
(***************************************************************************)
Standing == {"READER", "WRITER_LOCKED", "WRITER_CACHEMOD"}

\* The playback writes the file in the states of WritesDb alone.
LEMMA PlaybackWrites ==
  ASSUME LockInv, NEW c \in Conn, pc[c] = "playback", WritesDb(c)
  PROVE  lock[c] = FL!EXCLUSIVE_LOCK /\ eState[c] \notin Standing
BY Now DEF Stands, WritesDb, Standing

LEMMA RecoverWrites ==
  ASSUME LockInv, NEW c \in Conn, Recover(c), db' # db
  PROVE  lock[c] = FL!EXCLUSIVE_LOCK /\ eState[c] \notin Standing
<1>1. playback_header(c) \/ playback_one_page(c) \/ playback_end(c)
  BY DEF Recover, access_journal, check_reserved, delete_remnant, remnant_unlock,
     peek_journal, recover_lock, recover_busy, reopen_journal, check_version, get_page1, files
<1>2. pc[c] = "playback" /\ WritesDb(c)
  BY <1>1 DEF playback_header, playback_one_page, playback_end
<1> QED
  BY <1>2, PlaybackWrites

LEMMA PagesWritten ==
  ASSUME LockInv, NEW c \in Conn, pc[c] \in {"pages", "spill"}
  PROVE  lock[c] = FL!EXCLUSIVE_LOCK /\ eState[c] \notin Standing
BY Now DEF Stands, Standing

LEMMA CommitWrites ==
  ASSUME LockInv, NEW c \in Conn, Commit(c), db' # db
  PROVE  lock[c] = FL!EXCLUSIVE_LOCK /\ eState[c] \notin Standing
<1>1. spill_page(c) \/ write_page(c) \/ sync_database(c)
  BY DEF Commit, pending_lock, exclusive_lock, exclusive_busy, sync_journal, write_header,
     sync_header, finalize_journal, end_transaction, files
<1>2. pc[c] \in {"pages", "spill"}
  BY <1>1 DEF spill_page, write_page, sync_database
<1> QED
  BY <1>2, PagesWritten

LEMMA FaultWrites ==
  ASSUME LockInv, NEW c \in Conn, Fault(c), db' # db
  PROVE  lock[c] = FL!EXCLUSIVE_LOCK /\ eState[c] \notin Standing
<1>1. pc[c] \in {"pages", "spill"}
  BY DEF Fault, commit_fails, pager_error, finalize_fails, unlock_error, Crash, files
<1> QED
  BY <1>1, PagesWritten

LEMMA CallWritesNothing == ASSUME NEW c \in Conn, Call(c) PROVE db' = db
BY DEF Call, shared_lock, end_read, end_unchanged, sqlite3PagerBegin,
   sqlite3PagerCommitPhaseOne, sqlite3PagerRollback, sqlite3PagerGet, recycle_page,
   pager_write, pagerStress, files

LEMMA StandsStill ==
  ASSUME LockInv, [Next]_vars, NEW c \in Conn, eState[c] \in Standing, eState'[c] # "OPEN"
  PROVE  db' = db
<1> SUFFICES ASSUME db' # db PROVE FALSE
  OBVIOUS
<1>1. ~ PowerLoss
  BY DEF PowerLoss, Forgotten
<1>2. PICK d \in Conn : Recover(d) \/ Commit(d) \/ Fault(d)
  BY <1>1, CallWritesNothing DEF Next, vars, files
<1>3. lock[d] = FL!EXCLUSIVE_LOCK /\ eState[d] \notin Standing
  BY <1>2, RecoverWrites, CommitWrites, FaultWrites
<1>4. d # c
  BY <1>3
<1>5. lock[c] = FL!NO_LOCK
  BY <1>3, <1>4 DEF LockInv, FL!Compatible
<1>6. lock[c] >= FL!SHARED_LOCK
  BY Now DEF Stands, Standing
<1> QED
  BY <1>5, <1>6 DEF FL!NO_LOCK, FL!SHARED_LOCK

(***************************************************************************)
(* While a connection reads, or changes pages in its cache alone, the file *)
(* does not change under it, for any number of connections and whatever    *)
(* fails: the steps that write the file hold EXCLUSIVE, and whoever reads  *)
(* holds SHARED at least.                                                  *)
(***************************************************************************)
THEOREM TheFileStandsStill == Spec => FileStandsStill
<1>1. LockInv /\ [Next]_vars =>
        [\A c \in Conn :
           eState[c] \in {"READER", "WRITER_LOCKED", "WRITER_CACHEMOD"} /\ eState'[c] # "OPEN"
             => db' = db]_vars
  BY StandsStill DEF Standing
<1>2. Spec => [][\A c \in Conn :
           eState[c] \in {"READER", "WRITER_LOCKED", "WRITER_CACHEMOD"} /\ eState'[c] # "OPEN"
             => db' = db]_vars
  BY <1>1, LockInit, LockNext, PTL DEF Spec
<1> QED
  BY <1>2 DEF FileStandsStill
=============================================================================
