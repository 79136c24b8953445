---------------------------- MODULE Commands_proofs ----------------------------
(***************************************************************************)
(* Theorems of the commands, for any number of processes, of contents of   *)
(* the rules file, of tweets and of migration statements, and their proofs. *)
(***************************************************************************)
EXTENDS CommandsSafety, FiniteSetTheorems, TLAPS

-------------------------------------------------------------------------------
(***************************************************************************)
(* Type correctness.                                                       *)
(***************************************************************************)

\* An import is a finite set of mentions.
LEMMA MentionsType ==
  ASSUME NEW tweets \in SUBSET Tweets, NEW tickers \in SUBSET Tickers
  PROVE  /\ Mentions(tweets, tickers) \in SUBSET (Tweets \X Tickers)
         /\ Cardinality(Mentions(tweets, tickers)) \in Nat
  <1>1. Mentions(tweets, tickers) \in SUBSET (Tweets \X Tickers)
    BY DEF Mentions
  <1>2. IsFiniteSet(Mentions(tweets, tickers))
    BY <1>1, FS_Subset, CommandsAssumption
  <1> QED BY <1>1, <1>2, FS_CardinalityType

(***************************************************************************)
(* Updates of the locals and of the database keep their types.             *)
(***************************************************************************)

LEMMA LocalsType ==
  /\ Idle \in Locals
  /\ \A s \in Locals, l \in Labels :
       /\ [s EXCEPT !.at = l] \in Locals
       /\ \A x \in Rules : [s EXCEPT !.at = l, !.lock = x] \in Locals
       /\ \A x \in Rules : [s EXCEPT !.at = l, !.rules = x] \in Locals
       /\ \A x \in Rules \cup SUBSET Tweets : [s EXCEPT !.at = l, !.sha = x] \in Locals
       /\ \A x \in SUBSET Tweets : [s EXCEPT !.at = l, !.tweets = x] \in Locals
       /\ \A x \in SUBSET Tickers : [s EXCEPT !.at = l, !.tickers = x] \in Locals
       /\ \A x \in Nat : [s EXCEPT !.at = l, !.cycle = x] \in Locals
       /\ \A x \in {"ok", "error"} : [s EXCEPT !.at = l, !.result = x] \in Locals
  /\ \A s \in Locals, x \in 0..Statements : [s EXCEPT !.done = x] \in Locals
  /\ \A s \in Locals : [s EXCEPT !.quiet = FALSE] \in Locals
  /\ \A cmd \in Command, l \in Labels, mode \in {"paper", "live"} :
       [Idle EXCEPT !.cmd = cmd, !.at = l, !.mode = mode] \in Locals
  <1>1. Idle \in Locals
    BY CommandsAssumption DEF Idle, Labels, Locals
  <1>2. /\ \A s \in Locals, x \in 0..Statements : [s EXCEPT !.done = x] \in Locals
        /\ \A s \in Locals : [s EXCEPT !.quiet = FALSE] \in Locals
    BY DEF Locals
  <1>3. \A s \in Locals, l \in Labels : [s EXCEPT !.at = l] \in Locals
    BY DEF Locals
  <1>4. ASSUME NEW s \in Locals
        PROVE  /\ \A x \in Rules : [s EXCEPT !.lock = x] \in Locals
               /\ \A x \in Rules : [s EXCEPT !.rules = x] \in Locals
               /\ \A x \in Rules \cup SUBSET Tweets : [s EXCEPT !.sha = x] \in Locals
               /\ \A x \in SUBSET Tweets : [s EXCEPT !.tweets = x] \in Locals
               /\ \A x \in SUBSET Tickers : [s EXCEPT !.tickers = x] \in Locals
               /\ \A x \in Nat : [s EXCEPT !.cycle = x] \in Locals
               /\ \A x \in {"ok", "error"} : [s EXCEPT !.result = x] \in Locals
    BY DEF Locals
  <1>5. ASSUME NEW cmd \in Command, NEW l \in Labels, NEW mode \in {"paper", "live"}
        PROVE  [Idle EXCEPT !.cmd = cmd, !.at = l, !.mode = mode] \in Locals
    <2>1. [Idle EXCEPT !.cmd = cmd] \in Locals
      BY <1>1 DEF Locals
    <2>2. [[Idle EXCEPT !.cmd = cmd] EXCEPT !.at = l] \in Locals
      BY <1>3, <2>1
    <2> QED BY <2>2 DEF Locals
  <1> QED BY <1>1, <1>2, <1>3, <1>4, <1>5

LEMMA DatabaseType ==
  ASSUME NEW d \in Database
  PROVE  /\ \A x \in 0..Statements : [d EXCEPT !.tables = x] \in Database
         /\ [d EXCEPT !.version = TRUE] \in Database
         /\ \A x \in SUBSET RuleSetRows : [d EXCEPT !.ruleSets = x] \in Database
         /\ \A x \in SUBSET CycleRows : [d EXCEPT !.cycles = x] \in Database
         /\ \A x \in SUBSET DecisionRows : [d EXCEPT !.decisions = x] \in Database
         /\ \A x \in SUBSET ApprovalRows : [d EXCEPT !.approvals = x] \in Database
         /\ \A x \in SUBSET (Tweets \X Tickers) : [d EXCEPT !.mentions = x] \in Database
         /\ \A x \in SourceRow : [d EXCEPT !.source = x] \in Database
         /\ \A x \in SUBSET ApprovalRows, y \in SUBSET Nat :
              [d EXCEPT !.approvals = x, !.orders = y] \in Database
  <1>1. \A e \in Database, y \in SUBSET Nat : [e EXCEPT !.orders = y] \in Database
    BY DEF Database
  <1>2. \A x \in SUBSET ApprovalRows : [d EXCEPT !.approvals = x] \in Database
    BY DEF Database
  <1>3. \A x \in 0..Statements : [d EXCEPT !.tables = x] \in Database
    BY DEF Database
  <1>4. [d EXCEPT !.version = TRUE] \in Database
    BY DEF Database
  <1>5. /\ \A x \in SUBSET RuleSetRows : [d EXCEPT !.ruleSets = x] \in Database
        /\ \A x \in SUBSET CycleRows : [d EXCEPT !.cycles = x] \in Database
        /\ \A x \in SUBSET DecisionRows : [d EXCEPT !.decisions = x] \in Database
    BY DEF Database
  <1>6. /\ \A x \in SUBSET (Tweets \X Tickers) : [d EXCEPT !.mentions = x] \in Database
        /\ \A x \in SourceRow : [d EXCEPT !.source = x] \in Database
    BY DEF Database
  <1> QED BY <1>1, <1>2, <1>3, <1>4, <1>5, <1>6

(***************************************************************************)
(* One process moves.                                                      *)
(***************************************************************************)
Moved(p, s) == proc' = [proc EXCEPT ![p] = s]

Sound(s) == Located(s) /\ HasRead(s) /\ Agrees(s)

LEMMA IdleSound == Sound(Idle)
  BY DEF Sound, Located, HasRead, Agrees, Idle

\* Nobody moves and no file is edited.
LEMMA SoundStays ==
  ASSUME LocalsSound, UNCHANGED <<proc, rulesFile, tweetsFile>>
  PROVE  LocalsSound'
  <1> SUFFICES ASSUME NEW q \in Procs
               PROVE  Located(proc'[q]) /\ HasRead(proc'[q]) /\ Agrees(proc[q])'
    BY DEF LocalsSound, Located, HasRead
  <1>1. Located(proc[q]) /\ HasRead(proc[q]) /\ Agrees(proc[q])
    BY DEF LocalsSound
  <1>2. Agrees(proc[q])'
    BY <1>1 DEF Agrees
  <1> QED BY <1>1, <1>2

\* Its new locals are sound, and nobody else's change.
LEMMA Move ==
  ASSUME TypeOK, LocalsSound, UNCHANGED <<rulesFile, tweetsFile>>,
         NEW p \in Procs, NEW s \in Locals, Sound(s), Moved(p, s)
  PROVE  /\ proc' \in [Procs -> Locals]
         /\ LocalsSound'
         /\ proc'[p] = s
         /\ \A q \in Procs \ {p} : proc'[q] = proc[q]
  <1>1. proc \in [Procs -> Locals]
    BY DEF TypeOK
  <1>2. /\ proc' \in [Procs -> Locals]
        /\ proc'[p] = s
        /\ \A q \in Procs \ {p} : proc'[q] = proc[q]
    BY <1>1 DEF Moved
  <1>3. ASSUME NEW q \in Procs
        PROVE  Located(proc'[q]) /\ HasRead(proc'[q]) /\ Agrees(proc[q])'
    <2>1. Sound(proc'[q])
      BY <1>2 DEF LocalsSound, Sound
    <2> QED BY <2>1 DEF Sound, Agrees
  <1> QED BY <1>2, <1>3 DEF LocalsSound, Located, HasRead

\* A step that leaves the database alone.
LEMMA FilesStep ==
  ASSUME IInv, UNCHANGED <<rulesFile, tweetsFile, tickersFile, db, edits>>,
         lockFile' \in {NoFile} \cup Rules, started' \in 0..MaxCommands,
         NEW p \in Procs, NEW s \in Locals, Sound(s), Moved(p, s),
         proc[p].at # "mentions", s.at \notin {"mentions", "execute"},
         writer = p => s.at \in {"decide", "execute", "finish"},
         s.done \in {0, proc[p].done}
  PROVE  IInv'
  <1> USE DEF IInv, db
  <1>1. /\ proc' \in [Procs -> Locals]
        /\ LocalsSound'
        /\ proc'[p] = s
        /\ \A q \in Procs \ {p} : proc'[q] = proc[q]
    BY Move
  <1>2. TypeOK'
    BY <1>1 DEF TypeOK
  <1>3. Transactions'
    <2>1. writer # NoProc => proc'[writer].at \in {"mentions", "decide", "execute", "finish"}
      BY <1>1 DEF Transactions, TypeOK
    <2>2. \A q \in Procs : proc'[q].at \in {"mentions", "execute"} => writer = q
      BY <1>1 DEF Transactions, At
    <2>3. work.source # ledger.source => writer # NoProc /\ proc'[writer].at = "mentions"
      BY <1>1, CommandsAssumption DEF Transactions, At, TypeOK
    <2> QED BY <2>1, <2>2, <2>3 DEF Transactions, At
  <1>4. MigrationSound'
    BY <1>1 DEF MigrationSound, VersionMeansSchema, TypeOK, Database
  <1>5. RowsSound'
    BY DEF RowsSound
  <1>6. ImportSound'
    BY <1>1 DEF ImportSound, ImportsAreWhole, At
  <1> QED BY <1>1, <1>2, <1>3, <1>4, <1>5, <1>6

(***************************************************************************)
(* Steps that write to the database.                                       *)
(***************************************************************************)

\* The rows of a database and its last import, apart from what is pending.
RowsOf(d) ==
  /\ \A x \in d.decisions :
       /\ \E r \in d.ruleSets : r.sha = x.sha
       /\ x.quiet => x.rules = x.lock /\ x.sha = x.lock
  /\ \A r \in d.ruleSets : r.quiet => r.content = r.sha

ImportOf(d) ==
  d.source.sha # NoFile /\ d.source.quiet
    => Mentions(d.source.sha, d.source.tickers) \subseteq d.mentions

\* While a process can write, no other one has an import pending.
LEMMA OneWriter ==
  ASSUME IInv, NEW p \in Procs, CanWrite(p)
  PROVE  /\ \A q \in Procs \ {p} : proc[q].at \notin {"mentions", "execute"}
         /\ proc[p].at \notin {"mentions", "decide", "execute", "finish"}
              => writer = NoProc /\ work = ledger
         /\ writer # p => work = ledger
  BY CommandsAssumption DEF IInv, Transactions, CanWrite, At

\* A commit.
LEMMA CommitStep ==
  ASSUME IInv, UNCHANGED <<files, bounds>>,
         NEW p \in Procs, NEW s \in Locals, Sound(s), Moved(p, s),
         s.at \notin {"mentions", "execute"},
         NEW new \in Database, Commit(p, new),
         IsFiniteSet(new.cycles), RowsOf(new), ImportOf(new),
         ledger.tables <= new.tables, s.done <= new.tables,
         new.version => new.tables = Statements
  PROVE  IInv'
  <1> USE DEF IInv, files, bounds, Commit
  <1>1. /\ proc' \in [Procs -> Locals]
        /\ LocalsSound'
        /\ proc'[p] = s
        /\ \A q \in Procs \ {p} : proc'[q] = proc[q]
    BY Move
  <1>2. TypeOK'
    BY <1>1 DEF TypeOK
  <1>3. \A q \in Procs : proc'[q].at \notin {"mentions", "execute"}
    BY <1>1, OneWriter
  <1>4. Transactions'
    BY <1>3 DEF Transactions, At
  <1>5. MigrationSound'
    <2>1. \A q \in Procs : proc'[q].done <= new.tables
      <3>1. ASSUME NEW q \in Procs, q # p
            PROVE  proc'[q].done <= new.tables
        <4>1. proc'[q].done <= ledger.tables /\ proc'[q] \in Locals
          BY <1>1, <3>1 DEF MigrationSound
        <4>2. proc'[q].done \in Int /\ ledger.tables \in Int /\ new.tables \in Int
          BY <4>1, CommandsAssumption DEF Locals, Database, TypeOK
        <4> QED BY <4>1, <4>2
      <3> QED BY <1>1, <3>1
    <2> QED BY <2>1 DEF MigrationSound, VersionMeansSchema
  <1>6. RowsSound'
    BY DEF RowsSound, RowsOf
  <1>7. ImportSound'
    BY <1>3 DEF ImportSound, ImportsAreWhole, ImportOf, At
  <1> QED BY <1>1, <1>2, <1>4, <1>5, <1>6, <1>7

\* A write that stays pending.
LEMMA PendStep ==
  ASSUME IInv, UNCHANGED <<files, bounds>>,
         NEW p \in Procs, NEW s \in Locals, Sound(s), Moved(p, s),
         s.at \in {"mentions", "decide", "execute", "finish"}, s.done = proc[p].done,
         NEW new \in Database, Pend(p, new),
         IsFiniteSet(new.cycles), RowsOf(new),
         new.tables = work.tables, new.version = work.version,
         new.ruleSets = work.ruleSets, new.mentions = work.mentions,
         IF s.at = "mentions"
           THEN /\ new.source.sha = s.sha
                /\ new.source.tickers = s.tickers
                /\ new.source.quiet => s.sha = s.tweets
           ELSE new.source = work.source /\ proc[p].at # "mentions"
  PROVE  IInv'
  <1> USE DEF IInv, files, bounds, Pend
  <1>1. /\ proc' \in [Procs -> Locals]
        /\ LocalsSound'
        /\ proc'[p] = s
        /\ \A q \in Procs \ {p} : proc'[q] = proc[q]
    BY Move
  <1>2. TypeOK'
    BY <1>1 DEF TypeOK
  <1>3. \A q \in Procs \ {p} : proc'[q].at \notin {"mentions", "execute"}
    BY <1>1, OneWriter
  <1>4. s.at # "mentions" => work.source = ledger.source
    BY CommandsAssumption DEF Transactions, CanWrite, At
  <1>5. Transactions'
    BY <1>1, <1>3, <1>4, CommandsAssumption DEF Transactions, At
  <1>6. MigrationSound'
    BY <1>1 DEF MigrationSound, VersionMeansSchema
  <1>7. RowsSound'
    BY DEF RowsSound, RowsOf, Transactions
  <1>8. ImportSound'
    BY <1>1, <1>3 DEF ImportSound, ImportsAreWhole, At
  <1> QED BY <1>1, <1>2, <1>5, <1>6, <1>7, <1>8

\* A rollback.
LEMMA RollbackStep ==
  ASSUME IInv, UNCHANGED <<files, bounds>>,
         NEW p \in Procs, NEW s \in Locals, Sound(s), Moved(p, s),
         writer = p, Rollback, s.at \notin {"mentions", "execute"}, s.done \in {0, proc[p].done}
  PROVE  IInv'
  <1> USE DEF IInv, files, bounds, Rollback
  <1>1. /\ proc' \in [Procs -> Locals]
        /\ LocalsSound'
        /\ proc'[p] = s
        /\ \A q \in Procs \ {p} : proc'[q] = proc[q]
    BY Move
  <1>2. TypeOK'
    BY <1>1 DEF TypeOK
  <1>3. \A q \in Procs : proc'[q].at \notin {"mentions", "execute"}
    BY <1>1, OneWriter DEF CanWrite
  <1>4. Transactions'
    BY <1>3 DEF Transactions, At
  <1>5. MigrationSound'
    BY <1>1 DEF MigrationSound, VersionMeansSchema, TypeOK, Database
  <1>6. RowsSound'
    BY DEF RowsSound
  <1>7. ImportSound'
    BY <1>3 DEF ImportSound, ImportsAreWhole, At
  <1> QED BY <1>1, <1>2, <1>4, <1>5, <1>6, <1>7


(***************************************************************************)
(* Steps that leave the database alone, one by one.                        *)
(***************************************************************************)

\* What the invariant says of one process.
LEMMA Local ==
  ASSUME IInv, NEW p \in Procs
  PROVE  /\ proc[p] \in Locals
         /\ Sound(proc[p])
         /\ writer = p => proc[p].at \in {"mentions", "decide", "execute", "finish"}
         /\ rulesFile \in Rules
         /\ lockFile \in {NoFile} \cup Rules
         /\ tweetsFile \in SUBSET Tweets
         /\ tickersFile \in SUBSET Tickers
         /\ started \in 0..MaxCommands
  BY CommandsAssumption DEF IInv, TypeOK, LocalsSound, Sound, Transactions

\* A command that is not in a transaction ends.
LEMMA ExitStep ==
  ASSUME IInv, NEW p \in Procs, Exit(p), UNCHANGED <<files, db, bounds>>, writer # p
  PROVE  IInv'
  <1>1. proc[p].at # "mentions"
    BY DEF IInv, Transactions, At
  <1>2. Idle \in Locals /\ Idle.at \notin {"mentions", "execute"} /\ Idle.done = 0
    BY LocalsType, Zenon DEF Idle
  <1>3. Moved(p, Idle)
    BY DEF Exit, Moved
  <1> QED BY <1>1, <1>2, <1>3, IdleSound, FilesStep, Local DEF files, bounds

LEMMA OpenInv ==
  ASSUME IInv, NEW p \in Procs, Open(p)
  PROVE  IInv'
  <1> DEFINE s == [proc[p] EXCEPT !.at = IF ledger.version THEN Opened(proc[p].cmd) ELSE "migrate"]
  <1>1. proc[p].at = "open" /\ Moved(p, s)
    BY SMT DEF Open, At, Goto, Moved
  <1>2. s \in Locals
    <2>1. (IF ledger.version THEN Opened(proc[p].cmd) ELSE "migrate") \in Labels
      BY <1>1, Local DEF Labels, Sound, Located, Opened, Command
    <2> QED BY <2>1, Local, LocalsType, Zenon
  <1>3. Sound(s)
    <2>1. proc[p] \in Locals /\ Sound(proc[p])
      BY Local
    <2>2. /\ s.at = (IF ledger.version THEN Opened(proc[p].cmd) ELSE "migrate")
          /\ s.cmd = proc[p].cmd /\ s.quiet = proc[p].quiet /\ s.done = proc[p].done
          /\ s.lock = proc[p].lock /\ s.rules = proc[p].rules /\ s.sha = proc[p].sha
          /\ s.tweets = proc[p].tweets
      BY <2>1 DEF Locals
    <2> HIDE DEF s
    <2>3. Located(s)
      BY <1>1, <2>1, <2>2 DEF Sound, Located, Opened, Command
    <2>4. HasRead(s)
      BY <1>1, <2>1, <2>2 DEF Sound, Located, HasRead, Opened, Command
    <2>5. Agrees(s)
      BY <1>1, <2>1, <2>2 DEF Sound, Located, Agrees, Opened, Command
    <2> QED BY <2>3, <2>4, <2>5 DEF Sound
  <1>4. /\ s.done = proc[p].done /\ s.at \notin {"mentions", "execute"}
        /\ (writer = p => s.at \in {"decide", "execute", "finish"})
    <2>1. proc[p] \in Locals /\ Located(proc[p]) /\ (writer = p => proc[p].at # "open")
      BY Local DEF Sound
    <2>2. /\ s.done = proc[p].done
          /\ s.at \in {"migrate", Opened(proc[p].cmd)} /\ proc[p].cmd \in Command
      BY <1>1, <2>1 DEF Locals, Located
    <2>3. Opened(proc[p].cmd) \notin {"mentions", "execute"}
      BY <2>2 DEF Opened, Command
    <2> QED BY <1>1, <2>1, <2>2, <2>3
  <1>5. /\ UNCHANGED <<rulesFile, tweetsFile, tickersFile, db, bounds>>
        /\ lockFile' \in {NoFile} \cup Rules
    BY <1>1, Local DEF Open, files, bounds
  <1> HIDE DEF s
  <1> QED BY <1>1, <1>2, <1>3, <1>4, <1>5, Local, FilesStep DEF bounds

LEMMA ReadLockInv ==
  ASSUME IInv, NEW p \in Procs, ReadLock(p)
  PROVE  IInv'
  <1>1. CASE lockFile = NoFile
    <2>1. Exit(p) /\ proc[p].at = "lock" /\ UNCHANGED <<files, db, bounds>>
      BY <1>1 DEF ReadLock, At
    <2> QED BY <2>1, ExitStep, Local
  <1>2. CASE lockFile # NoFile
    <2> DEFINE s == [proc[p] EXCEPT !.at = "verify", !.lock = lockFile]
    <2>1. proc[p].at = "lock" /\ proc' = [proc EXCEPT ![p].at = "verify", ![p].lock = lockFile]
      BY <1>2, Zenon DEF ReadLock, At
    <2>2. [proc EXCEPT ![p].at = "verify", ![p].lock = lockFile] = [proc EXCEPT ![p] = s]
      OBVIOUS
    <2>3. proc[p].at = "lock" /\ Moved(p, s)
      BY <2>1, <2>2 DEF Moved
    <2>4. s \in Locals
      BY <1>2, <2>3, Local, LocalsType, Zenon DEF Labels, Sound, Located
    <2>5. Sound(s)
      <3>1. proc[p] \in Locals /\ Sound(proc[p]) /\ lockFile \in {NoFile} \cup Rules
        BY Local
      <3>2. /\ s.at = "verify" /\ s.cmd = proc[p].cmd /\ s.quiet = proc[p].quiet
            /\ s.done = proc[p].done /\ s.lock = lockFile /\ s.rules = proc[p].rules
            /\ s.sha = proc[p].sha /\ s.tweets = proc[p].tweets
        BY <3>1 DEF Locals
      <3> HIDE DEF s
      <3>3. Located(s)
        BY <1>2, <2>3, <3>1, <3>2 DEF Sound, Located
      <3>4. HasRead(s)
        BY <1>2, <2>3, <3>1, <3>2 DEF Sound, Located, HasRead
      <3>5. Agrees(s)
        BY <1>2, <2>3, <3>1, <3>2 DEF Sound, Located, Agrees
      <3> QED BY <3>3, <3>4, <3>5 DEF Sound
    <2>6. /\ s.done = proc[p].done /\ s.at \notin {"mentions", "execute"}
          /\ (writer = p => s.at \in {"decide", "execute", "finish"})
      BY <2>3, Local DEF Locals
    <2>7. /\ UNCHANGED <<rulesFile, tweetsFile, tickersFile, db, bounds>>
          /\ lockFile' \in {NoFile} \cup Rules
      BY <2>3, Local DEF ReadLock, files, bounds
    <2> HIDE DEF s
    <2> QED BY <2>3, <2>4, <2>5, <2>6, <2>7, Local, FilesStep DEF bounds
  <1> QED BY <1>1, <1>2

LEMMA VerifyLockInv ==
  ASSUME IInv, NEW p \in Procs, VerifyLock(p)
  PROVE  IInv'
  <1>1. CASE Mismatch(p)
    <2>1. Exit(p) /\ proc[p].at = "verify" /\ UNCHANGED <<files, db, bounds>>
      BY <1>1 DEF VerifyLock, At
    <2> QED BY <2>1, ExitStep, Local
  <1>2. CASE ~Mismatch(p)
    <2> DEFINE s == [proc[p] EXCEPT !.at = "load"]
    <2>1. proc[p].at = "verify" /\ Moved(p, s)
      BY <1>2, SMT DEF VerifyLock, At, Goto, Moved
    <2>2. s \in Locals
      BY <1>2, <2>1, Local, LocalsType, Zenon DEF Labels, Sound, Located, Mismatch
    <2>3. Sound(s)
      <3>1. proc[p] \in Locals /\ Sound(proc[p])
        BY Local
      <3>2. /\ s.at = "load" /\ s.cmd = proc[p].cmd /\ s.quiet = proc[p].quiet
            /\ s.done = proc[p].done /\ s.lock = proc[p].lock /\ s.rules = proc[p].rules
            /\ s.sha = proc[p].sha /\ s.tweets = proc[p].tweets
        BY <3>1 DEF Locals
      <3> HIDE DEF s
      <3>3. Located(s)
        BY <1>2, <2>1, <3>1, <3>2 DEF Sound, Located, Mismatch
      <3>4. HasRead(s)
        BY <1>2, <2>1, <3>1, <3>2 DEF Sound, Located, HasRead, Mismatch
      <3>5. Agrees(s)
        BY <1>2, <2>1, <3>1, <3>2 DEF Sound, Located, Agrees, Mismatch
      <3> QED BY <3>3, <3>4, <3>5 DEF Sound
    <2>4. /\ s.done = proc[p].done /\ s.at \notin {"mentions", "execute"}
          /\ (writer = p => s.at \in {"decide", "execute", "finish"})
      BY <2>1, Local DEF Locals, Mismatch
    <2>5. /\ UNCHANGED <<rulesFile, tweetsFile, tickersFile, db, bounds>>
          /\ lockFile' \in {NoFile} \cup Rules
      BY <2>1, Local DEF VerifyLock, files, bounds
    <2> HIDE DEF s
    <2> QED BY <2>1, <2>2, <2>3, <2>4, <2>5, Local, FilesStep DEF bounds
  <1> QED BY <1>1, <1>2

LEMMA LoadRulesInv ==
  ASSUME IInv, NEW p \in Procs, LoadRules(p)
  PROVE  IInv'
  <1>1. CASE proc[p].cmd = "rules approve" /\ rulesFile \notin Signed
    <2>1. Exit(p) /\ proc[p].at = "load" /\ UNCHANGED <<files, db, bounds>>
      BY <1>1 DEF LoadRules, At
    <2> QED BY <2>1, ExitStep, Local
  <1>2. CASE ~(proc[p].cmd = "rules approve" /\ rulesFile \notin Signed)
    <2> DEFINE s == [proc[p] EXCEPT !.at = "hash", !.rules = rulesFile]
    <2>1. proc[p].at = "load" /\ proc' = [proc EXCEPT ![p].at = "hash", ![p].rules = rulesFile]
      BY <1>2, Zenon DEF LoadRules, At
    <2>2. [proc EXCEPT ![p].at = "hash", ![p].rules = rulesFile] = [proc EXCEPT ![p] = s]
      OBVIOUS
    <2>3. proc[p].at = "load" /\ Moved(p, s)
      BY <2>1, <2>2 DEF Moved
    <2>4. s \in Locals
      BY <1>2, <2>3, Local, LocalsType, Zenon DEF Labels, Sound, Located
    <2>5. Sound(s)
      <3>1. proc[p] \in Locals /\ Sound(proc[p]) /\ rulesFile \in Rules
        BY Local
      <3>2. /\ s.at = "hash" /\ s.cmd = proc[p].cmd /\ s.quiet = proc[p].quiet
            /\ s.done = proc[p].done /\ s.lock = proc[p].lock /\ s.rules = rulesFile
            /\ s.sha = proc[p].sha /\ s.tweets = proc[p].tweets
        BY <3>1 DEF Locals
      <3> HIDE DEF s
      <3>3. Located(s)
        BY <1>2, <2>3, <3>1, <3>2 DEF Sound, Located
      <3>4. HasRead(s)
        BY <1>2, <2>3, <3>1, <3>2 DEF Sound, Located, HasRead
      <3>5. Agrees(s)
        BY <1>2, <2>3, <3>1, <3>2 DEF Sound, Located, Agrees
      <3> QED BY <3>3, <3>4, <3>5 DEF Sound
    <2>6. /\ s.done = proc[p].done /\ s.at \notin {"mentions", "execute"}
          /\ (writer = p => s.at \in {"decide", "execute", "finish"})
      BY <2>3, Local DEF Locals
    <2>7. /\ UNCHANGED <<rulesFile, tweetsFile, tickersFile, db, bounds>>
          /\ lockFile' \in {NoFile} \cup Rules
      BY <2>3, Local DEF LoadRules, files, bounds
    <2> HIDE DEF s
    <2> QED BY <2>3, <2>4, <2>5, <2>6, <2>7, Local, FilesStep DEF bounds
  <1> QED BY <1>1, <1>2

LEMMA HashRulesInv ==
  ASSUME IInv, NEW p \in Procs, HashRules(p)
  PROVE  IInv'
  <1> DEFINE s == [proc[p] EXCEPT !.at = IF proc[p].cmd = "run-cycle" THEN "open" ELSE "truncate",
                                  !.sha = rulesFile]
  <1>1. /\ proc[p].at = "hash"
        /\ proc' = [proc EXCEPT ![p].at = IF proc[p].cmd = "run-cycle" THEN "open" ELSE "truncate",
                                ![p].sha = rulesFile]
    BY Zenon DEF HashRules, At
  <1>2. [proc EXCEPT ![p].at = IF proc[p].cmd = "run-cycle" THEN "open" ELSE "truncate",
                                ![p].sha = rulesFile] = [proc EXCEPT ![p] = s]
    OBVIOUS
  <1>3. proc[p].at = "hash" /\ Moved(p, s)
    BY <1>1, <1>2 DEF Moved
  <1>4. s \in Locals
    <2>1. proc[p] \in Locals /\ rulesFile \in Rules \cup SUBSET Tweets
      BY Local
    <2>2. (IF proc[p].cmd = "run-cycle" THEN "open" ELSE "truncate") \in Labels
      BY DEF Labels
    <2> QED BY <2>1, <2>2, LocalsType, Zenon
  <1>5. Sound(s)
    <2>1. proc[p] \in Locals /\ Sound(proc[p]) /\ rulesFile \in Rules
      BY Local
    <2>2. /\ s.at = (IF proc[p].cmd = "run-cycle" THEN "open" ELSE "truncate")
          /\ s.cmd = proc[p].cmd /\ s.quiet = proc[p].quiet /\ s.done = proc[p].done
          /\ s.lock = proc[p].lock /\ s.rules = proc[p].rules /\ s.sha = rulesFile
          /\ s.tweets = proc[p].tweets
      BY <2>1 DEF Locals
    <2> HIDE DEF s
    <2>3. Located(s)
      BY <1>3, <2>1, <2>2 DEF Sound, Located
    <2>4. HasRead(s)
      BY <1>3, <2>1, <2>2 DEF Sound, Located, HasRead
    <2>5. Agrees(s)
      BY <1>3, <2>1, <2>2 DEF Sound, Located, Agrees
    <2> QED BY <2>3, <2>4, <2>5 DEF Sound
  <1>6. /\ s.done = proc[p].done /\ s.at \notin {"mentions", "execute"}
        /\ (writer = p => s.at \in {"decide", "execute", "finish"})
    BY <1>3, Local DEF Locals
  <1>7. /\ UNCHANGED <<rulesFile, tweetsFile, tickersFile, db, bounds>>
        /\ lockFile' \in {NoFile} \cup Rules
    BY <1>3, Local DEF HashRules, files, bounds
  <1> HIDE DEF s
  <1> QED BY <1>3, <1>4, <1>5, <1>6, <1>7, Local, FilesStep DEF bounds

LEMMA TruncateLockInv ==
  ASSUME IInv, NEW p \in Procs, TruncateLock(p)
  PROVE  IInv'
  <1> DEFINE s == [proc[p] EXCEPT !.at = "write"]
  <1>1. proc[p].at = "truncate" /\ Moved(p, s)
    BY SMT DEF TruncateLock, At, Goto, Moved
  <1>2. s \in Locals
    BY <1>1, Local, LocalsType, Zenon DEF Labels, Sound, Located
  <1>3. Sound(s)
    <2>1. proc[p] \in Locals /\ Sound(proc[p])
      BY Local
    <2>2. /\ s.at = "write" /\ s.cmd = proc[p].cmd /\ s.quiet = proc[p].quiet
          /\ s.done = proc[p].done /\ s.lock = proc[p].lock /\ s.rules = proc[p].rules
          /\ s.sha = proc[p].sha /\ s.tweets = proc[p].tweets
      BY <2>1 DEF Locals
    <2> HIDE DEF s
    <2>3. Located(s)
      BY <1>1, <2>1, <2>2 DEF Sound, Located
    <2>4. HasRead(s)
      BY <1>1, <2>1, <2>2 DEF Sound, Located, HasRead
    <2>5. Agrees(s)
      BY <1>1, <2>1, <2>2 DEF Sound, Located, Agrees
    <2> QED BY <2>3, <2>4, <2>5 DEF Sound
  <1>4. /\ s.done = proc[p].done /\ s.at \notin {"mentions", "execute"}
        /\ (writer = p => s.at \in {"decide", "execute", "finish"})
    BY <1>1, Local DEF Locals
  <1>5. /\ UNCHANGED <<rulesFile, tweetsFile, tickersFile, db, bounds>>
        /\ lockFile' \in {NoFile} \cup Rules
    BY <1>1, Local DEF TruncateLock, files, bounds, Sound, HasRead, Located
  <1> HIDE DEF s
  <1> QED BY <1>1, <1>2, <1>3, <1>4, <1>5, Local, FilesStep DEF bounds

LEMMA WriteLockInv ==
  ASSUME IInv, NEW p \in Procs, WriteLock(p)
  PROVE  IInv'
  <1> DEFINE s == [proc[p] EXCEPT !.at = "open"]
  <1>1. proc[p].at = "write" /\ Moved(p, s)
    BY SMT DEF WriteLock, At, Goto, Moved
  <1>2. s \in Locals
    BY <1>1, Local, LocalsType, Zenon DEF Labels, Sound, Located
  <1>3. Sound(s)
    <2>1. proc[p] \in Locals /\ Sound(proc[p])
      BY Local
    <2>2. /\ s.at = "open" /\ s.cmd = proc[p].cmd /\ s.quiet = proc[p].quiet
          /\ s.done = proc[p].done /\ s.lock = proc[p].lock /\ s.rules = proc[p].rules
          /\ s.sha = proc[p].sha /\ s.tweets = proc[p].tweets
      BY <2>1 DEF Locals
    <2> HIDE DEF s
    <2>3. Located(s)
      BY <1>1, <2>1, <2>2 DEF Sound, Located
    <2>4. HasRead(s)
      BY <1>1, <2>1, <2>2 DEF Sound, Located, HasRead
    <2>5. Agrees(s)
      BY <1>1, <2>1, <2>2 DEF Sound, Located, Agrees
    <2> QED BY <2>3, <2>4, <2>5 DEF Sound
  <1>4. /\ s.done = proc[p].done /\ s.at \notin {"mentions", "execute"}
        /\ (writer = p => s.at \in {"decide", "execute", "finish"})
    BY <1>1, Local DEF Locals
  <1>5. /\ UNCHANGED <<rulesFile, tweetsFile, tickersFile, db, bounds>>
        /\ lockFile' \in {NoFile} \cup Rules
    BY <1>1, Local DEF WriteLock, files, bounds, Sound, HasRead, Located
  <1> HIDE DEF s
  <1> QED BY <1>1, <1>2, <1>3, <1>4, <1>5, Local, FilesStep DEF bounds

LEMMA LookUpRuleSetInv ==
  ASSUME IInv, NEW p \in Procs, LookUpRuleSet(p)
  PROVE  IInv'
  <1>1. CASE Recorded(proc[p].sha)
    <2>1. Exit(p) /\ proc[p].at = "lookup" /\ UNCHANGED <<files, db, bounds>>
      BY <1>1 DEF LookUpRuleSet, At
    <2> QED BY <2>1, ExitStep, Local
  <1>2. CASE ~Recorded(proc[p].sha)
    <2> DEFINE s == [proc[p] EXCEPT !.at = "record"]
    <2>1. proc[p].at = "lookup" /\ Moved(p, s)
      BY <1>2, SMT DEF LookUpRuleSet, At, Goto, Moved
    <2>2. s \in Locals
      BY <1>2, <2>1, Local, LocalsType, Zenon DEF Labels, Sound, Located
    <2>3. Sound(s)
      <3>1. proc[p] \in Locals /\ Sound(proc[p])
        BY Local
      <3>2. /\ s.at = "record" /\ s.cmd = proc[p].cmd /\ s.quiet = proc[p].quiet
            /\ s.done = proc[p].done /\ s.lock = proc[p].lock /\ s.rules = proc[p].rules
            /\ s.sha = proc[p].sha /\ s.tweets = proc[p].tweets
        BY <3>1 DEF Locals
      <3> HIDE DEF s
      <3>3. Located(s)
        BY <1>2, <2>1, <3>1, <3>2 DEF Sound, Located
      <3>4. HasRead(s)
        BY <1>2, <2>1, <3>1, <3>2 DEF Sound, Located, HasRead
      <3>5. Agrees(s)
        BY <1>2, <2>1, <3>1, <3>2 DEF Sound, Located, Agrees
      <3> QED BY <3>3, <3>4, <3>5 DEF Sound
    <2>4. /\ s.done = proc[p].done /\ s.at \notin {"mentions", "execute"}
          /\ (writer = p => s.at \in {"decide", "execute", "finish"})
      BY <2>1, Local DEF Locals
    <2>5. /\ UNCHANGED <<rulesFile, tweetsFile, tickersFile, db, bounds>>
          /\ lockFile' \in {NoFile} \cup Rules
      BY <2>1, Local DEF LookUpRuleSet, files, bounds
    <2> HIDE DEF s
    <2> QED BY <2>1, <2>2, <2>3, <2>4, <2>5, Local, FilesStep DEF bounds
  <1> QED BY <1>1, <1>2

LEMMA ReadTweetsInv ==
  ASSUME IInv, NEW p \in Procs, ReadTweets(p)
  PROVE  IInv'
  <1> DEFINE s == [proc[p] EXCEPT !.at = "tickers", !.tweets = tweetsFile]
  <1>1. proc[p].at = "tweets" /\ proc' = [proc EXCEPT ![p].at = "tickers", ![p].tweets = tweetsFile]
    BY Zenon DEF ReadTweets, At
  <1>2. [proc EXCEPT ![p].at = "tickers", ![p].tweets = tweetsFile] = [proc EXCEPT ![p] = s]
    OBVIOUS
  <1>3. proc[p].at = "tweets" /\ Moved(p, s)
    BY <1>1, <1>2 DEF Moved
  <1>4. s \in Locals
    BY <1>3, Local, LocalsType, Zenon DEF Labels, Sound, Located
  <1>5. Sound(s)
    <2>1. proc[p] \in Locals /\ Sound(proc[p]) /\ tweetsFile \in SUBSET Tweets
      BY Local
    <2>2. /\ s.at = "tickers" /\ s.cmd = proc[p].cmd /\ s.quiet = proc[p].quiet
          /\ s.done = proc[p].done /\ s.lock = proc[p].lock /\ s.rules = proc[p].rules
          /\ s.sha = proc[p].sha /\ s.tweets = tweetsFile
      BY <2>1 DEF Locals
    <2> HIDE DEF s
    <2>3. Located(s)
      BY <1>3, <2>1, <2>2 DEF Sound, Located
    <2>4. HasRead(s)
      BY <1>3, <2>1, <2>2 DEF Sound, Located, HasRead
    <2>5. Agrees(s)
      BY <1>3, <2>1, <2>2 DEF Sound, Located, Agrees
    <2> QED BY <2>3, <2>4, <2>5 DEF Sound
  <1>6. /\ s.done = proc[p].done /\ s.at \notin {"mentions", "execute"}
        /\ (writer = p => s.at \in {"decide", "execute", "finish"})
    BY <1>3, Local DEF Locals
  <1>7. /\ UNCHANGED <<rulesFile, tweetsFile, tickersFile, db, bounds>>
        /\ lockFile' \in {NoFile} \cup Rules
    BY <1>3, Local DEF ReadTweets, files, bounds
  <1> HIDE DEF s
  <1> QED BY <1>3, <1>4, <1>5, <1>6, <1>7, Local, FilesStep DEF bounds

LEMMA ReadWhitelistInv ==
  ASSUME IInv, NEW p \in Procs, ReadWhitelist(p)
  PROVE  IInv'
  <1>1. CASE proc[p].tweets \cap Malformed # {}
    <2>1. Exit(p) /\ proc[p].at = "tickers" /\ UNCHANGED <<files, db, bounds>>
      BY <1>1 DEF ReadWhitelist, At
    <2> QED BY <2>1, ExitStep, Local
  <1>2. CASE proc[p].tweets \cap Malformed = {}
    <2> DEFINE s == [proc[p] EXCEPT !.at = "fingerprint", !.tickers = tickersFile]
    <2>1. /\ proc[p].at = "tickers"
          /\ proc' = [proc EXCEPT ![p].at = "fingerprint", ![p].tickers = tickersFile]
      BY <1>2, Zenon DEF ReadWhitelist, At
    <2>2. [proc EXCEPT ![p].at = "fingerprint", ![p].tickers = tickersFile] = [proc EXCEPT ![p] = s]
      OBVIOUS
    <2>3. proc[p].at = "tickers" /\ Moved(p, s)
      BY <2>1, <2>2 DEF Moved
    <2>4. s \in Locals
      BY <1>2, <2>3, Local, LocalsType, Zenon DEF Labels, Sound, Located
    <2>5. Sound(s)
      <3>1. proc[p] \in Locals /\ Sound(proc[p])
        BY Local
      <3>2. /\ s.at = "fingerprint" /\ s.cmd = proc[p].cmd /\ s.quiet = proc[p].quiet
            /\ s.done = proc[p].done /\ s.lock = proc[p].lock /\ s.rules = proc[p].rules
            /\ s.sha = proc[p].sha /\ s.tweets = proc[p].tweets
        BY <3>1 DEF Locals
      <3> HIDE DEF s
      <3>3. Located(s)
        BY <1>2, <2>3, <3>1, <3>2 DEF Sound, Located
      <3>4. HasRead(s)
        BY <1>2, <2>3, <3>1, <3>2 DEF Sound, Located, HasRead
      <3>5. Agrees(s)
        BY <1>2, <2>3, <3>1, <3>2 DEF Sound, Located, Agrees
      <3> QED BY <3>3, <3>4, <3>5 DEF Sound
    <2>6. /\ s.done = proc[p].done /\ s.at \notin {"mentions", "execute"}
          /\ (writer = p => s.at \in {"decide", "execute", "finish"})
      BY <2>3, Local DEF Locals
    <2>7. /\ UNCHANGED <<rulesFile, tweetsFile, tickersFile, db, bounds>>
          /\ lockFile' \in {NoFile} \cup Rules
      BY <2>3, Local DEF ReadWhitelist, files, bounds
    <2> HIDE DEF s
    <2> QED BY <2>3, <2>4, <2>5, <2>6, <2>7, Local, FilesStep DEF bounds
  <1> QED BY <1>1, <1>2

LEMMA FingerprintInv ==
  ASSUME IInv, NEW p \in Procs, Fingerprint(p)
  PROVE  IInv'
  <1> DEFINE s == [proc[p] EXCEPT !.at = "open", !.sha = tweetsFile]
  <1>1. proc[p].at = "fingerprint" /\ proc' = [proc EXCEPT ![p].at = "open", ![p].sha = tweetsFile]
    BY Zenon DEF Fingerprint, At
  <1>2. [proc EXCEPT ![p].at = "open", ![p].sha = tweetsFile] = [proc EXCEPT ![p] = s]
    OBVIOUS
  <1>3. proc[p].at = "fingerprint" /\ Moved(p, s)
    BY <1>1, <1>2 DEF Moved
  <1>4. s \in Locals
    BY <1>3, Local, LocalsType, Zenon DEF Labels, Sound, Located
  <1>5. Sound(s)
    <2>1. proc[p] \in Locals /\ Sound(proc[p]) /\ tweetsFile \in SUBSET Tweets
      BY Local
    <2>2. /\ s.at = "open" /\ s.cmd = proc[p].cmd /\ s.quiet = proc[p].quiet
          /\ s.done = proc[p].done /\ s.lock = proc[p].lock /\ s.rules = proc[p].rules
          /\ s.sha = tweetsFile /\ s.tweets = proc[p].tweets
      BY <2>1 DEF Locals
    <2> HIDE DEF s
    <2>3. Located(s)
      BY <1>3, <2>1, <2>2 DEF Sound, Located
    <2>4. HasRead(s)
      BY <1>3, <2>1, <2>2 DEF Sound, Located, HasRead
    <2>5. Agrees(s)
      BY <1>3, <2>1, <2>2 DEF Sound, Located, Agrees
    <2> QED BY <2>3, <2>4, <2>5 DEF Sound
  <1>6. /\ s.done = proc[p].done /\ s.at \notin {"mentions", "execute"}
        /\ (writer = p => s.at \in {"decide", "execute", "finish"})
    BY <1>3, Local DEF Locals
  <1>7. /\ UNCHANGED <<rulesFile, tweetsFile, tickersFile, db, bounds>>
        /\ lockFile' \in {NoFile} \cup Rules
    BY <1>3, Local DEF Fingerprint, files, bounds
  <1> HIDE DEF s
  <1> QED BY <1>3, <1>4, <1>5, <1>6, <1>7, Local, FilesStep DEF bounds

LEMMA CompareSourceInv ==
  ASSUME IInv, NEW p \in Procs, CompareSource(p)
  PROVE  IInv'
  <1>1. CASE ledger.source.sha = proc[p].sha
    <2>1. Exit(p) /\ proc[p].at = "compare" /\ UNCHANGED <<files, db, bounds>>
      BY <1>1 DEF CompareSource, At
    <2> QED BY <2>1, ExitStep, Local
  <1>2. CASE ledger.source.sha # proc[p].sha
    <2> DEFINE s == [proc[p] EXCEPT !.at = "upsert"]
    <2>1. proc[p].at = "compare" /\ Moved(p, s)
      BY <1>2, SMT DEF CompareSource, At, Goto, Moved
    <2>2. s \in Locals
      BY <1>2, <2>1, Local, LocalsType, Zenon DEF Labels, Sound, Located
    <2>3. Sound(s)
      <3>1. proc[p] \in Locals /\ Sound(proc[p])
        BY Local
      <3>2. /\ s.at = "upsert" /\ s.cmd = proc[p].cmd /\ s.quiet = proc[p].quiet
            /\ s.done = proc[p].done /\ s.lock = proc[p].lock /\ s.rules = proc[p].rules
            /\ s.sha = proc[p].sha /\ s.tweets = proc[p].tweets
        BY <3>1 DEF Locals
      <3> HIDE DEF s
      <3>3. Located(s)
        BY <1>2, <2>1, <3>1, <3>2 DEF Sound, Located
      <3>4. HasRead(s)
        BY <1>2, <2>1, <3>1, <3>2 DEF Sound, Located, HasRead
      <3>5. Agrees(s)
        BY <1>2, <2>1, <3>1, <3>2 DEF Sound, Located, Agrees
      <3> QED BY <3>3, <3>4, <3>5 DEF Sound
    <2>4. /\ s.done = proc[p].done /\ s.at \notin {"mentions", "execute"}
          /\ (writer = p => s.at \in {"decide", "execute", "finish"})
      BY <2>1, Local DEF Locals
    <2>5. /\ UNCHANGED <<rulesFile, tweetsFile, tickersFile, db, bounds>>
          /\ lockFile' \in {NoFile} \cup Rules
      BY <2>1, Local DEF CompareSource, files, bounds
    <2> HIDE DEF s
    <2> QED BY <2>1, <2>2, <2>3, <2>4, <2>5, Local, FilesStep DEF bounds
  <1> QED BY <1>1, <1>2

LEMMA DecideNothingInv ==
  ASSUME IInv, NEW p \in Procs, DecideNothing(p)
  PROVE  IInv'
  <1> DEFINE s == [proc[p] EXCEPT !.at = "finish"]
  <1>1. proc[p].at = "decide" /\ Moved(p, s)
    BY SMT DEF DecideNothing, At, Goto, Moved
  <1>2. s \in Locals
    BY <1>1, Local, LocalsType, Zenon DEF Labels, Sound, Located
  <1>3. Sound(s)
    <2>1. proc[p] \in Locals /\ Sound(proc[p])
      BY Local
    <2>2. /\ s.at = "finish" /\ s.cmd = proc[p].cmd /\ s.quiet = proc[p].quiet
          /\ s.done = proc[p].done /\ s.lock = proc[p].lock /\ s.rules = proc[p].rules
          /\ s.sha = proc[p].sha /\ s.tweets = proc[p].tweets
      BY <2>1 DEF Locals
    <2> HIDE DEF s
    <2>3. Located(s)
      BY <1>1, <2>1, <2>2 DEF Sound, Located
    <2>4. HasRead(s)
      BY <1>1, <2>1, <2>2 DEF Sound, Located, HasRead
    <2>5. Agrees(s)
      BY <1>1, <2>1, <2>2 DEF Sound, Located, Agrees
    <2> QED BY <2>3, <2>4, <2>5 DEF Sound
  <1>4. /\ s.done = proc[p].done /\ s.at \notin {"mentions", "execute"}
        /\ (writer = p => s.at \in {"decide", "execute", "finish"})
    BY <1>1, Local DEF Locals
  <1>5. /\ UNCHANGED <<rulesFile, tweetsFile, tickersFile, db, bounds>>
        /\ lockFile' \in {NoFile} \cup Rules
    BY <1>1, Local DEF DecideNothing, files, bounds
  <1> HIDE DEF s
  <1> QED BY <1>1, <1>2, <1>3, <1>4, <1>5, Local, FilesStep DEF bounds


(***************************************************************************)
(* Steps that write to the database, one by one.                           *)
(***************************************************************************)

\* What the invariant says of the database when a process can write.
LEMMA CanWriteFacts ==
  ASSUME IInv, NEW p \in Procs, CanWrite(p)
  PROVE  /\ ledger \in Database /\ work \in Database
         /\ RowsOf(ledger) /\ RowsOf(work) /\ ImportOf(ledger)
         /\ IsFiniteSet(ledger.cycles) /\ IsFiniteSet(work.cycles)
         /\ Cardinality(work.cycles) \in Nat
         /\ work.tables = ledger.tables /\ work.version = ledger.version
         /\ work.ruleSets = ledger.ruleSets /\ work.mentions = ledger.mentions
         /\ proc[p].at # "mentions" => work.source = ledger.source
         /\ ledger.version => ledger.tables = Statements
         /\ proc[p].done <= ledger.tables
         /\ 0 <= ledger.tables
  <1>1. /\ ledger \in Database /\ work \in Database
        /\ IsFiniteSet(ledger.cycles) /\ IsFiniteSet(work.cycles)
        /\ work.tables = ledger.tables /\ work.version = ledger.version
        /\ work.ruleSets = ledger.ruleSets /\ work.mentions = ledger.mentions
        /\ ledger.version => ledger.tables = Statements
        /\ proc[p].done <= ledger.tables
        /\ ImportOf(ledger)
    BY DEF IInv, TypeOK, Transactions, MigrationSound, VersionMeansSchema, ImportSound,
           ImportsAreWhole, ImportOf
  <1>2. RowsOf(ledger) /\ RowsOf(work)
    BY <1>1 DEF IInv, RowsSound, RowsOf
  <1>3. Cardinality(work.cycles) \in Nat
    BY <1>1, FS_CardinalityType
  <1>4. proc[p].at # "mentions" => work.source = ledger.source
    BY CommandsAssumption DEF IInv, Transactions, CanWrite, At
  <1>5. 0 <= ledger.tables
    BY <1>1 DEF Database
  <1> QED BY <1>1, <1>2, <1>3, <1>4, <1>5

LEMMA RunStatementInv ==
  ASSUME IInv, NEW p \in Procs, RunStatement(p)
  PROVE  IInv'
  <1>1. proc[p].at = "migrate" /\ writer # p
    BY Local DEF RunStatement, At
  <1>2. CASE TableExists(p)
    BY <1>1, <1>2, ExitStep DEF RunStatement
  <1>3. CASE ~TableExists(p)
    <2> DEFINE s == [proc[p] EXCEPT !.done = @ + 1]
               new == [ledger EXCEPT !.tables = @ + 1]
    <2>1. Moved(p, s) /\ Commit(p, new) /\ UNCHANGED <<files, bounds>> /\ proc[p].done < Statements
      BY <1>3, SMT DEF RunStatement, Moved
    <2>2. CanWrite(p)
      BY <2>1 DEF Commit
    <2>3. /\ proc[p].done = ledger.tables
          /\ proc[p].done + 1 \in 0..Statements
      BY <1>3, <2>1, <2>2, Local, CanWriteFacts, CommandsAssumption
         DEF TableExists, Locals, Database
    <2>4. s \in Locals /\ new \in Database
      BY <2>2, <2>3, Local, LocalsType, CanWriteFacts, DatabaseType, Zenon
    <2>5. Sound(s) /\ s.at \notin {"mentions", "execute"} /\ s.done = proc[p].done + 1
      <3>1. proc[p] \in Locals /\ Sound(proc[p])
        BY Local
      <3>2. /\ s.at = proc[p].at /\ s.cmd = proc[p].cmd /\ s.quiet = proc[p].quiet
            /\ s.done = proc[p].done + 1 /\ s.lock = proc[p].lock /\ s.rules = proc[p].rules
            /\ s.sha = proc[p].sha /\ s.tweets = proc[p].tweets
        BY <3>1 DEF Locals
      <3> HIDE DEF s
      <3>3. Located(s)
        BY <1>1, <3>1, <3>2 DEF Sound, Located
      <3>4. HasRead(s)
        BY <1>1, <3>1, <3>2 DEF Sound, Located, HasRead
      <3>5. Agrees(s)
        BY <1>1, <3>1, <3>2 DEF Sound, Located, Agrees
      <3>6. s.at \notin {"mentions", "execute"} /\ s.done = proc[p].done + 1
        BY <3>2, <1>1
      <3> QED BY <3>3, <3>4, <3>5, <3>6 DEF Sound
    <2>6. /\ new.cycles = ledger.cycles
          /\ RowsOf(new) /\ ImportOf(new)
          /\ new.tables = ledger.tables + 1
          /\ new.version = ledger.version
      BY <2>2, CanWriteFacts DEF RowsOf, ImportOf, Database
    <2>7. /\ ledger.tables <= new.tables
          /\ s.done <= new.tables
          /\ ~new.version
      BY <2>1, <2>2, <2>3, <2>5, <2>6, CanWriteFacts, CommandsAssumption DEF Database
    <2>8. IsFiniteSet(new.cycles)
      BY <2>2, <2>6, CanWriteFacts
    <2> HIDE DEF s, new
    <2> QED BY <2>1, <2>4, <2>5, <2>6, <2>7, <2>8, CommitStep
  <1> QED BY <1>2, <1>3

LEMMA RecordVersionInv ==
  ASSUME IInv, NEW p \in Procs, RecordVersion(p)
  PROVE  IInv'
  <1> DEFINE s == [proc[p] EXCEPT !.at = Opened(proc[p].cmd)]
             new == [ledger EXCEPT !.version = TRUE]
  <1>1. /\ proc[p].at = "migrate" /\ proc[p].done = Statements
        /\ Moved(p, s) /\ Commit(p, new) /\ UNCHANGED <<files, bounds>> /\ CanWrite(p)
    BY SMT DEF RecordVersion, ScriptDone, At, Goto, Moved, Commit
  <1>2. proc[p].cmd \in Command
    BY <1>1, Local DEF Sound, Located
  <1>3. s \in Locals /\ new \in Database
    <2>1. Opened(proc[p].cmd) \in Labels
      BY <1>2 DEF Opened, Command, Labels
    <2> QED BY <1>1, <2>1, Local, LocalsType, CanWriteFacts, DatabaseType, Zenon
  <1>4. Sound(s) /\ s.at \notin {"mentions", "execute"} /\ s.done = proc[p].done
    <2>1. proc[p] \in Locals /\ Sound(proc[p])
      BY Local
    <2>2. /\ s.at = Opened(proc[p].cmd) /\ s.cmd = proc[p].cmd /\ s.quiet = proc[p].quiet
          /\ s.done = proc[p].done /\ s.lock = proc[p].lock /\ s.rules = proc[p].rules
          /\ s.sha = proc[p].sha /\ s.tweets = proc[p].tweets
      BY <2>1 DEF Locals
    <2> HIDE DEF s
    <2>3. Located(s)
      BY <1>1, <1>2, <2>1, <2>2 DEF Sound, Located, Opened, Command
    <2>4. HasRead(s)
      BY <1>1, <1>2, <2>1, <2>2 DEF Sound, Located, HasRead, Opened, Command
    <2>5. Agrees(s)
      BY <1>1, <1>2, <2>1, <2>2 DEF Sound, Located, Agrees, Opened, Command
    <2>6. s.at \notin {"mentions", "execute"} /\ s.done = proc[p].done
      BY <1>1, <1>2, <2>1, <2>2 DEF Sound, Located, Opened, Command
    <2> QED BY <2>3, <2>4, <2>5, <2>6 DEF Sound
  <1>5. /\ new.cycles = ledger.cycles
        /\ RowsOf(new) /\ ImportOf(new)
        /\ new.tables = ledger.tables
    BY <1>1, CanWriteFacts DEF RowsOf, ImportOf, Database
  <1>6. ledger.tables = Statements
    BY <1>1, CanWriteFacts, CommandsAssumption DEF Database
  <1>7. /\ ledger.tables <= new.tables
        /\ s.done <= new.tables
    BY <1>1, <1>4, <1>5, <1>6, CommandsAssumption
  <1>8. IsFiniteSet(new.cycles)
    BY <1>1, <1>5, CanWriteFacts
  <1> HIDE DEF s, new
  <1> QED BY <1>1, <1>3, <1>4, <1>5, <1>6, <1>7, <1>8, CommitStep

LEMMA RecordRuleSetInv ==
  ASSUME IInv, NEW p \in Procs, RecordRuleSet(p)
  PROVE  IInv'
  <1>1. /\ proc[p].at = "record" /\ writer # p /\ Exit(p) /\ UNCHANGED <<files, bounds>>
    BY Local DEF RecordRuleSet, At
  <1>2. CASE Recorded(proc[p].sha)
    BY <1>1, <1>2, ExitStep DEF RecordRuleSet, bounds
  <1>3. CASE ~Recorded(proc[p].sha)
    <2> DEFINE row == RuleSetRow(p)
               new == [ledger EXCEPT !.ruleSets = @ \cup {row}]
    <2>1. Moved(p, Idle) /\ Commit(p, new) /\ CanWrite(p)
      BY <1>1, <1>3, SMT DEF RecordRuleSet, Exit, Moved, Commit
    <2>2. row \in RuleSetRows /\ (row.quiet => row.content = row.sha)
      BY <1>1, Local DEF RuleSetRow, RuleSetRows, Sound, Located, HasRead, Agrees, Locals
    <2>3. new \in Database
      <3>1. ledger.ruleSets \cup {row} \in SUBSET RuleSetRows
        BY <2>1, <2>2, CanWriteFacts DEF Database
      <3> HIDE DEF row
      <3> QED BY <2>1, <3>1, CanWriteFacts, DatabaseType
    <2>4. /\ new.ruleSets = ledger.ruleSets \cup {row}
          /\ new.decisions = ledger.decisions
          /\ new.cycles = ledger.cycles
          /\ new.tables = ledger.tables
          /\ new.version = ledger.version
          /\ new.source = ledger.source
          /\ new.mentions = ledger.mentions
      BY <2>1, CanWriteFacts DEF Database
    <2> HIDE DEF row, new
    <2>5. RowsOf(new) /\ ImportOf(new)
      BY <2>1, <2>2, <2>4, CanWriteFacts DEF RowsOf, ImportOf
    <2>6. Idle \in Locals /\ Idle.at \notin {"mentions", "execute"} /\ Idle.done = 0
      BY LocalsType, Zenon DEF Idle
    <2>7. /\ ledger.tables <= new.tables /\ Idle.done <= new.tables
          /\ new.version => new.tables = Statements
          /\ IsFiniteSet(new.cycles)
      BY <2>1, <2>4, <2>6, CanWriteFacts DEF Database
    <2> QED BY <1>1, <2>1, <2>3, <2>5, <2>6, <2>7, IdleSound, CommitStep
  <1> QED BY <1>2, <1>3

LEMMA UpsertSourceInv ==
  ASSUME IInv, NEW p \in Procs, UpsertSource(p)
  PROVE  IInv'
  <1> DEFINE s == [proc[p] EXCEPT !.at = "mentions"]
             load == Mentions(proc[p].tweets, proc[p].tickers)
             row == [sha |-> proc[p].sha, count |-> Cardinality(load),
                     tickers |-> proc[p].tickers, quiet |-> proc[p].quiet]
             new == [work EXCEPT !.source = row]
  <1>1. /\ proc[p].at = "upsert"
        /\ Moved(p, s) /\ Pend(p, new) /\ UNCHANGED <<files, bounds>> /\ CanWrite(p)
    BY SMT DEF UpsertSource, Upsert, At, Goto, Moved, Pend
  <1>2. proc[p].tweets \in SUBSET Tweets /\ proc[p].tickers \in SUBSET Tickers
    BY Local DEF Locals
  <1>3. row \in SourceRow
    <2>1. Cardinality(load) \in Nat
      BY <1>2, MentionsType
    <2>2. proc[p].sha \in SUBSET Tweets /\ proc[p].quiet \in BOOLEAN
      BY <1>1, Local DEF Locals, Sound, Located, HasRead
    <2> HIDE DEF load
    <2> QED BY <1>2, <2>1, <2>2 DEF SourceRow
  <1>4. s \in Locals
    BY Local, LocalsType, Zenon DEF Labels
  <1>5. Sound(s) /\ s.at = "mentions" /\ s.done = proc[p].done
        /\ s.sha = proc[p].sha /\ s.tickers = proc[p].tickers
        /\ (proc[p].quiet => s.sha = s.tweets)
    <2>1. proc[p] \in Locals /\ Sound(proc[p])
      BY Local
    <2>2. /\ s.at = "mentions" /\ s.cmd = proc[p].cmd /\ s.quiet = proc[p].quiet
          /\ s.done = proc[p].done /\ s.lock = proc[p].lock /\ s.rules = proc[p].rules
          /\ s.sha = proc[p].sha /\ s.tweets = proc[p].tweets /\ s.tickers = proc[p].tickers
      BY <2>1 DEF Locals
    <2> HIDE DEF s
    <2>3. Located(s)
      BY <1>1, <2>1, <2>2 DEF Sound, Located
    <2>4. HasRead(s)
      BY <1>1, <2>1, <2>2 DEF Sound, Located, HasRead
    <2>5. Agrees(s)
      BY <1>1, <2>1, <2>2 DEF Sound, Located, Agrees
    <2>6. /\ s.at = "mentions" /\ s.done = proc[p].done
          /\ s.sha = proc[p].sha /\ s.tickers = proc[p].tickers
          /\ (proc[p].quiet => s.sha = s.tweets)
      BY <1>1, <2>1, <2>2 DEF Sound, Located, Agrees
    <2> QED BY <2>3, <2>4, <2>5, <2>6 DEF Sound
  <1>6. /\ row.sha = proc[p].sha /\ row.tickers = proc[p].tickers
        /\ row.quiet = proc[p].quiet
    OBVIOUS
  <1> HIDE DEF s, row
  <1>7. /\ new \in Database
        /\ new.source = row
    <2>1. new \in Database
      BY <1>1, <1>3, CanWriteFacts, DatabaseType
    <2>2. new.source = row
      BY <1>1, CanWriteFacts DEF Database
    <2> QED BY <2>1, <2>2
  <1>8. /\ new.cycles = work.cycles /\ new.tables = work.tables
        /\ new.version = work.version /\ new.ruleSets = work.ruleSets
        /\ new.mentions = work.mentions /\ new.decisions = work.decisions
    BY <1>1, CanWriteFacts DEF Database
  <1> HIDE DEF new
  <1>9. RowsOf(new) /\ IsFiniteSet(new.cycles)
    BY <1>1, <1>8, CanWriteFacts DEF RowsOf
  <1> QED BY <1>1, <1>4, <1>5, <1>6, <1>7, <1>8, <1>9, PendStep

LEMMA InsertMentionsInv ==
  ASSUME IInv, NEW p \in Procs, InsertMentions(p)
  PROVE  IInv'
  <1> DEFINE load == Mentions(proc[p].tweets, proc[p].tickers)
             new == [work EXCEPT !.mentions = @ \cup load]
  <1>1. /\ proc[p].at = "mentions"
        /\ Moved(p, Idle) /\ Commit(p, new) /\ UNCHANGED <<files, bounds>> /\ CanWrite(p)
    BY SMT DEF InsertMentions, At, Exit, Moved, Commit
  <1>2. load \in SUBSET (Tweets \X Tickers)
    BY Local, MentionsType DEF Locals
  <1>3. /\ work.source.sha = proc[p].sha
        /\ work.source.tickers = proc[p].tickers
        /\ work.source.quiet => proc[p].sha = proc[p].tweets
    BY <1>1 DEF IInv, ImportSound, At
  <1>4. work.source.quiet => Mentions(work.source.sha, work.source.tickers) = load
    BY <1>3
  <1> HIDE DEF load
  <1>5. new \in Database
    <2>1. work.mentions \cup load \in SUBSET (Tweets \X Tickers)
      BY <1>1, <1>2, CanWriteFacts DEF Database
    <2> QED BY <1>1, <2>1, CanWriteFacts, DatabaseType
  <1>6. /\ new.cycles = work.cycles /\ new.tables = work.tables
        /\ new.version = work.version /\ new.ruleSets = work.ruleSets
        /\ new.mentions = work.mentions \cup load /\ new.decisions = work.decisions
        /\ new.source = work.source
    BY <1>1, CanWriteFacts DEF Database
  <1> HIDE DEF new
  <1>7. RowsOf(new) /\ ImportOf(new) /\ IsFiniteSet(new.cycles)
    BY <1>1, <1>4, <1>6, CanWriteFacts DEF RowsOf, ImportOf
  <1>8. Idle \in Locals /\ Idle.at \notin {"mentions", "execute"} /\ Idle.done = 0
    BY LocalsType, Zenon DEF Idle
  <1>9. /\ ledger.tables <= new.tables /\ Idle.done <= new.tables
        /\ new.version => new.tables = Statements
    BY <1>1, <1>6, <1>8, CanWriteFacts DEF Database
  <1> QED BY <1>1, <1>5, <1>7, <1>8, <1>9, IdleSound, CommitStep


LEMMA RecordHumanApprovalInv ==
  ASSUME IInv, NEW p \in Procs, NEW d \in ledger.decisions, RecordHumanApproval(p, d)
  PROVE  IInv'
  <1> DEFINE row == Approval(d.cycle, "kyo")
             new == [ledger EXCEPT !.approvals = @ \cup {row}]
  <1>1. /\ proc[p].at = "sign"
        /\ Moved(p, Idle) /\ Commit(p, new) /\ UNCHANGED <<files, bounds>> /\ CanWrite(p)
    BY SMT DEF RecordHumanApproval, At, Exit, Moved, Commit
  <1>2. row \in ApprovalRows
    <2>1. d.cycle \in Nat
      BY <1>1, CanWriteFacts DEF Database, DecisionRows
    <2> QED BY <1>1, <2>1, CanWriteFacts DEF Approval, ApprovalRows
  <1> HIDE DEF row
  <1>3. new \in Database
    <2>1. ledger.approvals \cup {row} \in SUBSET ApprovalRows
      BY <1>1, <1>2, CanWriteFacts DEF Database
    <2> QED BY <1>1, <2>1, CanWriteFacts, DatabaseType
  <1>4. /\ new.cycles = ledger.cycles /\ new.tables = ledger.tables
        /\ new.version = ledger.version /\ new.ruleSets = ledger.ruleSets
        /\ new.mentions = ledger.mentions /\ new.decisions = ledger.decisions
        /\ new.source = ledger.source
    BY <1>1, CanWriteFacts DEF Database
  <1> HIDE DEF new
  <1>5. RowsOf(new) /\ ImportOf(new) /\ IsFiniteSet(new.cycles)
    BY <1>1, <1>4, CanWriteFacts DEF RowsOf, ImportOf
  <1>6. Idle \in Locals /\ Idle.at \notin {"mentions", "execute"} /\ Idle.done = 0
    BY LocalsType, Zenon DEF Idle
  <1>7. /\ ledger.tables <= new.tables /\ Idle.done <= new.tables
        /\ new.version => new.tables = Statements
    BY <1>1, <1>4, <1>6, CanWriteFacts DEF Database
  <1> QED BY <1>1, <1>3, <1>5, <1>6, <1>7, IdleSound, CommitStep

LEMMA BeginCycleInv ==
  ASSUME IInv, NEW p \in Procs, BeginCycle(p)
  PROVE  IInv'
  <1>1. proc[p].at = "begin" /\ writer # p /\ UNCHANGED <<files, bounds>>
    BY Local DEF BeginCycle, At
  <1>2. CASE \E q \in Procs : InCycle(q)
    BY <1>1, <1>2, ExitStep DEF BeginCycle
  <1>3. CASE ~\E q \in Procs : InCycle(q)
    <2> DEFINE id == Cardinality(work.cycles) + 1
               row == [id |-> id, mode |-> proc[p].mode, outcome |-> "none"]
               new == [work EXCEPT !.cycles = @ \cup {row}]
               s == [proc[p] EXCEPT !.at = "decide", !.cycle = id]
    <2>1. Pend(p, new) /\ proc' = [proc EXCEPT ![p].at = "decide", ![p].cycle = id]
      BY <1>3, Zenon DEF BeginCycle
    <2>2. CanWrite(p)
      BY <2>1 DEF Pend
    <2>3. id \in Nat
      BY <2>2, CanWriteFacts
    <2> HIDE DEF id
    <2>4. [proc EXCEPT ![p].at = "decide", ![p].cycle = id] = [proc EXCEPT ![p] = s]
      OBVIOUS
    <2>5. Moved(p, s)
      BY <2>1, <2>4 DEF Moved
    <2>6. s \in Locals
      BY <2>3, Local, LocalsType, Zenon DEF Labels
    <2>7. Sound(s) /\ s.at = "decide" /\ s.done = proc[p].done
      <3>1. proc[p] \in Locals /\ Sound(proc[p])
        BY Local
      <3>2. /\ s.at = "decide" /\ s.cmd = proc[p].cmd /\ s.quiet = proc[p].quiet
            /\ s.done = proc[p].done /\ s.lock = proc[p].lock /\ s.rules = proc[p].rules
            /\ s.sha = proc[p].sha /\ s.tweets = proc[p].tweets
        BY <3>1 DEF Locals
      <3> HIDE DEF s
      <3>3. Located(s)
        BY <1>1, <3>1, <3>2 DEF Sound, Located
      <3>4. HasRead(s)
        BY <1>1, <3>1, <3>2 DEF Sound, Located, HasRead
      <3>5. Agrees(s)
        BY <1>1, <3>1, <3>2 DEF Sound, Located, Agrees
      <3>6. s.at = "decide" /\ s.done = proc[p].done
        BY <3>2, <1>1
      <3> QED BY <3>3, <3>4, <3>5, <3>6 DEF Sound
    <2>8. row \in CycleRows
      BY <2>3, Local DEF CycleRows, Locals
    <2> HIDE DEF s, row
    <2>9. new \in Database
      <3>1. work.cycles \cup {row} \in SUBSET CycleRows
        BY <2>2, <2>8, CanWriteFacts DEF Database
      <3> QED BY <2>2, <3>1, CanWriteFacts, DatabaseType
    <2>10. /\ new.cycles = work.cycles \cup {row} /\ new.tables = work.tables
           /\ new.version = work.version /\ new.ruleSets = work.ruleSets
           /\ new.mentions = work.mentions /\ new.decisions = work.decisions
           /\ new.source = work.source
      BY <2>2, CanWriteFacts DEF Database
    <2> HIDE DEF new
    <2>11. IsFiniteSet(new.cycles)
      BY <2>2, <2>10, CanWriteFacts, FS_AddElement
    <2>12. RowsOf(new)
      BY <2>2, <2>10, CanWriteFacts DEF RowsOf
    <2> QED BY <1>1, <2>1, <2>5, <2>6, <2>7, <2>9, <2>10, <2>11, <2>12, PendStep
  <1> QED BY <1>2, <1>3

LEMMA DecideInv ==
  ASSUME IInv, NEW p \in Procs, Decide(p)
  PROVE  IInv'
  <1>1. proc[p].at = "decide" /\ UNCHANGED <<files, bounds>>
    BY DEF Decide, At
  <1>2. CASE RuleSetExists(proc[p].sha)
    <2> DEFINE s == [proc[p] EXCEPT !.at = "execute"]
               row == [cycle |-> proc[p].cycle, mode |-> proc[p].mode, sha |-> proc[p].sha,
                       rules |-> proc[p].rules, lock |-> proc[p].lock, quiet |-> proc[p].quiet]
               new == [work EXCEPT !.decisions = @ \cup {row}]
    <2>1. Pend(p, new) /\ Moved(p, s) /\ CanWrite(p)
      BY <1>2, SMT DEF Decide, Goto, Moved, Pend
    <2>2. s \in Locals
      BY Local, LocalsType, Zenon DEF Labels
    <2>3. Sound(s) /\ s.at = "execute" /\ s.done = proc[p].done
      <3>1. proc[p] \in Locals /\ Sound(proc[p])
        BY Local
      <3>2. /\ s.at = "execute" /\ s.cmd = proc[p].cmd /\ s.quiet = proc[p].quiet
            /\ s.done = proc[p].done /\ s.lock = proc[p].lock /\ s.rules = proc[p].rules
            /\ s.sha = proc[p].sha /\ s.tweets = proc[p].tweets
        BY <3>1 DEF Locals
      <3> HIDE DEF s
      <3>3. Located(s)
        BY <1>1, <3>1, <3>2 DEF Sound, Located
      <3>4. HasRead(s)
        BY <1>1, <3>1, <3>2 DEF Sound, Located, HasRead
      <3>5. Agrees(s)
        BY <1>1, <3>1, <3>2 DEF Sound, Located, Agrees
      <3>6. s.at = "execute" /\ s.done = proc[p].done
        BY <3>2, <1>1
      <3> QED BY <3>3, <3>4, <3>5, <3>6 DEF Sound
    <2>4. /\ row \in DecisionRows
          /\ row.quiet => row.rules = row.lock /\ row.sha = row.lock
          /\ row.sha = proc[p].sha
      BY <1>1, Local DEF DecisionRows, Locals, Sound, Located, HasRead, Agrees
    <2> HIDE DEF s, row
    <2>5. new \in Database
      <3>1. work.decisions \cup {row} \in SUBSET DecisionRows
        BY <2>1, <2>4, CanWriteFacts DEF Database
      <3> QED BY <2>1, <3>1, CanWriteFacts, DatabaseType
    <2>6. /\ new.cycles = work.cycles /\ new.tables = work.tables
          /\ new.version = work.version /\ new.ruleSets = work.ruleSets
          /\ new.mentions = work.mentions /\ new.decisions = work.decisions \cup {row}
          /\ new.source = work.source
      BY <2>1, CanWriteFacts DEF Database
    <2> HIDE DEF new
    <2>7. RowsOf(new) /\ IsFiniteSet(new.cycles)
      BY <1>2, <2>1, <2>4, <2>6, CanWriteFacts DEF RowsOf, RuleSetExists
    <2> QED BY <1>1, <2>1, <2>2, <2>3, <2>5, <2>6, <2>7, PendStep
  <1>3. CASE ~RuleSetExists(proc[p].sha)
    <2> DEFINE s == [proc[p] EXCEPT !.at = "finish", !.result = "error"]
    <2>1. UNCHANGED db /\ proc' = [proc EXCEPT ![p].at = "finish", ![p].result = "error"]
      BY <1>3, Zenon DEF Decide
    <2>2. [proc EXCEPT ![p].at = "finish", ![p].result = "error"] = [proc EXCEPT ![p] = s]
      OBVIOUS
    <2>3. Moved(p, s)
      BY <2>1, <2>2 DEF Moved
    <2>4. s \in Locals
      BY Local, LocalsType, Zenon DEF Labels
    <2>5. Sound(s) /\ s.at = "finish" /\ s.done = proc[p].done
      <3>1. proc[p] \in Locals /\ Sound(proc[p])
        BY Local
      <3>2. /\ s.at = "finish" /\ s.cmd = proc[p].cmd /\ s.quiet = proc[p].quiet
            /\ s.done = proc[p].done /\ s.lock = proc[p].lock /\ s.rules = proc[p].rules
            /\ s.sha = proc[p].sha /\ s.tweets = proc[p].tweets
        BY <3>1 DEF Locals
      <3> HIDE DEF s
      <3>3. Located(s)
        BY <1>1, <3>1, <3>2 DEF Sound, Located
      <3>4. HasRead(s)
        BY <1>1, <3>1, <3>2 DEF Sound, Located, HasRead
      <3>5. Agrees(s)
        BY <1>1, <3>1, <3>2 DEF Sound, Located, Agrees
      <3>6. s.at = "finish" /\ s.done = proc[p].done
        BY <3>2, <1>1
      <3> QED BY <3>3, <3>4, <3>5, <3>6 DEF Sound
    <2> HIDE DEF s
    <2> QED BY <1>1, <2>1, <2>3, <2>4, <2>5, Local, FilesStep DEF files, bounds
  <1> QED BY <1>2, <1>3

LEMMA ExecuteInv ==
  ASSUME IInv, NEW p \in Procs, Execute(p)
  PROVE  IInv'
  <1> DEFINE s == [proc[p] EXCEPT !.at = "finish"]
  <1>1. proc[p].at = "execute" /\ UNCHANGED <<files, bounds>> /\ Moved(p, s)
    BY SMT DEF Execute, At, Goto, Moved
  <1>2. s \in Locals
    BY Local, LocalsType, Zenon DEF Labels
  <1>3. Sound(s) /\ s.at = "finish" /\ s.done = proc[p].done
    <2>1. proc[p] \in Locals /\ Sound(proc[p])
      BY Local
    <2>2. /\ s.at = "finish" /\ s.cmd = proc[p].cmd /\ s.quiet = proc[p].quiet
          /\ s.done = proc[p].done /\ s.lock = proc[p].lock /\ s.rules = proc[p].rules
          /\ s.sha = proc[p].sha /\ s.tweets = proc[p].tweets
      BY <2>1 DEF Locals
    <2> HIDE DEF s
    <2>3. Located(s)
      BY <1>1, <2>1, <2>2 DEF Sound, Located
    <2>4. HasRead(s)
      BY <1>1, <2>1, <2>2 DEF Sound, Located, HasRead
    <2>5. Agrees(s)
      BY <1>1, <2>1, <2>2 DEF Sound, Located, Agrees
    <2>6. s.at = "finish" /\ s.done = proc[p].done
      BY <2>2, <1>1
    <2> QED BY <2>3, <2>4, <2>5, <2>6 DEF Sound
  <1> HIDE DEF s
  <1>4. CASE proc[p].mode = "paper"
    <2> DEFINE row == Approval(proc[p].cycle, "system")
               new == [work EXCEPT !.approvals = @ \cup {row},
                                   !.orders = @ \cup {proc[p].cycle}]
    <2>1. Commit(p, new) /\ CanWrite(p)
      BY <1>4, SMT DEF Execute, Commit
    <2>2. row \in ApprovalRows /\ proc[p].cycle \in Nat
      BY <2>1, Local, CanWriteFacts DEF Approval, ApprovalRows, Locals
    <2> HIDE DEF row
    <2>3. new \in Database
      <3>1. /\ work.approvals \cup {row} \in SUBSET ApprovalRows
            /\ work.orders \cup {proc[p].cycle} \in SUBSET Nat
        BY <2>1, <2>2, CanWriteFacts DEF Database
      <3> QED BY <2>1, <3>1, CanWriteFacts, DatabaseType
    <2>4. /\ new.cycles = work.cycles /\ new.tables = work.tables
          /\ new.version = work.version /\ new.ruleSets = work.ruleSets
          /\ new.mentions = work.mentions /\ new.decisions = work.decisions
          /\ new.source = work.source
      BY <2>1, CanWriteFacts DEF Database
    <2> HIDE DEF new
    <2>5. RowsOf(new) /\ IsFiniteSet(new.cycles) /\ ImportOf(new)
      BY <1>1, <2>1, <2>4, CanWriteFacts DEF RowsOf, ImportOf
    <2>6. /\ ledger.tables <= new.tables /\ s.done <= new.tables
          /\ new.version => new.tables = Statements
      BY <1>3, <2>1, <2>4, CanWriteFacts DEF Database
    <2> QED BY <1>1, <1>2, <1>3, <2>1, <2>3, <2>5, <2>6, CommitStep
  <1>5. CASE proc[p].mode # "paper" /\ ValidApprovals(proc[p].cycle) = {}
    <2>1. UNCHANGED db
      BY <1>5 DEF Execute
    <2> QED BY <1>1, <1>2, <1>3, <2>1, Local, FilesStep DEF files, bounds
  <1>6. CASE proc[p].mode # "paper" /\ ValidApprovals(proc[p].cycle) # {}
    <2>1. Rollback
      BY <1>6 DEF Execute
    <2>2. writer = p
      BY <1>1 DEF IInv, Transactions
    <2> QED BY <1>1, <1>2, <1>3, <2>1, <2>2, RollbackStep
  <1> QED BY <1>4, <1>5, <1>6

LEMMA FinishCycleInv ==
  ASSUME IInv, NEW p \in Procs, FinishCycle(p)
  PROVE  IInv'
  <1> DEFINE f == [c \in work.cycles |->
                     IF c.id = proc[p].cycle THEN [c EXCEPT !.outcome = proc[p].result] ELSE c]
             rows == {f[c] : c \in work.cycles}
             new == [work EXCEPT !.cycles = rows]
  <1>1. /\ proc[p].at = "finish" /\ UNCHANGED <<files, bounds>>
        /\ Moved(p, Idle) /\ CanWrite(p)
    BY SMT DEF FinishCycle, At, Exit, Moved, Commit
  <1>2. Commit(p, new)
    <2>1. rows = {IF c.id = proc[p].cycle THEN [c EXCEPT !.outcome = proc[p].result] ELSE c :
                    c \in work.cycles}
      OBVIOUS
    <2> QED BY <2>1 DEF FinishCycle
  <1>3. rows \in SUBSET CycleRows
    <2>1. ASSUME NEW c \in work.cycles
          PROVE  f[c] \in CycleRows
      <3>1. c \in CycleRows /\ proc[p].result \in {"ok", "error"}
        BY <1>1, Local, CanWriteFacts DEF Database, Locals
      <3> QED BY <3>1 DEF CycleRows
    <2> QED BY <2>1
  <1>4. IsFiniteSet(rows)
    <2>1. f \in Surjection(work.cycles, rows)
      BY DEF Surjection
    <2> QED BY <1>1, <2>1, CanWriteFacts, FS_Surjection
  <1> HIDE DEF f, rows
  <1>5. new \in Database
    BY <1>1, <1>3, CanWriteFacts, DatabaseType
  <1>6. /\ new.cycles = rows /\ new.tables = work.tables
        /\ new.version = work.version /\ new.ruleSets = work.ruleSets
        /\ new.mentions = work.mentions /\ new.decisions = work.decisions
        /\ new.source = work.source
    BY <1>1, CanWriteFacts DEF Database
  <1> HIDE DEF new
  <1>7. RowsOf(new) /\ ImportOf(new) /\ IsFiniteSet(new.cycles)
    BY <1>1, <1>4, <1>6, CanWriteFacts DEF RowsOf, ImportOf
  <1>8. Idle \in Locals /\ Idle.at \notin {"mentions", "execute"} /\ Idle.done = 0
    BY LocalsType, Zenon DEF Idle
  <1>9. /\ ledger.tables <= new.tables /\ Idle.done <= new.tables
        /\ new.version => new.tables = Statements
    BY <1>1, <1>6, <1>8, CanWriteFacts DEF Database
  <1> QED BY <1>1, <1>2, <1>5, <1>7, <1>8, <1>9, IdleSound, CommitStep

(***************************************************************************)
(* The steps of no command.                                                *)
(***************************************************************************)

LEMMA DieInv ==
  ASSUME IInv, NEW p \in Procs, Die(p)
  PROVE  IInv'
  <1>1. Exit(p) /\ UNCHANGED <<files, bounds>>
    BY DEF Die
  <1>2. CASE writer # p
    BY <1>1, <1>2, ExitStep DEF Die
  <1>3. CASE writer = p
    <2>1. Idle \in Locals /\ Idle.at \notin {"mentions", "execute"} /\ Idle.done = 0
      BY LocalsType, Zenon DEF Idle
    <2>2. Rollback /\ Moved(p, Idle)
      BY <1>1, <1>3 DEF Die, Exit, Moved
    <2> QED BY <1>1, <1>3, <2>1, <2>2, IdleSound, RollbackStep
  <1> QED BY <1>2, <1>3

LEMMA StartInv ==
  ASSUME IInv, NEW p \in Procs, NEW cmd \in Command, NEW mode \in Modes, Start(p, cmd, mode)
  PROVE  IInv'
  <1> DEFINE m == IF cmd = "run-cycle" THEN mode ELSE "paper"
             s == [Idle EXCEPT !.cmd = cmd, !.at = Entry(cmd), !.mode = m]
  <1>1. proc[p].at = "idle" /\ UNCHANGED <<files, db, edits>> /\ started' \in 0..MaxCommands
    BY Local, CommandsAssumption DEF Start, At
  <1>2. Moved(p, s)
    BY DEF Start, Moved, Idle
  <1>3. Entry(cmd) \in Labels /\ m \in {"paper", "live"}
    BY CommandsAssumption DEF Entry, Command, Labels
  <1>4. s \in Locals
    BY <1>3, LocalsType, Zenon
  <1>5. Sound(s) /\ s.at \notin {"mentions", "execute"} /\ s.done = 0
    BY DEF Idle, Entry, Command, Sound, Located, HasRead, Agrees
  <1>6. writer # p
    BY <1>1, Local
  <1> HIDE DEF m, s
  <1> QED BY <1>1, <1>2, <1>4, <1>5, <1>6, Local, FilesStep DEF files

LEMMA ExpireInv ==
  ASSUME IInv, NEW a \in ledger.approvals, Expire(a)
  PROVE  IInv'
  <1> DEFINE Expired(rows) == (rows \ {a}) \cup {[a EXCEPT !.valid = FALSE]}
             l == [ledger EXCEPT !.approvals = Expired(@)]
             w == [work EXCEPT !.approvals = Expired(@)]
  <1>1. ledger' = l /\ work' = w /\ UNCHANGED <<files, writer, proc, bounds>>
    BY DEF Expire
  <1>2. ledger \in Database /\ work \in Database
    BY DEF IInv, TypeOK
  <1>3. l \in Database /\ w \in Database
    <2>1. [a EXCEPT !.valid = FALSE] \in ApprovalRows
      BY <1>2 DEF Database, ApprovalRows
    <2>2. Expired(ledger.approvals) \in SUBSET ApprovalRows
      BY <1>2, <2>1 DEF Database
    <2>3. Expired(work.approvals) \in SUBSET ApprovalRows
      BY <1>2, <2>1 DEF Database
    <2> HIDE DEF Expired
    <2> QED BY <1>2, <2>2, <2>3, DatabaseType
  <1>4. /\ l.tables = ledger.tables /\ l.version = ledger.version
        /\ l.ruleSets = ledger.ruleSets /\ l.cycles = ledger.cycles
        /\ l.decisions = ledger.decisions /\ l.mentions = ledger.mentions
        /\ l.source = ledger.source
    BY <1>2 DEF Database
  <1>5. /\ w.tables = work.tables /\ w.version = work.version
        /\ w.ruleSets = work.ruleSets /\ w.cycles = work.cycles
        /\ w.decisions = work.decisions /\ w.mentions = work.mentions
        /\ w.source = work.source
    BY <1>2 DEF Database
  <1>6. work = ledger => w = l
    OBVIOUS
  <1> HIDE DEF l, w
  <1> USE DEF IInv, files, bounds
  <1>7. TypeOK'
    BY <1>1, <1>3 DEF TypeOK
  <1>8. LocalsSound'
    BY <1>1, SoundStays
  <1>9. Transactions'
    BY <1>1, <1>4, <1>5, <1>6 DEF Transactions, At
  <1>10. MigrationSound'
    BY <1>1, <1>4 DEF MigrationSound, VersionMeansSchema
  <1>11. RowsSound'
    BY <1>1, <1>4, <1>5 DEF RowsSound
  <1>12. ImportSound'
    BY <1>1, <1>4, <1>5 DEF ImportSound, ImportsAreWhole, At
  <1> QED BY <1>7, <1>8, <1>9, <1>10, <1>11, <1>12

\* An edit of a file: whatever the running commands have read may be stale.
LEMMA EditStep ==
  ASSUME IInv, Disturb, UNCHANGED <<db, started, lockFile>>, edits' \in 0..MaxEdits,
         rulesFile' \in Rules, tweetsFile' \in SUBSET Tweets, tickersFile' \in SUBSET Tickers
  PROVE  IInv'
  <1> USE DEF IInv, db
  <1>1. ASSUME NEW q \in Procs
        PROVE  /\ proc'[q] \in Locals
               /\ Located(proc'[q]) /\ HasRead(proc'[q]) /\ Agrees(proc[q])'
               /\ proc'[q].at = proc[q].at /\ proc'[q].done = proc[q].done
               /\ proc'[q].sha = proc[q].sha /\ proc'[q].tickers = proc[q].tickers
               /\ proc'[q].tweets = proc[q].tweets
    <2>1. proc[q] \in Locals /\ Located(proc[q]) /\ HasRead(proc[q])
      BY Local DEF Sound
    <2>2. CASE proc[q].at = "idle"
      <3>1. proc'[q] = proc[q]
        BY <2>2 DEF Disturb, At
      <3> QED BY <2>1, <2>2, <3>1 DEF Located, HasRead, Agrees
    <2>3. CASE proc[q].at # "idle"
      <3> DEFINE s == [proc[q] EXCEPT !.quiet = FALSE]
      <3>1. proc'[q] = s
        BY <2>3 DEF Disturb, At
      <3>2. s \in Locals
        BY <2>1, LocalsType, Zenon
      <3>3. /\ s.at = proc[q].at /\ s.done = proc[q].done /\ s.cmd = proc[q].cmd
            /\ s.sha = proc[q].sha /\ s.tickers = proc[q].tickers
            /\ s.tweets = proc[q].tweets /\ s.lock = proc[q].lock
            /\ s.rules = proc[q].rules /\ s.quiet = FALSE
        BY <2>1 DEF Locals
      <3> HIDE DEF s
      <3> QED BY <2>1, <3>1, <3>2, <3>3 DEF Located, HasRead, Agrees
    <2> QED BY <2>2, <2>3
  <1>2. proc' \in [Procs -> Locals]
    <2>1. DOMAIN proc' = Procs /\ proc' = [q \in Procs |-> proc'[q]]
      BY DEF Disturb
    <2> QED BY <1>1, <2>1
  <1>3. TypeOK'
    BY <1>2 DEF TypeOK
  <1>4. LocalsSound'
    BY <1>1 DEF LocalsSound, Located, HasRead
  <1>5. Transactions'
    BY <1>1 DEF Transactions, TypeOK, At
  <1>6. MigrationSound'
    BY <1>1 DEF MigrationSound, VersionMeansSchema
  <1>7. RowsSound'
    BY DEF RowsSound
  <1>8. ImportSound'
    BY <1>1 DEF ImportSound, ImportsAreWhole, At
  <1> QED BY <1>3, <1>4, <1>5, <1>6, <1>7, <1>8

LEMMA EditRulesInv ==
  ASSUME IInv, NEW r \in Rules, EditRules(r)
  PROVE  IInv'
  <1>1. edits' \in 0..MaxEdits /\ tweetsFile \in SUBSET Tweets /\ tickersFile \in SUBSET Tickers
    BY CommandsAssumption DEF IInv, TypeOK, EditRules
  <1> QED BY <1>1, EditStep DEF EditRules

LEMMA CopySourceInv ==
  ASSUME IInv, NEW tweets \in SUBSET Tweets, NEW tickers \in SUBSET Tickers,
         CopySource(tweets, tickers)
  PROVE  IInv'
  <1>1. edits' \in 0..MaxEdits /\ rulesFile \in Rules
    BY CommandsAssumption DEF IInv, TypeOK, CopySource
  <1> QED BY <1>1, EditStep DEF CopySource

(***************************************************************************)
(* The inductive invariant.                                                *)
(***************************************************************************)

LEMMA InitInv == ASSUME Init PROVE IInv
  <1>1. Idle \in Locals /\ Sound(Idle) /\ Idle.at = "idle" /\ Idle.done = 0
    BY LocalsType, IdleSound, Zenon DEF Idle
  <1>2. EmptyDatabase \in Database
    BY CommandsAssumption DEF EmptyDatabase, Database, SourceRow
  <1>3. proc = [p \in Procs |-> Idle]
    BY DEF Init
  <1>4. TypeOK
    BY <1>1, <1>2, CommandsAssumption DEF Init, TypeOK
  <1>5. LocalsSound
    BY <1>1, <1>3 DEF LocalsSound, Sound
  <1>6. Transactions
    BY <1>1, <1>3, FS_EmptySet DEF Init, Transactions, EmptyDatabase, At
  <1>7. MigrationSound
    BY <1>1, <1>3 DEF Init, MigrationSound, VersionMeansSchema, EmptyDatabase
  <1>8. RowsSound
    BY DEF Init, RowsSound, EmptyDatabase
  <1>9. ImportSound
    BY <1>1, <1>3 DEF Init, ImportSound, ImportsAreWhole, EmptyDatabase, At
  <1> QED BY <1>4, <1>5, <1>6, <1>7, <1>8, <1>9 DEF IInv

LEMMA StepInv ==
  ASSUME IInv, NEW p \in Procs, Step(p)
  PROVE  IInv'
  <1>1. CASE OpenDb(p)
    BY <1>1, OpenInv, RunStatementInv, RecordVersionInv DEF OpenDb
  <1>2. CASE ReadRules(p)
    BY <1>2, ReadLockInv, VerifyLockInv, LoadRulesInv, HashRulesInv DEF ReadRules
  <1>3. CASE ApproveRules(p)
    BY <1>3, TruncateLockInv, WriteLockInv, LookUpRuleSetInv, RecordRuleSetInv DEF ApproveRules
  <1>4. CASE Ingest(p)
    BY <1>4, ReadTweetsInv, ReadWhitelistInv, FingerprintInv, CompareSourceInv,
       UpsertSourceInv, InsertMentionsInv DEF Ingest
  <1>5. CASE Approve(p)
    BY <1>5, RecordHumanApprovalInv DEF Approve
  <1>6. CASE RunCycle(p)
    BY <1>6, BeginCycleInv, DecideInv, DecideNothingInv, ExecuteInv, FinishCycleInv DEF RunCycle
  <1> QED BY <1>1, <1>2, <1>3, <1>4, <1>5, <1>6 DEF Step

LEMMA NextInv ==
  ASSUME IInv, [Next]_vars
  PROVE  IInv'
  <1>1. CASE UNCHANGED vars
    <2>1. UNCHANGED <<rulesFile, tweetsFile, tickersFile, lockFile, ledger, work, writer, proc,
                      started, edits>>
      BY <1>1 DEF vars, files, db, bounds
    <2>2. TypeOK'
      BY <2>1 DEF IInv, TypeOK
    <2>3. LocalsSound'
      BY <2>1, SoundStays DEF IInv
    <2>4. Transactions'
      BY <2>1 DEF IInv, Transactions, At
    <2>5. MigrationSound' /\ RowsSound'
      BY <2>1 DEF IInv, MigrationSound, VersionMeansSchema, RowsSound
    <2>6. ImportSound'
      BY <2>1 DEF IInv, ImportSound, ImportsAreWhole, At
    <2> QED BY <2>2, <2>3, <2>4, <2>5, <2>6 DEF IInv
  <1>2. CASE \E p \in Procs : Step(p) \/ Die(p)
    BY <1>2, StepInv, DieInv
  <1>3. CASE \E p \in Procs, cmd \in Command, mode \in Modes : Start(p, cmd, mode)
    BY <1>3, StartInv
  <1>4. CASE \E a \in ledger.approvals : Expire(a)
    BY <1>4, ExpireInv
  <1>5. CASE \E r \in Rules : EditRules(r)
    BY <1>5, EditRulesInv
  <1>6. CASE \E tweets \in SUBSET Tweets, tickers \in SUBSET Tickers : CopySource(tweets, tickers)
    BY <1>6, CopySourceInv
  <1> QED BY <1>1, <1>2, <1>3, <1>4, <1>5, <1>6 DEF Next

\* The inductive invariant of the commands holds in every reachable state: what each
\* command has read is what its next step relies on, and only one of them has writes
\* pending.
THEOREM CommandsInvariant == Spec => []IInv
  <1> QED BY InitInv, NextInv, PTL DEF Spec

(***************************************************************************)
(* What the commands promise.                                              *)
(***************************************************************************)

\* The files, the rows and the processes' locals keep their types.
THEOREM CommandsTypeCorrect == Spec => []TypeOK
  <1>1. IInv => TypeOK
    BY DEF IInv
  <1> QED BY <1>1, CommandsInvariant, PTL

\* db.py: schema_migrations names the migration only once all its tables exist,
\* however many processes run the script and wherever they die.
THEOREM MigrationsComplete == Spec => []VersionMeansSchema
  <1>1. IInv => VersionMeansSchema
    BY DEF IInv, MigrationSound
  <1> QED BY <1>1, CommandsInvariant, PTL

\* R-10: every decision's rule set is in the ledger, and is what the decision obeyed
\* if nobody edited a file while the two commands ran.
THEOREM RulesRecorded == Spec => []DecisionsObeyRecordedRules
  <1>1. IInv => DecisionsObeyRecordedRules
    BY DEF IInv, RowsSound, DecisionsObeyRecordedRules
  <1> QED BY <1>1, CommandsInvariant, PTL

\* R-10: without an edit during the cycle, its decisions obey the rules the lock names.
THEOREM LockGoverns == Spec => []LockGovernsDecisions
  <1>1. IInv => LockGovernsDecisions
    BY DEF IInv, RowsSound, LockGovernsDecisions
  <1> QED BY <1>1, CommandsInvariant, PTL

\* R-1, R-2: the committed source row comes with every mention of its file.
THEOREM ImportsComplete == Spec => []ImportsAreWhole
  <1>1. IInv => ImportsAreWhole
    BY DEF IInv, ImportSound
  <1> QED BY <1>1, CommandsInvariant, PTL

===============================================================================
