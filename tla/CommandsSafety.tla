---------------------------- MODULE CommandsSafety ----------------------------
(***************************************************************************)
(* What must be true of the commands, however their steps interleave with  *)
(* each other, with edits of the files and with processes that die.        *)
(***************************************************************************)
EXTENDS Commands

RuleSetRows == [sha : Rules, content : Rules, quiet : BOOLEAN]

CycleRows == [id : Nat, mode : {"paper", "live"}, outcome : {"none", "ok", "error"}]

DecisionRows ==
    [cycle : Nat, mode : {"paper", "live"}, sha : Rules, rules : Rules, lock : Rules,
     quiet : BOOLEAN]

ApprovalRows == [decision : Nat, approver : {"system", "kyo"}, after : Nat, valid : BOOLEAN]

SourceRow == [sha : {NoFile} \cup SUBSET Tweets, count : Nat, tickers : SUBSET Tickers,
              quiet : BOOLEAN]

Database ==
    [tables : 0..Statements, version : BOOLEAN, ruleSets : SUBSET RuleSetRows,
     cycles : SUBSET CycleRows, decisions : SUBSET DecisionRows,
     approvals : SUBSET ApprovalRows, orders : SUBSET Nat,
     mentions : SUBSET (Tweets \X Tickers), source : SourceRow]

Labels == {"idle", "open", "migrate", "lock", "verify", "load", "hash", "truncate", "write",
           "lookup", "record", "tweets", "tickers", "fingerprint", "compare", "upsert",
           "mentions", "sign", "begin", "decide", "execute", "finish"}

Locals ==
    [cmd : Command \cup {"none"}, at : Labels, mode : {"paper", "live"},
     lock : {NoFile} \cup Rules, rules : {NoFile} \cup Rules,
     sha : {NoFile} \cup Rules \cup SUBSET Tweets, tweets : SUBSET Tweets,
     tickers : SUBSET Tickers, done : 0..Statements, cycle : Nat,
     result : {"ok", "error"}, quiet : BOOLEAN]

\* The values of the files, the rows and the processes' locals.
TypeOK ==
    /\ rulesFile \in Rules
    /\ lockFile \in {NoFile} \cup Rules
    /\ tweetsFile \subseteq Tweets
    /\ tickersFile \subseteq Tickers
    /\ ledger \in Database
    /\ work \in Database
    /\ writer \in Procs \cup {NoProc}
    /\ proc \in [Procs -> Locals]
    /\ started \in 0..MaxCommands
    /\ edits \in 0..MaxEdits

\* db.py: a database whose schema_migrations names the migration has all its
\* tables, whichever processes ran the script, at once or after one another, and
\* wherever they died.  Every command but the first relies on it.
VersionMeansSchema == ledger.version => ledger.tables = Statements

\* R-10: what a decision obeyed can be looked up.  Its rule set is in the ledger
\* whatever happens to the files; and if nobody edits a file while the cycle
\* starts and while the rule set is recorded, the content recorded under that
\* hash is the very rules the decision's limits were derived from.
DecisionsObeyRecordedRules ==
    \A d \in ledger.decisions :
        /\ \E r \in ledger.ruleSets : r.sha = d.sha
        /\ \A r \in ledger.ruleSets :
               r.sha = d.sha /\ r.quiet /\ d.quiet => r.content = d.rules

\* R-10: the rules of a decision are those the lock named when its cycle started,
\* so a file that was approved once and replaced since needs approval again.
LockGovernsDecisions ==
    \A d \in ledger.decisions : d.quiet => d.rules = d.lock /\ d.sha = d.lock

\* R-1, R-2: the hash in the source row is what later ingests answer "unchanged"
\* from, so every mention of the imported file must be there with it, wherever
\* the import died and whatever another ingest did meanwhile.
ImportsAreWhole ==
    LET s == ledger.source
    IN  s.sha # NoFile /\ s.quiet => Mentions(s.sha, s.tickers) \subseteq ledger.mentions

\* R-17: an approval given to a decision lets it be sent: it is not valid still
\* once a later live cycle has come to its end without an order for it.
ApprovedDecisionsAreSent ==
    \A a \in ledger.approvals :
        /\ a.approver = "kyo"
        /\ a.valid
        /\ \E c \in ledger.cycles : c.id > a.after /\ c.mode = "live" /\ c.outcome = "ok"
        => a.decision \in ledger.orders

-----------------------------------------------------------------------------
(* The inductive invariant *)

\* Which command each label belongs to.
Located(s) ==
    /\ s.at # "idle" => s.cmd \in Command
    /\ s.at \in {"lock", "verify", "begin", "decide", "execute", "finish"} => s.cmd = "run-cycle"
    /\ s.at \in {"load", "hash"} => s.cmd \in {"run-cycle", "rules approve"}
    /\ s.at \in {"truncate", "write", "lookup", "record"} => s.cmd = "rules approve"
    /\ s.at \in {"tweets", "tickers", "fingerprint", "compare", "upsert", "mentions"}
         => s.cmd = "ingest"

\* What a command has read when it gets there.
HasRead(s) ==
    /\ s.cmd = "run-cycle" /\ s.at \notin {"idle", "lock"} => s.lock \in Rules
    /\ s.cmd = "run-cycle" /\ s.at \notin {"idle", "lock", "verify", "load"} => s.rules \in Rules
    /\ /\ s.cmd \in {"run-cycle", "rules approve"}
       /\ s.at \notin {"idle", "lock", "verify", "load", "hash"}
       => s.sha \in Rules
    /\ s.cmd = "ingest" /\ s.at \notin {"idle", "tweets", "tickers", "fingerprint"}
         => s.sha \in SUBSET Tweets

\* While nobody edits a file, what has been read is still what the file holds, and
\* separate reads of one file agree.
Agrees(s) ==
    s.quiet =>
        /\ s.cmd = "run-cycle" /\ s.at \in {"load", "hash"} => s.lock = rulesFile
        /\ s.cmd = "run-cycle" /\ s.at \in {"hash", "open", "migrate", "begin", "decide"}
             => s.rules = s.lock
        /\ s.cmd = "run-cycle" /\ s.at \in {"open", "migrate", "begin", "decide"}
             => s.sha = s.lock
        /\ s.cmd = "rules approve"
           /\ s.at \in {"truncate", "write", "open", "migrate", "lookup", "record"}
             => s.sha = rulesFile
        /\ s.at \in {"tickers", "fingerprint"} => s.tweets = tweetsFile
        /\ s.cmd = "ingest" /\ s.at \in {"open", "migrate", "compare", "upsert"}
             => s.sha = s.tweets

LocalsSound == \A p \in Procs : Located(proc[p]) /\ HasRead(proc[p]) /\ Agrees(proc[p])

\* Who may have writes pending, and to which tables.
Transactions ==
    /\ writer = NoProc => work = ledger
    /\ writer # NoProc => proc[writer].at \in {"mentions", "decide", "execute", "finish"}
    /\ \A p \in Procs : proc[p].at \in {"mentions", "execute"} => writer = p
    /\ work.tables = ledger.tables
    /\ work.version = ledger.version
    /\ work.ruleSets = ledger.ruleSets
    /\ work.mentions = ledger.mentions
    /\ work.source # ledger.source => writer # NoProc /\ At(writer, "mentions")
    /\ IsFiniteSet(ledger.cycles)
    /\ IsFiniteSet(work.cycles)

\* Every table a process has created is still there.
MigrationSound ==
    /\ \A p \in Procs : proc[p].done <= ledger.tables
    /\ VersionMeansSchema

RowsSound ==
    /\ \A d \in ledger.decisions \cup work.decisions :
           /\ \E r \in ledger.ruleSets : r.sha = d.sha
           /\ d.quiet => d.rules = d.lock /\ d.sha = d.lock
    /\ \A r \in ledger.ruleSets : r.quiet => r.content = r.sha

\* The source row of an import in progress is the one of what will be inserted.
ImportSound ==
    /\ ImportsAreWhole
    /\ \A p \in Procs : At(p, "mentions") =>
           /\ work.source.sha = proc[p].sha
           /\ work.source.tickers = proc[p].tickers
           /\ work.source.quiet => proc[p].sha = proc[p].tweets

IInv ==
    /\ TypeOK
    /\ LocalsSound
    /\ Transactions
    /\ MigrationSound
    /\ RowsSound
    /\ ImportSound
===============================================================================
