------------------------------- MODULE Commands -------------------------------
(***************************************************************************)
(* The `trader` commands as processes (src/trader/cli.py): run-cycle,      *)
(* approve, rules approve and ingest share the rules file, its lock, the   *)
(* source files and the ledger, and only run-cycle takes the cycle lock.   *)
(* Each read of a file and each commit is a step of its own; the files     *)
(* may be edited and a process may die between any two.                    *)
(*                                                                         *)
(* The hash of a file is the content it was computed from.  `ledger` is    *)
(* what is committed; `work` is what the connection holding SQLite's write *)
(* lock sees.  What run-cycle does between its first write and its last is *)
(* the module TradingCycle; here it makes one passed decision or none.     *)
(***************************************************************************)
EXTENDS Naturals, FiniteSets

CONSTANTS
    Procs,         \* the processes
    Rules,         \* contents trading-rules.yaml may have
    Signed,        \* those whose approved_by and approved_at are filled in
    Tweets,        \* records of tweets.json
    Malformed,     \* those the schema refuses
    Tickers,       \* lines of ticker_stats.txt
    Cashtags,      \* the tickers a tweet's text names
    Modes,         \* values of TRADER_MODE
    Statements,    \* CREATE TABLE statements of the migration
    MaxCommands,   \* bound: commands started
    MaxEdits,      \* bound: edits of the files
    NoFile,        \* a file that does not exist, or a hash not taken yet
    NoProc         \* writer while nobody holds the write lock

ASSUME CommandsAssumption ==
    /\ IsFiniteSet(Tweets \X Tickers)
    /\ Signed \subseteq Rules
    /\ Malformed \subseteq Tweets
    /\ Cashtags \in [Tweets -> SUBSET Tickers]
    /\ Modes \subseteq {"paper", "live"}
    /\ Statements \in Nat \ {0}
    /\ MaxCommands \in Nat
    /\ MaxEdits \in Nat
    /\ NoProc \notin Procs
    /\ NoFile \notin Rules

VARIABLES
    rulesFile,     \* trading-rules.yaml
    lockFile,      \* trading-rules.lock, as the hash it names
    tweetsFile,    \* tweets.json
    tickersFile,   \* ticker_stats.txt
    ledger,        \* the committed database
    work,          \* the database with the pending writes of the writer
    writer,        \* the process with an open transaction
    proc,          \* the processes' local state
    started,       \* commands started so far
    edits          \* edits of the files so far

files == <<rulesFile, lockFile, tweetsFile, tickersFile>>
db == <<ledger, work, writer>>
bounds == <<started, edits>>
vars == <<files, db, proc, bounds>>

Command == {"run-cycle", "approve", "rules approve", "ingest"}

\* The tables created so far, whether schema_migrations names the migration,
\* and the rows.  A rule set row, a decision and the source row carry, besides
\* their columns, whether the files were left alone by editors (`quiet`)
\* while the command that wrote them ran; a decision also the rules its
\* limits come from and the hash verify_lock read.
EmptyDatabase ==
    [tables |-> 0, version |-> FALSE, ruleSets |-> {}, cycles |-> {}, decisions |-> {},
     approvals |-> {}, orders |-> {}, mentions |-> {},
     source |-> [sha |-> NoFile, count |-> 0, tickers |-> {}, quiet |-> TRUE]]

Idle ==
    [cmd |-> "none", at |-> "idle", mode |-> "paper", lock |-> NoFile, rules |-> NoFile,
     sha |-> NoFile, tweets |-> {}, tickers |-> {}, done |-> 0, cycle |-> 0,
     result |-> "ok", quiet |-> TRUE]

Init ==
    /\ rulesFile \in Rules
    /\ lockFile = NoFile
    /\ tweetsFile = {}
    /\ tickersFile = Tickers
    /\ ledger = EmptyDatabase
    /\ work = EmptyDatabase
    /\ writer = NoProc
    /\ proc = [p \in Procs |-> Idle]
    /\ started = 0
    /\ edits = 0

-----------------------------------------------------------------------------
(* Transactions and control *)

CanWrite(p) == writer \in {NoProc, p}

\* The first write takes the lock, and nobody else sees what is written.
Pend(p, new) ==
    /\ CanWrite(p)
    /\ work' = new
    /\ writer' = p
    /\ UNCHANGED ledger

Commit(p, new) ==
    /\ CanWrite(p)
    /\ ledger' = new
    /\ work' = new
    /\ writer' = NoProc

Rollback ==
    /\ work' = ledger
    /\ writer' = NoProc
    /\ UNCHANGED ledger

At(p, label) == proc[p].at = label

Goto(p, label) == proc' = [proc EXCEPT ![p].at = label]

Exit(p) == proc' = [proc EXCEPT ![p] = Idle]

\* Where a command begins, and where it goes on once open_db has returned.
Entry(cmd) ==
    CASE cmd = "run-cycle" -> "lock"
      [] cmd = "approve" -> "open"
      [] cmd = "rules approve" -> "load"
      [] cmd = "ingest" -> "tweets"

Opened(cmd) ==
    CASE cmd = "run-cycle" -> "begin"
      [] cmd = "approve" -> "sign"
      [] cmd = "rules approve" -> "lookup"
      [] cmd = "ingest" -> "compare"

Start(p, cmd, mode) ==
    /\ At(p, "idle")
    /\ started < MaxCommands
    /\ started' = started + 1
    /\ proc' = [proc EXCEPT ![p] = [Idle EXCEPT !.cmd = cmd, !.at = Entry(cmd),
                                    !.mode = IF cmd = "run-cycle" THEN mode ELSE @]]
    /\ UNCHANGED <<files, db, edits>>

\* The process dies, or leaves on an error: an unreadable file, a failed write,
\* five seconds of waiting for the write lock.  What is pending is lost.
Die(p) ==
    /\ ~At(p, "idle")
    /\ Exit(p)
    /\ IF writer = p THEN Rollback ELSE UNCHANGED db
    /\ UNCHANGED <<files, bounds>>

-----------------------------------------------------------------------------
(* open_db *)

\* The set of applied versions is read once.
Open(p) ==
    /\ At(p, "open")
    /\ Goto(p, IF ledger.version THEN Opened(proc[p].cmd) ELSE "migrate")
    /\ UNCHANGED <<files, db, bounds>>

\* A mutant: CREATE TABLE IF NOT EXISTS.
NeverExists(p) == FALSE

TableExists(p) == ledger.tables > proc[p].done

\* executescript commits each statement by itself; a table that is already
\* there ends the command.
RunStatement(p) ==
    /\ At(p, "migrate")
    /\ proc[p].done < Statements
    /\ IF TableExists(p)
         THEN Exit(p) /\ UNCHANGED db
         ELSE /\ Commit(p, [ledger EXCEPT !.tables = @ + 1])
              /\ proc' = [proc EXCEPT ![p].done = @ + 1]
    /\ UNCHANGED <<files, bounds>>

\* A mutant: the version is recorded while the script is still running.
ScriptStarted(p) == TRUE

ScriptDone(p) == proc[p].done = Statements

RecordVersion(p) ==
    /\ At(p, "migrate")
    /\ ScriptDone(p)
    /\ Commit(p, [ledger EXCEPT !.version = TRUE])
    /\ Goto(p, Opened(proc[p].cmd))
    /\ UNCHANGED <<files, bounds>>

-----------------------------------------------------------------------------
(* The rules file: load_rules and sha256_of_file read it separately. *)

ReadLock(p) ==
    /\ At(p, "lock")
    /\ IF lockFile = NoFile
         THEN Exit(p)
         ELSE proc' = [proc EXCEPT ![p].at = "verify", ![p].lock = lockFile]
    /\ UNCHANGED <<files, db, bounds>>

\* A mutant: any lock will do.
NeverMismatch(p) == FALSE

Mismatch(p) == rulesFile # proc[p].lock

VerifyLock(p) ==
    /\ At(p, "verify")
    /\ IF Mismatch(p) THEN Exit(p) ELSE Goto(p, "load")
    /\ UNCHANGED <<files, db, bounds>>

LoadRules(p) ==
    /\ At(p, "load")
    /\ IF proc[p].cmd = "rules approve" /\ rulesFile \notin Signed
         THEN Exit(p)
         ELSE proc' = [proc EXCEPT ![p].at = "hash", ![p].rules = rulesFile]
    /\ UNCHANGED <<files, db, bounds>>

HashRules(p) ==
    /\ At(p, "hash")
    /\ proc' = [proc EXCEPT ![p].at = IF proc[p].cmd = "run-cycle" THEN "open" ELSE "truncate",
                            ![p].sha = rulesFile]
    /\ UNCHANGED <<files, db, bounds>>

-----------------------------------------------------------------------------
(* rules approve *)

\* write_text empties the lock before it writes it.
TruncateLock(p) ==
    /\ At(p, "truncate")
    /\ lockFile' = NoFile
    /\ Goto(p, "write")
    /\ UNCHANGED <<rulesFile, tweetsFile, tickersFile, db, bounds>>

WriteLock(p) ==
    /\ At(p, "write")
    /\ lockFile' = proc[p].sha
    /\ Goto(p, "open")
    /\ UNCHANGED <<rulesFile, tweetsFile, tickersFile, db, bounds>>

Recorded(sha) == \E r \in ledger.ruleSets : r.sha = sha

LookUpRuleSet(p) ==
    /\ At(p, "lookup")
    /\ IF Recorded(proc[p].sha) THEN Exit(p) ELSE Goto(p, "record")
    /\ UNCHANGED <<files, db, bounds>>

\* content_yaml comes from a read of its own.
RuleSetRow(p) == [sha |-> proc[p].sha, content |-> rulesFile, quiet |-> proc[p].quiet]

\* The primary key refuses the row another process has inserted meanwhile.
RecordRuleSet(p) ==
    /\ At(p, "record")
    /\ IF Recorded(proc[p].sha)
         THEN UNCHANGED db
         ELSE Commit(p, [ledger EXCEPT !.ruleSets = @ \cup {RuleSetRow(p)}])
    /\ Exit(p)
    /\ UNCHANGED <<files, bounds>>

-----------------------------------------------------------------------------
(* ingest *)

Mentions(tweets, tickers) == {m \in tweets \X tickers : m[2] \in Cashtags[m[1]]}

ReadTweets(p) ==
    /\ At(p, "tweets")
    /\ proc' = [proc EXCEPT ![p].at = "tickers", ![p].tweets = tweetsFile]
    /\ UNCHANGED <<files, db, bounds>>

\* One malformed record refuses the whole file.
ReadWhitelist(p) ==
    /\ At(p, "tickers")
    /\ IF proc[p].tweets \cap Malformed # {}
         THEN Exit(p)
         ELSE proc' = [proc EXCEPT ![p].at = "fingerprint", ![p].tickers = tickersFile]
    /\ UNCHANGED <<files, db, bounds>>

\* _compute_data_dir_sha256 reads tweets.json again, and nothing else.
Fingerprint(p) ==
    /\ At(p, "fingerprint")
    /\ proc' = [proc EXCEPT ![p].at = "open", ![p].sha = tweetsFile]
    /\ UNCHANGED <<files, db, bounds>>

CompareSource(p) ==
    /\ At(p, "compare")
    /\ IF ledger.source.sha = proc[p].sha THEN Exit(p) ELSE Goto(p, "upsert")
    /\ UNCHANGED <<files, db, bounds>>

\* A mutant: the source row is committed before its mentions.
UpsertCommitted(p, new) == Commit(p, new)

Upsert(p, new) == Pend(p, new)

UpsertSource(p) ==
    /\ At(p, "upsert")
    /\ LET load == Mentions(proc[p].tweets, proc[p].tickers)
       IN  Upsert(p, [work EXCEPT !.source =
               [sha |-> proc[p].sha, count |-> Cardinality(load),
                tickers |-> proc[p].tickers, quiet |-> proc[p].quiet]])
    /\ Goto(p, "mentions")
    /\ UNCHANGED <<files, bounds>>

\* INSERT OR IGNORE: a mention keeps its first row.
InsertMentions(p) ==
    /\ At(p, "mentions")
    /\ Commit(p, [work EXCEPT !.mentions = @ \cup Mentions(proc[p].tweets, proc[p].tickers)])
    /\ Exit(p)
    /\ UNCHANGED <<files, bounds>>

-----------------------------------------------------------------------------
(* approve *)

\* The time of an approval is the number of cycles that had started by then.
Approval(decision, approver) ==
    [decision |-> decision, approver |-> approver, after |-> Cardinality(work.cycles),
     valid |-> TRUE]

RecordHumanApproval(p, d) ==
    /\ At(p, "sign")
    /\ Commit(p, [ledger EXCEPT !.approvals = @ \cup {Approval(d.cycle, "kyo")}])
    /\ Exit(p)
    /\ UNCHANGED <<files, bounds>>

\* Time passes expires_at.
Expire(a) ==
    /\ a.valid
    /\ LET Expired(rows) == (rows \ {a}) \cup {[a EXCEPT !.valid = FALSE]}
       IN  /\ ledger' = [ledger EXCEPT !.approvals = Expired(@)]
           /\ work' = [work EXCEPT !.approvals = Expired(@)]
    /\ UNCHANGED <<files, writer, proc, bounds>>

-----------------------------------------------------------------------------
(* run-cycle *)

InCycle(p) == proc[p].at \in {"decide", "execute", "finish"}

\* The cycle lock, and the cycles row.
BeginCycle(p) ==
    /\ At(p, "begin")
    /\ IF \E q \in Procs : InCycle(q)
         THEN Exit(p) /\ UNCHANGED db
         ELSE LET id == Cardinality(work.cycles) + 1
              IN  /\ Pend(p, [work EXCEPT !.cycles =
                         @ \cup {[id |-> id, mode |-> proc[p].mode, outcome |-> "none"]}])
                  /\ proc' = [proc EXCEPT ![p].at = "decide", ![p].cycle = id]
    /\ UNCHANGED <<files, bounds>>

\* A mutant: rule_set_sha256 references nothing.
AnyRuleSet(sha) == TRUE

RuleSetExists(sha) == \E r \in work.ruleSets : r.sha = sha

\* A decision passes the rules and is inserted, if its rule set is in the
\* ledger; if it is not, the cycle ends in error.
Decide(p) ==
    /\ At(p, "decide")
    /\ IF RuleSetExists(proc[p].sha)
         THEN /\ Pend(p, [work EXCEPT !.decisions = @ \cup
                     {[cycle |-> proc[p].cycle, mode |-> proc[p].mode, sha |-> proc[p].sha,
                       rules |-> proc[p].rules, lock |-> proc[p].lock,
                       quiet |-> proc[p].quiet]}])
              /\ Goto(p, "execute")
         ELSE /\ proc' = [proc EXCEPT ![p].at = "finish", ![p].result = "error"]
              /\ UNCHANGED db
    /\ UNCHANGED <<files, bounds>>

DecideNothing(p) ==
    /\ At(p, "decide")
    /\ Goto(p, "finish")
    /\ UNCHANGED <<files, db, bounds>>

ValidApprovals(decision) ==
    {a \in work.approvals : a.decision = decision /\ a.approver = "kyo" /\ a.valid}

\* resolve_approval and execute, for the decision this cycle has made: in paper
\* mode a new system approval and the order are recorded; in live mode the
\* decision needs an approval in the ledger, and inserting that row once more
\* breaks its primary key.
Execute(p) ==
    /\ At(p, "execute")
    /\ LET d == proc[p].cycle
       IN  IF proc[p].mode = "paper"
             THEN Commit(p, [work EXCEPT !.approvals = @ \cup {Approval(d, "system")},
                                         !.orders = @ \cup {d}])
             ELSE IF ValidApprovals(d) = {} THEN UNCHANGED db ELSE Rollback
    /\ Goto(p, "finish")
    /\ UNCHANGED <<files, bounds>>

\* finish_cycle updates this cycle's row, if it is still there.
FinishCycle(p) ==
    /\ At(p, "finish")
    /\ Commit(p, [work EXCEPT !.cycles =
           {IF c.id = proc[p].cycle THEN [c EXCEPT !.outcome = proc[p].result] ELSE c : c \in @}])
    /\ Exit(p)
    /\ UNCHANGED <<files, bounds>>

-----------------------------------------------------------------------------
(* The operator's editor and cp *)

Disturb == proc' = [p \in Procs |-> IF At(p, "idle") THEN proc[p]
                                    ELSE [proc[p] EXCEPT !.quiet = FALSE]]

EditRules(r) ==
    /\ edits < MaxEdits
    /\ rulesFile' = r
    /\ edits' = edits + 1
    /\ Disturb
    /\ UNCHANGED <<lockFile, tweetsFile, tickersFile, db, started>>

CopySource(tweets, tickers) ==
    /\ edits < MaxEdits
    /\ tweetsFile' = tweets
    /\ tickersFile' = tickers
    /\ edits' = edits + 1
    /\ Disturb
    /\ UNCHANGED <<rulesFile, lockFile, db, started>>

-----------------------------------------------------------------------------

OpenDb(p) == Open(p) \/ RunStatement(p) \/ RecordVersion(p)

ReadRules(p) == ReadLock(p) \/ VerifyLock(p) \/ LoadRules(p) \/ HashRules(p)

ApproveRules(p) ==
    TruncateLock(p) \/ WriteLock(p) \/ LookUpRuleSet(p) \/ RecordRuleSet(p)

Ingest(p) ==
    \/ ReadTweets(p)
    \/ ReadWhitelist(p)
    \/ Fingerprint(p)
    \/ CompareSource(p)
    \/ UpsertSource(p)
    \/ InsertMentions(p)

Approve(p) == \E d \in ledger.decisions : RecordHumanApproval(p, d)

RunCycle(p) ==
    BeginCycle(p) \/ Decide(p) \/ DecideNothing(p) \/ Execute(p) \/ FinishCycle(p)

Step(p) ==
    \/ OpenDb(p)
    \/ ReadRules(p)
    \/ ApproveRules(p)
    \/ Ingest(p)
    \/ Approve(p)
    \/ RunCycle(p)

Next ==
    \/ \E p \in Procs : Step(p) \/ Die(p)
    \/ \E p \in Procs, cmd \in Command, mode \in Modes : Start(p, cmd, mode)
    \/ \E a \in ledger.approvals : Expire(a)
    \/ \E r \in Rules : EditRules(r)
    \/ \E tweets \in SUBSET Tweets, tickers \in SUBSET Tickers : CopySource(tweets, tickers)

Spec == Init /\ [][Next]_vars
===============================================================================
