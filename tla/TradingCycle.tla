----------------------------- MODULE TradingCycle -----------------------------
(***************************************************************************)
(* One run-cycle process at a time over one ledger and one broker          *)
(* (src/trader/engine/cycle.py, order_executor.py, fills.py,               *)
(* kill_switch.py), in paper mode.                                         *)
(*                                                                         *)
(* `db` is what is committed; `work` is what the cycle's connection sees,  *)
(* the open transaction included.  Every write of a cycle is pending until *)
(* the next successful transaction() or the commit of _finish, and a       *)
(* transaction() that fails rolls all of it back, not just its own block.  *)
(* The process may die at any point: the flock and the pending writes go   *)
(* with it, the broker keeps what it has accepted.                         *)
(***************************************************************************)
EXTENDS Ledger

CONSTANTS
    MaxPositions,  \* rules.position.max_concurrent_positions
    PollBudget,    \* bound: polls that fit in poll_timeout_s
    DbFaults,      \* the ledger writes that may fail (disk full, busy, ...)
    NoDecision     \* cur while no order is being executed

Faults == {"decision", "snapshot", "halt", "record", "failed", "submitted",
           "fill", "position", "trade", "status", "finish"}

ASSUME CycleAssumption ==
    /\ MaxPositions \in Nat
    /\ PollBudget \in Nat
    /\ DbFaults \subseteq Faults
    /\ NoDecision \notin Order

VARIABLES
    db,        \* the committed ledger
    work,      \* the ledger as the running cycle's connection reads it
    broker,    \* the broker's orders, by client order id
    pc,        \* where the running cycle is; "idle" when the lock is free
    cycle,     \* cycles started so far, the last one being the current one
    open,      \* market_clock.is_open as this cycle read it
    outcome,   \* the outcome _finish will write
    todo,      \* passed decisions not yet executed
    cur,       \* the decision being executed
    recorded,  \* fills.poll_and_settle: recorded_qty
    elapsed    \* fills.poll_and_settle: elapsed, in polls

ledgerVars == <<db, work>>
runVars == <<pc, cycle, open, outcome, todo, cur, recorded, elapsed>>
vars == <<ledgerVars, broker, runVars>>

Deciding == {"market", "risk", "persist", "candidates"}
Handling == {"submit", "mark", "poll"}
PC == {"idle", "execute", "finish"} \cup Deciding \cup Handling

\* An order as the broker holds it: "none" before it was ever received.
BrokerStatus == {"none", "open", "filled", "canceled", "rejected"}
BrokerOrder == [status : BrokerStatus, qty : 0..Lot, filled : Nat]
NoOrder == [status |-> "none", qty |-> 0, filled |-> 0]

Received(o) == broker[o].status # "none"

Init ==
    /\ db = EmptyLedger
    /\ work = EmptyLedger
    /\ broker = [o \in Order |-> NoOrder]
    /\ pc = "idle"
    /\ cycle = 0
    /\ open = FALSE
    /\ outcome = "ok"
    /\ todo = {}
    /\ cur = NoDecision
    /\ recorded = 0
    /\ elapsed = 0

\* A mutant: the caller goes on to the orders instead of returning.
EndWithoutReturning(result) ==
    /\ pc' = "execute"
    /\ outcome' = result
    /\ UNCHANGED todo

\* The cycle stops here and only _finish is left to run.
EndWith(result) ==
    /\ pc' = "finish"
    /\ outcome' = result
    /\ todo' = {}

\* A mutant: the market clock is not consulted.
ExecuteAnyway(isOpen, D, result) ==
    pc' = "execute" /\ outcome' = result /\ todo' = D

\* The decisions D are executed in market hours; the cycle ends with `result`.
ExecuteIfOpen(isOpen, D, result) ==
    IF isOpen
    THEN pc' = "execute" /\ outcome' = result /\ todo' = D
    ELSE EndWith(result)

\* A mutant: the rows stay pending.
CommitLater == UNCHANGED db

\* transaction() succeeded: the block's rows and all that was pending are kept.
Commit == db' = work'

\* transaction() failed: all that was pending is gone.
Rollback == work' = db /\ UNCHANGED db

\* The locals of execute and poll_and_settle go when the order is done with.
DropOrder ==
    /\ cur' = NoDecision
    /\ recorded' = 0
    /\ elapsed' = 0

\* The lock is released: _run_locked has returned, or the process is gone.
Release ==
    /\ pc' = "idle"
    /\ open' = FALSE
    /\ outcome' = "ok"
    /\ todo' = {}
    /\ DropOrder

Decision(t, s) == [cycle |-> cycle, ticker |-> t, side |-> s]
Decisions(T, s) == {Decision(t, s) : t \in T}

\* A mutant: the flag is never looked at.
NeverHalted == FALSE

IsHalted == work.halted

\* A mutant: each buy of the batch is compared with the holdings alone.
SlotForEach(T) == T # {} => Cardinality(Held(work)) < MaxPositions

\* check_entry on each passed buy counts the holdings and the batch before it.
SlotsFor(T) == Cardinality(Held(work) \cup T) <= MaxPositions
-------------------------------------------------------------------------------
(***************************************************************************)
(* From the lock to the decisions (_run_locked, _evaluate_risk).           *)
(***************************************************************************)

\* The lock is taken and the cycle row inserted; a halted engine only judges
\* its holdings and ends, whatever evaluate_holdings answers.
StartCycle ==
    /\ pc = "idle"
    /\ cycle < MaxCycles
    /\ cycle' = cycle + 1
    /\ \/ /\ ~IsHalted
          /\ work' = InsertCycle(work, cycle')
          /\ pc' = "market"
          /\ UNCHANGED <<outcome, todo>>
       \/ /\ IsHalted
          /\ \E T \in SUBSET Held(work) :
                 work' = InsertDecisions(InsertCycle(work, cycle'),
                             {[cycle |-> cycle', ticker |-> t, side |-> "sell"] : t \in T})
          /\ EndWith("halted")
    /\ UNCHANGED <<db, broker, open, cur, recorded, elapsed>>

MarketClockUnavailable ==
    /\ pc = "market"
    /\ EndWith("market_unavailable")
    /\ UNCHANGED <<ledgerVars, broker, cycle, open, cur, recorded, elapsed>>

\* T are the holdings that trip an exit rule, M those with no price.  A missing
\* price ends the cycle after the priced exits, if the market is open.
EvaluateHoldings(isOpen, T, M) ==
    /\ pc = "market"
    /\ T \subseteq Held(work) \ M
    /\ work' = InsertDecisions(work, Decisions(T, "sell"))
    /\ open' = isOpen
    /\ IF M = {}
       THEN pc' = "risk" /\ outcome' = "ok" /\ todo' = Decisions(T, "sell")
       ELSE ExecuteIfOpen(isOpen, Decisions(T, "sell"), "market_unavailable")
    /\ UNCHANGED <<db, broker, cycle, cur, recorded, elapsed>>

\* A write of evaluate_holdings failed after the decisions for T were inserted.
HoldingsFail(T) ==
    /\ pc = "market"
    /\ "decision" \in DbFaults
    /\ T \subseteq Held(work)
    /\ work' = InsertDecisions(work, Decisions(T, "sell"))
    /\ EndWith("error")
    /\ UNCHANGED <<db, broker, cycle, open, cur, recorded, elapsed>>

AccountUnavailable ==
    /\ pc = "risk"
    /\ EndWith("market_unavailable")
    /\ UNCHANGED <<ledgerVars, broker, cycle, open, cur, recorded, elapsed>>

SnapshotFails ==
    /\ pc = "risk"
    /\ "snapshot" \in DbFaults
    /\ EndWith("error")
    /\ UNCHANGED <<ledgerVars, broker, cycle, open, cur, recorded, elapsed>>

\* No limit is breached.  With every position slot taken the candidates are
\* skipped; sells go on if the market is open.
WithinLimits ==
    /\ pc = "risk"
    /\ IF Cardinality(Held(work)) < MaxPositions
       THEN pc' = "candidates" /\ UNCHANGED <<outcome, todo>>
       ELSE ExecuteIfOpen(open, todo, "ok")
    /\ UNCHANGED <<ledgerVars, broker, cycle, open, cur, recorded, elapsed>>

\* kill_switch.trigger, first half: cancel_all_open.  The call may fail, and a
\* cancellation the broker accepted may still lose to a fill: any open order
\* may survive it.
LossLimitBreached(C) ==
    /\ pc = "risk"
    /\ C \subseteq {o \in Order : broker[o].status = "open"}
    /\ broker' = [o \in Order |->
                     IF o \in C THEN [broker[o] EXCEPT !.status = "canceled"] ELSE broker[o]]
    /\ pc' = "persist"
    /\ UNCHANGED <<ledgerVars, cycle, open, outcome, todo, cur, recorded, elapsed>>

\* Second half: `halted` is committed, and the cycle's pending rows with it.
PersistHalt ==
    /\ pc = "persist"
    /\ work' = [work EXCEPT !.halted = TRUE]
    /\ Commit
    /\ EndWith("halted")
    /\ UNCHANGED <<broker, cycle, open, cur, recorded, elapsed>>

PersistHaltFails ==
    /\ pc = "persist"
    /\ "halt" \in DbFaults
    /\ Rollback
    /\ EndWith("error")
    /\ UNCHANGED <<broker, cycle, open, cur, recorded, elapsed>>

\* T are the candidates whose buy passed check_entry: none is held, the market
\* is open, and each passed buy counts against max_concurrent_positions.
EvaluateCandidates(T) ==
    /\ pc = "candidates"
    /\ T \subseteq Tickers \ Held(work)
    /\ T # {} => open
    /\ SlotsFor(T)
    /\ work' = InsertDecisions(work, Decisions(T, "buy"))
    /\ ExecuteIfOpen(open, todo \cup Decisions(T, "buy"), "ok")
    /\ UNCHANGED <<db, broker, cycle, open, cur, recorded, elapsed>>

CandidatesFail(T) ==
    /\ pc = "candidates"
    /\ "decision" \in DbFaults
    /\ T \subseteq Tickers \ Held(work)
    /\ T # {} => open
    /\ work' = InsertDecisions(work, Decisions(T, "buy"))
    /\ EndWith("error")
    /\ UNCHANGED <<db, broker, cycle, open, cur, recorded, elapsed>>
-------------------------------------------------------------------------------
(***************************************************************************)
(* _execute_passed_decisions: sells before buys, one at a time.            *)
(***************************************************************************)

NextDecision(o) ==
    /\ pc = "execute"
    /\ o \in todo
    /\ o.side = "buy" => \A p \in todo : p.side = "buy"

\* resolve_approval refuses the decision (it sizes to zero shares).
NotApproved(o) ==
    /\ NextDecision(o)
    /\ todo' = todo \ {o}
    /\ UNCHANGED <<ledgerVars, broker, pc, cycle, open, outcome, cur, recorded, elapsed>>

\* execute: decision, approval and order rows are committed in one transaction,
\* and with them everything the cycle had pending.
RecordThenCommit(o, q) ==
    /\ NextDecision(o)
    /\ DecisionInsertable(work, o)
    /\ q \in 1..Lot
    /\ o.side = "sell" => q <= work.pos[o.ticker]
    /\ work' = RecordOrder(work, o, q)
    /\ Commit
    /\ pc' = "submit"
    /\ cur' = o
    /\ todo' = todo \ {o}
    /\ UNCHANGED <<broker, cycle, open, outcome, recorded, elapsed>>

\* The transaction fails, or the decision's cycle row was lost to an earlier
\* rollback: everything pending is rolled back and the loop goes on.
RecordFails(o) ==
    /\ NextDecision(o)
    /\ "record" \in DbFaults \/ ~DecisionInsertable(work, o)
    /\ Rollback
    /\ todo' = todo \ {o}
    /\ UNCHANGED <<broker, pc, cycle, open, outcome, cur, recorded, elapsed>>

ReceiveOrder == [broker EXCEPT ![cur] = [status |-> "open", qty |-> work.qty[cur], filled |-> 0]]

\* broker.submit_market_order answered.
Submit ==
    /\ pc = "submit"
    /\ broker' = ReceiveOrder
    /\ pc' = "mark"
    /\ UNCHANGED <<ledgerVars, cycle, open, outcome, todo, cur, recorded, elapsed>>

\* It raised: either the broker never saw the order or only the answer was
\* lost.  The order is marked failed, if that write succeeds.
SubmitErr(accepted) ==
    /\ pc = "submit"
    /\ broker' = IF accepted THEN ReceiveOrder ELSE broker
    /\ \/ work' = SetStatus(work, cur, "failed")
       \/ "failed" \in DbFaults /\ work' = work
    /\ pc' = "execute"
    /\ DropOrder
    /\ UNCHANGED <<db, cycle, open, outcome, todo>>

\* status=submitted, then poll_and_settle seeds recorded_qty from the fills rows.
MarkSubmitted ==
    /\ pc = "mark"
    /\ work' = SetStatus(work, cur, "submitted")
    /\ pc' = "poll"
    /\ recorded' = work.fills[cur]
    /\ elapsed' = 0
    /\ UNCHANGED <<db, broker, cycle, open, outcome, todo, cur>>

MarkSubmittedFails ==
    /\ pc = "mark"
    /\ "submitted" \in DbFaults
    /\ pc' = "execute"
    /\ DropOrder
    /\ UNCHANGED <<ledgerVars, broker, cycle, open, outcome, todo>>
-------------------------------------------------------------------------------
(***************************************************************************)
(* poll_and_settle                                                         *)
(***************************************************************************)

\* A mutant: a partial fill is taken for a complete one.
ReportedEarly(b) ==
    IF b.status # "open" THEN b.status
    ELSE IF b.filled = 0 THEN "submitted" ELSE "filled"

\* The broker's status as AlpacaBroker maps it.
Reported(b) ==
    IF b.status # "open" THEN b.status
    ELSE IF b.filled = 0 THEN "submitted" ELSE "partially_filled"

Terminal == {"filled", "canceled", "rejected"}

\* A mutant: the cumulative quantity is taken for the increment.
CumulativeShares == broker[cur].filled

NewShares == broker[cur].filled - recorded

\* A mutant: the loop has no deadline.
NoDeadline == FALSE

TimedOut == elapsed >= PollBudget

\* A mutant: the time slept is not added up.
SleepUncounted == UNCHANGED elapsed

Sleep == elapsed' = elapsed + 1

\* The call gave up retrying, or answered with a status AlpacaBroker does not know.
PollErr ==
    /\ pc = "poll"
    /\ pc' = "execute"
    /\ DropOrder
    /\ UNCHANGED <<ledgerVars, broker, cycle, open, outcome, todo>>

\* One turn of the loop.  `priced`: filled_avg_price is there and its notional
\* has grown, without which the new shares are not recorded this time.  A sell
\* beyond the open position keeps its fill row and ends the poll with an error.
Poll(priced) ==
    LET b == broker[cur]
        fill == NewShares > 0 /\ priced
        oversold == fill /\ ~Applicable(work, cur, NewShares)
        inserted == IF fill THEN InsertFill(work, cur, NewShares) ELSE work
        settled == IF fill THEN SettleFill(inserted, cur, NewShares) ELSE work
    IN  /\ pc = "poll"
        /\ work' = IF oversold THEN inserted ELSE SetStatus(settled, cur, Reported(b))
        /\ IF oversold \/ b.status \in Terminal \/ TimedOut
           THEN pc' = "execute" /\ DropOrder
           ELSE /\ recorded' = IF fill THEN b.filled ELSE recorded
                /\ Sleep
                /\ UNCHANGED <<pc, cur>>
        /\ UNCHANGED <<db, broker, cycle, open, outcome, todo>>

\* A write of the turn fails and poll_and_settle returns at once, without rolling
\* back what the turn had already written: nothing before insert_fill, the fill
\* row alone before upsert_position, the fill row and the deleted position before
\* insert_trade, and both tables before update_order_status.
PollWriteFails(fault) ==
    LET inserted == InsertFill(work, cur, NewShares)
        closes == Closes(work, cur, NewShares)
    IN  /\ pc = "poll"
        /\ NewShares > 0
        /\ Applicable(work, cur, NewShares)
        /\ fault \in {"fill", "position", "trade", "status"}
        /\ fault = "position" => ~closes
        /\ fault = "trade" => closes
        /\ work' = CASE fault = "fill"     -> work
                     [] fault = "position" -> inserted
                     [] fault = "trade"    -> MovePosition(inserted, cur, NewShares)
                     [] fault = "status"   -> SettleFill(inserted, cur, NewShares)
        /\ pc' = "execute"
        /\ DropOrder
        /\ UNCHANGED <<db, broker, cycle, open, outcome, todo>>
-------------------------------------------------------------------------------
(***************************************************************************)
(* The end of a cycle, and what happens around it.                         *)
(***************************************************************************)

NothingLeft ==
    /\ pc = "execute"
    /\ todo = {}
    /\ pc' = "finish"
    /\ UNCHANGED <<ledgerVars, broker, cycle, open, outcome, todo, cur, recorded, elapsed>>

\* _finish commits even when the cycle row cannot be closed: it was rolled back
\* with an earlier transaction, or the update failed.
Finish ==
    /\ pc = "finish"
    /\ \/ /\ work.cycles[cycle] # "none"
          /\ work' = FinishCycle(work, cycle, outcome)
       \/ /\ work.cycles[cycle] = "none" \/ "finish" \in DbFaults
          /\ work' = work
    /\ Commit
    /\ Release
    /\ UNCHANGED <<broker, cycle>>

\* The process dies, or an exception leaves run_cycle: the connection closes
\* without a commit and the flock is released.
Crash ==
    /\ pc # "idle"
    /\ Rollback
    /\ Release
    /\ UNCHANGED <<broker, cycle>>

\* `trader resume` in another process; a cycle with pending writes holds
\* SQLite's write lock, and resume then gives up.
Resume ==
    /\ db.halted
    /\ work = db
    /\ work' = [work EXCEPT !.halted = FALSE]
    /\ Commit
    /\ UNCHANGED <<broker, runVars>>

\* The broker, at its own pace.
BrokerFill(o) ==
    /\ broker[o].status = "open"
    /\ LET f == broker[o].filled + 1
       IN  broker' = [broker EXCEPT ![o].filled = f,
                                    ![o].status = IF f = broker[o].qty THEN "filled" ELSE "open"]
    /\ UNCHANGED <<ledgerVars, runVars>>

BrokerClose(o) ==
    /\ broker[o].status = "open"
    /\ \E s \in {"canceled", "rejected"} :
           /\ s = "rejected" => broker[o].filled = 0
           /\ broker' = [broker EXCEPT ![o].status = s]
    /\ UNCHANGED <<ledgerVars, runVars>>
-------------------------------------------------------------------------------
Decide ==
    \/ StartCycle
    \/ \E isOpen \in BOOLEAN, T, M \in SUBSET Tickers :
           M \subseteq Held(work) /\ EvaluateHoldings(isOpen, T, M)
    \/ WithinLimits
    \/ \E C \in SUBSET Order : LossLimitBreached(C)
    \/ PersistHalt
    \/ \E T \in SUBSET Tickers : EvaluateCandidates(T)

Execute ==
    \/ \E o \in todo : NotApproved(o)
    \/ \E o \in todo, q \in 1..Lot : RecordThenCommit(o, q)
    \/ Submit
    \/ MarkSubmitted
    \/ \E priced \in BOOLEAN : Poll(priced)
    \/ NothingLeft
    \/ Finish

\* A call to the market, the broker or the ledger that fails.
Fail ==
    \/ MarketClockUnavailable
    \/ \E T \in SUBSET Tickers : HoldingsFail(T)
    \/ AccountUnavailable
    \/ SnapshotFails
    \/ PersistHaltFails
    \/ \E T \in SUBSET Tickers : CandidatesFail(T)
    \/ \E o \in todo : RecordFails(o)
    \/ \E accepted \in BOOLEAN : SubmitErr(accepted)
    \/ MarkSubmittedFails
    \/ PollErr
    \/ \E fault \in DbFaults : PollWriteFails(fault)

Environment ==
    \/ Crash
    \/ Resume
    \/ \E o \in Order : BrokerFill(o) \/ BrokerClose(o)

Next == Decide \/ Execute \/ Fail \/ Environment

Spec == Init /\ [][Next]_vars

\* A cycle that runs is scheduled, and every external call it makes has a
\* timeout: the process keeps taking steps until it is done.  Nothing is assumed
\* to fail, to be filled or to be rejected: a broker that answers every poll
\* with an unfilled order must not keep the cycle.
Cycling == pc # "idle" /\ (Decide \/ Execute)

FairSpec == Spec /\ WF_vars(Cycling)
===============================================================================
