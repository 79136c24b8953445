# The trading cycle of kyo-trading-tool, specified and verified

`trader` is a command-line program, started by a timer every fifteen minutes in market
hours, that buys and sells shares through Alpaca. It keeps everything it decides and does
in a SQLite ledger. This directory holds TLA+ modules of its core, the TLC instances that
model-check them, and theorems about them checked by TLAPS.

Sources are named relative to `src/src/trader/`; `R-n`, `N-n` are the requirements of
`src/specs/ai-auto-trader/spec.md`.

## 1. The system

| part | state it keeps | operations | talks to |
|---|---|---|---|
| `engine/cycle.py` | the cycle lock (flock); locals of one run | `run_cycle`: halt check, clock, holdings, risk, candidates, order loop, `_finish` | everything below, by calls, in one thread |
| `engine/order_executor.py` | none | `execute`: record decision, approval, order in one transaction; submit once; mark submitted or failed | ledger, broker |
| `engine/fills.py` | `recorded_qty`, `elapsed`, locals of one poll | `poll_and_settle`, `_settle_fill` | broker, ledger, `trade_closer` |
| `engine/kill_switch.py` | keys of `engine_state` | `trigger`, `is_halted`, `resume` (its own process) | broker, ledger |
| `engine/approval.py` | none | `resolve_approval` (paper: system, live: kyo), `record_human_approval` (CLI) | ledger |
| `engine/holdings.py`, `candidates.py` | none | exit decisions for the holdings; rule-checked buys from mentions and the LLM | market data, LLM, rules, ledger |
| `ledger/` | SQLite in WAL mode: the tables of `0001_init.sql` | row-level inserts and updates, `transaction`, `open_db`, migrations | shared by every process |
| `broker/alpaca_broker.py` | none (Alpaca keeps the orders) | submit (never retried), cancel all, get order, account (retried GETs) | Alpaca |
| `rules/` | `trading-rules.yaml`, `trading-rules.lock` | load, lock and verify, entry checks, exit checks, loss limits | files |
| `sources/` | `sources`, `mentions` tables | import of an archive, evidence per ticker | ledger |
| `analysis/`, `market/` | none | one LLM call; prices, bars, clock | Anthropic, Alpaca data |
| `report/` | none | metrics, rendering | ledger, read only |
| `cli.py` | none | one process per command | all |

Several processes share the ledger. `run-cycle` excludes itself by a lock file; `resume`,
`approve`, `ingest` and `rules approve` take no lock and rely on SQLite.

What makes it hard:

* **One implicit transaction.** Python's `sqlite3` opens a transaction at the first write
  of a cycle. Nothing is committed until the next `with conn:` block ends, and such a block
  commits, or rolls back, everything pending and not just its own rows.
* **Crashes.** The process may die between any two steps; the flock and the uncommitted
  rows go with it, while the orders stay at the broker.
* **A broker that moves by itself.** Orders fill, expire, or are rejected at any moment,
  also after the poll has given up. The answer to a submission may be lost.
* **Partial failure.** Every write returns a `Result`; a failing one in the middle of a
  sequence leaves what came before it pending, and some callers drop the error.
* **Early returns.** A cycle has ten ways to end before or between its orders, each with
  its own outcome; some still execute the sells, some must not.

`PROJECT.json` lists the hazards one by one, each at its line.

What each part must guarantee: nothing is sent that is not recorded first and for good
(executor, R-16); fills are recorded once, never invented, and positions and trades follow
from them (fills, trade closer, R-18, R-21); nothing is sent while halted or when the
market is closed (kill switch, cycle, R-19, R-8); the position limit is not exceeded
(candidates, R-12); a cycle always ends and lets the next one in (cycle, N-10); an approval
is used only before it expires and by its own decision (approval, R-17); rules in force are
rules approved (rules, R-10); an import is idempotent (sources, R-2); a loss limit counts
every loss (loss limits, R-19).

## 2. The modules

| module | what it is |
|---|---|
| `Ledger` | the tables as one record, and the row-level writes as operators on it |
| `TradingCycle` | the state machine: one cycle at a time, ledger, broker, crashes, `resume` |
| `WriteAhead` | what the executor promises: an order is durable, then it is sent |
| `PositionBook` | what the trade closer promises: a ticker is entered by one buy order at a time, left by sells of what is held, and has a trade for each time it was left |
| `CycleSafety` | the properties, the refinements of `WriteAhead` and `PositionBook`, and the inductive invariants |
| `Sums` | totals over the rows of a table, as a recursive function |
| `Decimals` | `Money` and `Price`: rounding, percentages, average cost, profit |
| `Settlement` | the money of one ticker: prices of fills, average cost, realised P&L, replay, trades |
| `SettlementSafety` | the properties of the settlement, its refinement of `PositionBook`, and the inductive invariant |
| `Sizing` | how many shares: the rules' count, the rounded notional, the count derived again |
| `Portfolio` | what a cycle decides and from which numbers: exits, snapshot, peak, limits, entries |
| `PortfolioSafety` | the properties of the portfolio and their inductive invariant |
| `Commands` | the commands as processes over one ledger and one set of files |
| `CommandsSafety` | the properties of the commands and their inductive invariant |
| `CycleTime` | the calls of one cycle: waits for the network, attempts, back-off, polls, with properties and invariant |
| `MCTradingCycle`, `MCCommands`, `MCPortfolio` | the instances TLC runs, with symmetry where it is sound |
| `TradingCycle_proofs` | `TypeOK` and the order in hand, proved inductive |
| `CycleSafety_proofs` | the inductive invariant, the safety properties and the refinement, proved |
| `Positions_proofs` | the position slots, positions and trades derived from fills, and the refinement of `PositionBook`, proved |
| `Arithmetic_proofs` | induction over a set of numbers, sums, rounding, and the round trip of a share count |
| `Settlement_proofs` | the inductive invariant of the settlement: replay, money, rows, explanations, and its refinement |
| `Portfolio_proofs` | the inductive invariant of the portfolio and its seven properties |
| `Commands_proofs` | the inductive invariant of the commands and four safety properties |
| `CycleTime_proofs` | the bound on a cycle's time, for every number of waits per request |

`TradingCycle` uses `Ledger`; `Settlement` and `Sizing` use `Decimals`; `Portfolio` uses
`Sizing`; `Settlement`, `Portfolio` and `CycleSafety` use `Sums`. Recursion is written as
recursive functions, which TLC evaluates and TLAPS can reason about. `TradingCycle`,
`Settlement`, `Portfolio` and `CycleTime` look at the same cycle, one at its control and its
failures, one at the money of its fills, one at its decisions, one at its time. `Commands`
puts the cycle among the other commands. `PositionBook` is what the two views of a fill have
in common: `TradingCycle` implements it commit by commit, where the shares of one order may
arrive in one step, and `Settlement` row by row, where an entry goes on while its order is
polled (`entering`). `Ledger` names a trade by its closing sell, `Settlement` by its fills;
the book counts them.

### How the model relates to the code

* **Two ledgers.** `db` is what is committed, `work` what the cycle's connection reads. A
  write changes `work`; `Commit` makes `db` equal to `work`; `Rollback` does the reverse.
  `transaction()` succeeding, `trigger` persisting the halt, and `_finish` are the only
  commits of a cycle.
* **Names.** A decision is named by cycle, ticker and side, and its approval, order and
  client order id take its name, as `order_{decision.id}` does in the code. A cycle takes
  at most one decision per ticker and side: holdings are visited once each, and
  `check_entry` rejects the second buy of a batch.
* **Program counter.** `market`, `risk`, `persist` (inside `trigger`), `candidates`,
  `execute` (the order loop), `submit`, `mark`, `poll`, `finish`, and `idle` when the lock
  is free. There is a step for each call that leaves the process and each commit; what
  happens between two of them is one action, as nobody else can see it.
* **Order of the orders.** Sells precede buys (`holdings_outcome.decisions` comes first in
  `all_decisions`); among the sells, or the buys, any order is explored.
* **Failures.** `DbFaults` names the writes that may fail in a run: `decision`,
  `snapshot`, `halt`, `record`, `failed`, `submitted`, `fill`, `position`, `trade`,
  `status`, `finish`. Failing reads of market, account and broker are always possible.
* **Data.** A fill is a number of shares. Which limit is breached, which exit rule fires
  and which candidate passes are choices, bounded by what the code checks: a candidate is
  not held, the market is open, the slots suffice. A sell asks for at most the open
  position, which `_sell_qty` ensures and `_order_qty` recovers for prices above a cent.
* **The broker** fills one share at a time, up to the quantity ordered; it may cancel,
  expire or (before any fill) reject an order; a lost answer leaves the order accepted or
  not.

The settlement of one ticker is a second state machine, at a finer grain in the data and a
coarser one in the control:

* **Amounts** are whole ticks of $0.0001, the quantum of `Price`; `Money` rounds to 100 of
  them. Both round half to even, as `Decimal.quantize` is told to. Averages are divided at
  28 digits in the code before they are rounded once, which `RoundDiv` does exactly.
* **Fills** is the table in the order of `filled_at`. `opened_at` is the index of the
  position's first row: the clock moves between two fills of a ticker, so `filled_at >=
  opened_at` selects the rows from that index on. Text order and time order agree.
* **Poll** is one answer of `get_order` that brings new shares, with `insert_fill` and the
  whole of `_settle_fill`. The broker fills between any two answers, so every way a poll
  can cut its fills is explored. `EndPoll` is every way of giving up, at any moment.
* **PlaceOrder** takes from the rest of the cycle what it guarantees here: buys only of a
  ticker not held, sells of at most the position. The sums of
  `SettlementSafety` (`Cash`, `OrderNotional`, `RealizedOn`) are references computed from
  the rows alone.

A failing write of a settlement is explored in `TradingCycle`, not here; exit reasons,
`partial_tp_done` and high watermarks are in `Portfolio`.

Left out of the trading cycle: a failing `insert_cycle` or a lock already taken (nothing
changes), `engine_state.last_cycle_id` (written, never read), decisions that are skipped
or rejected (they lead to no order), and prices. Live mode is in `Commands`.

The portfolio runs whole cycles on several days:

* **Time** is a slot; a day has `SlotsPerDay` of them, a week `DaysPerWeek` days. Cycles
  run in any slots, so days without a row in `equity_snapshots` and days with two occur.
* **Rules** are one record, the instance's own; percentages are whole. `LimitBreached`,
  `ExitReason` and `PassesEntry` follow the order of the checks in `rules/`.
* **Answers.** Prices, a missing price, a failing account, the market clock, the LLM's
  proposals (in any order, repeated or not) and the fill of each order (nothing, part or
  all of it, at any of `FillPrices`) are choices. Every write succeeds, an order has at most
  one fill, and what is bought stays bought: `TradingCycle` and `Settlement` have the rest.
* **Batches** are recursive functions: `ExitsSoFar` is the loop over the holdings and
  `BatchSoFar` that over the proposals, which remembers the tickers bought so far.
  `ExecuteNext` takes one decision through approval, submission and its fill.
* **`history`** is auxiliary: the prices a position has seen and the partial profits it
  has taken. The properties compare the code's `hwm` and `partial_tp_done` with it.

The commands are processes:

* **A process** runs one command at a time and may die between any two steps (`Die`). Its
  record holds what it has read so far: the lock, the rules, the hash, the tweets. Which
  of them are set is a matter of its program counter, as it is of the code's locals.
* **Files.** The rules file, its lock, `tweets.json` and `ticker_stats.txt` are contents;
  the hash of a file is the content it was computed from. Each read is a step, writing the
  lock is two (`write_text` truncates first), and the operator may edit a file at any
  moment. `quiet` is auxiliary: no file was edited since the command's first read.
* **The ledger** is `ledger`, what is committed, and `work`, what the `writer` sees: the
  one process with a write pending. Any other process that writes fails (`CanWrite`), as it
  does after SQLite's five seconds; reads see `ledger`.
* **Migrations** run statement by statement, each committed by `executescript`, and two
  processes may run the same script.
* **A cycle** makes one decision or none, executes it or not and finishes; whether its
  approval is found in live mode depends on the ledger. It alone takes the cycle lock.

The time of a cycle:

* **Calls** are made one after another by one thread; `at` is the call under way, and
  `left` the holdings, candidates or orders left in its loop. The unit is half a second.
* **A request** is up to `Waits` waits for the network: for the connection, then for each
  part of the answer that is read. `requests` and `httpx` apply a client's timeout to each
  of them and not to the request, so `WaitTimes` bounds one wait; a slow connection and a
  slow answer together outlast the timeout. Nothing in the code bounds how many waits a
  request has, as a body may trickle: `Waits` is a bound of the model, and a constant of
  the theorems.
* **A policy** is a number of attempts, the timeout and the back-off. `Retry` is a failed
  attempt with its delay, `Repeat` a request that alpaca-py repeats by itself inside an
  attempt, answered 429 or 504; only the broker's client turns that off. That there are
  three repeats, three seconds apart, is alpaca-py's, not this repository's.
* **Assumed:** resolving a name takes no time, nor does the program between two waits; the
  bars of one ticker are one page; no write to the ledger fails (a failing write only ends
  a cycle sooner, or an order).

## 3. What is checked

The first six runs use `MCTradingCycle`, the next two `SettlementSafety`, then
`MCCommands` (two), `MCPortfolio` (one) and `CycleTime` (one). Deadlock is not checked:
with the last cycle, order or command done and nothing open at the broker the system has
nothing left to do.

| run | instance | shows |
|---|---|---|
| `cycle_faults` | two tickers for one slot, 2 cycles, 2 shares, one poll before the timeout, every fault | `TypeOK`, `IInv`, `SlotsInv`, `PositionLimit`, `LedgerNeverAheadOfBroker`, `StatusFollowsBroker`, `OrdersOnlyWhileOpen`, `NoOrderWhileHalted`, and `CycleEnds` under fairness |
| `cycle_history` | one ticker, 3 cycles, 2 shares, faults outside a settlement | `PositionsInv`, `PositionsDerivedFromFills`, `EveryClosedPositionIsATrade` |
| `cycle_batch` | two tickers, two orders in a cycle, recording may fail | `RecordedBeforeSent`, `StoppedCyclesNeverTrade`, `WriteAheadLog`, `CommitsKeepTheBook` |
| `lost_fills` | as `cycle_batch`, one cycle | `RecordedFillsSurvive` is violated |
| `torn_settlement` | one order, the position write fails | `PositionsDerivedFromFills` is violated |
| `missed_fill` | 2 cycles, no fault at all | `NoBuyOfHeldTicker` is violated |
| `settlement` | four orders of up to 3 shares over 2 days, prices $0.0040 and $10.3333 | `TypeOK`, `IInv`, `ReplayAgrees`, `MoneyConserved`, `FillRowsFollowBroker`, `EveryFillIsExplained`, `FillsKeepTheBook` |
| `partial_loss` | a buy of 2 shares and a sell of 1 | `LossesCounted` is violated |
| `commands` | two processes, three commands, two edits; two rules contents, two tweets of which one malformed, two migration statements | `TypeOK`, `IInv`, `VersionMeansSchema`, `DecisionsObeyRecordedRules`, `LockGovernsDecisions`, `ImportsAreWhole` |
| `live_approval` | one process, four commands in live mode, no edits | `ApprovedDecisionsAreSent` is violated |
| `portfolio` | four tickers, three prices, three cycles in five slots (three days, two weeks) | `TypeOK`, `IInv`, `PeakIsRunningMax`, `TakeProfitOnce`, `ExitsAreSent`, `OrdersMatchDecisions`, `BuysWithinLimits`, `BuysAreJustified` |
| `cycle_time` | one position, two slots and candidates, one poll round, up to two waits a request; waits of 10 and 60 s, any request failing | `TypeOK`, `IInv`, `WithinWorstCase` |

**Bounds.** Two cycles let one cycle leave something for the next: an open order, a halt, a
position to sell. Three are needed to buy, close and buy again. Two shares make partial
fills and partial sells possible; `PollBudget = 0` is one poll and its timeout, `1` a
second poll of the same order. One ticker carries everything that concerns one order;
orders of a cycle meet only in the pending writes and the position limit, for which two
tickers are used. Tickers are symmetric: no action names one, and the properties checked
with symmetry are safety properties. `CommitsKeepTheBook` needs
two orders in a cycle, so it is checked in `cycle_batch`, whose orders are for one share;
orders that fill in parts keep the same book in `settlement`. Four orders let a position be opened, sold in three
steps and closed, or opened and closed twice; three shares make an average that neither a
tick nor a cent divides and let one order be recorded in three rows. One of the prices
leaves cents when multiplied, the other is below half a cent, so that the skipped increment
and its later recovery occur.

Three commands let a third one find what two others left behind or left half done: approve,
approve again and run; ingest, ingest and run; with two edits the rules file can change and
change back, or change before and during a command. Two statements make a half-run
migration possible. `NoFile` is the lock that is missing, empty or malformed alike.
`Procs` and `Rules` are symmetric, since no action names one and all rules are signed.

In `portfolio`, three prices are a stop, a price whose notional is no whole cent and a
take-profit; four tickers are one that stays mentioned, one whose mention ages, one
excluded and one too thin to buy; two candidates at most make the cut of the candidates
matter, and two slots make a batch compete. Three cycles open a position, take its profit
and trail it; five slots contain two cycles of one day, a day without one and a new week.

`cycle_time` has two slots and two candidates, so that those loops have a first and a last
pass, and two waits a request, a connection and an answer, so that one request can outlast
its timeout. The waits are exactly the two timeouts, so that the bound is reached; shorter
ones leave more of it. What `WithinWorstCase` says is conditional: if no request has more
than `Waits` waits, the cycle is over by `WorstCase`. With the code's own numbers (five
positions, twenty candidates, thirty rounds of two seconds) `WorstCase` is 1846 + 10370 *
`Waits` seconds, more than three hours for a single wait, and it grows with `Waits`, of
which the code has no limit. The five minutes of N-10 are another matter, and do
not hold (see below).

`IInv`, `SlotsInv` and `PositionsInv` are the inductive invariants of section 4. They are
checked here although the proofs hold without: the runs show that they are satisfied by
more than the initial state, and found what was missing while they were being strengthened.

**Fairness.** `FairSpec` adds weak fairness of `Cycling`: while a cycle runs, it takes a
step that is not a failure. It is a single thread, and each wait of an external call
ends by its timeout (N-4); a call is over after finitely many waits unless its answer
trickles for ever, which is excluded here. Nothing is assumed of the broker, the operator or
of failures, so `CycleEnds` holds for a broker that never fills, thanks to the elapsed
counter of the poll alone.

### Disagreements between the code and what it says

* `lost_fills`: buy t1 fills and is recorded (pending); recording t2's order then fails,
  the transaction rolls back t1's fill and position with it, and the loop goes on. The
  comment of `_finish` promises to persist them, R-18 to record every fill; the error
  handling of the spec ends such a cycle as `error`.
* `torn_settlement`: the position write after `insert_fill` fails; `poll_and_settle`
  returns, its error is dropped, and `_finish` commits a fill without its position. The
  data model says that positions are derived from fills.
* `missed_fill`: the poll times out, the order fills later, the next cycle sees no position
  and buys again. R-12 forbids a buy of a ticker already held.
* `partial_loss`: half a position is sold at a loss. `_realized_totals` adds up closed
  trades, and the position's unrealised P&L no longer contains the shares sold, so no total
  of that day does. R-19 counts realised and unrealised losses, and the plan says that every
  sell realises.
* `live_approval`: kyo approves a decision in time, but decisions are committed, and so can
  be approved, only when their cycle is over, and the next cycle takes new ones with new
  ids. In live mode nothing that needs an approval is ever sent; R-17 and the help of
  `approve` say that it is.

Not a run, but met on the way:

* an exit decision whose order is recorded in several rows appears as often in
  `exit_decision_ids`, since `_replay_sell` appends it for each;
* a change of `ticker_stats.txt` alone is never imported: the fingerprint is that of
  `tweets.json`;
* once a loss limit is reached nothing is sold, a stop loss included; after `resume` the
  unrealised loss is still there and the next cycle halts again before its exits;
* a failing account call ends the cycle before the exits, a missing price does not;
* a cycle holds SQLite's write lock from its first insert through the price and LLM calls,
  so that `approve`, `ingest` and `rules approve` fail after five seconds meanwhile;
* the timeout of a poll counts only its sleeps, not the time of its answers;
* orders are polled one after another, for up to a minute of sleeps each, so that five
  orders that stay open take a cycle beyond the five minutes of N-10 even when every answer
  is quick and nothing fails; the plan counts one poll;
* the clients of the market data keep alpaca-py's own three repeats of a request answered
  429 or 504 inside every attempt of `_call_with_retry`, so that a policy of three tries
  makes up to twelve requests; the broker's client turns them off;
* exit decisions wait for the prices of the candidates and for the LLM, and are then sent
  with the buys; R-13 and a comment of `cycle.py` say that sells never wait for the LLM.

## 4. What is proved

The trading cycle, for any set of tickers, any bounds and any set of failing writes
(`LedgerAssumption`, `CycleAssumption`):

| theorem | statement |
|---|---|
| `TypeCorrect` | `Spec => [](TypeOK /\ InHand)` |
| `InductiveInvariant` | `Spec => []IInv` |
| `EverySentOrderIsRecorded` | `Spec => []RecordedBeforeSent` |
| `NoInventedFills` | `Spec => []LedgerNeverAheadOfBroker` |
| `StatusIsSound` | `Spec => []StatusFollowsBroker` |
| `StoppedCyclesAreQuiet` | `Spec => []StoppedCyclesNeverTrade` |
| `HaltedEngineSendsNothing` | `Spec => NoOrderWhileHalted` |
| `ClosedMarketSendsNothing` | `Spec => OrdersOnlyWhileOpen` |
| `ImplementsWriteAhead` | `Spec => WriteAheadLog` |

The argument. None of the properties is inductive alone. That a sent order is durable
needs to know that the order in hand was committed before `submit` (`OrderInHand`), that a
rollback cannot lose it (`OrdersCommitted`: what is pending never adds, drops or resizes an
order row) and that its approval, decision and cycle are committed with it
(`ForeignKeys`). That the ledger is never ahead of the broker needs `recorded` to equal
the recorded fills during a poll, and an order about to be sent to be unknown to the
broker, for which decisions must be fresh (`FreshOrders`, `TodoOfCycle`, `FreshCycles`).
That a stopped cycle is quiet needs that no step on the way to `halted` or `error` follows
an order (`OutcomeSound`). `IInv` is the conjunction; `cycle_faults` checks it on its
instance, and the proof has a lemma for each action, or for a group of actions that touch the same
part. A lemma for each write of `Ledger` says which tables it leaves alone. The refinement
follows from two lemmas: only `Submit` and an accepted `SubmitErr` add to what the broker
has received, and only `RecordThenCommit` adds to the committed orders.

Positions, from the same invariant (`Positions_proofs`):

| theorem | statement |
|---|---|
| `SlotsInvariant` | `Spec => []SlotsInv` |
| `PositionsWithinLimit` | `Spec => []PositionLimit` |
| `PositionsInvariant` | `SettlementWhole` gives `Spec => []PositionsInv` |
| `PositionsAreDerived` | `SettlementWhole` gives `Spec => []PositionsDerivedFromFills` |
| `ClosedPositionsAreTrades` | `SettlementWhole` gives `Spec => []EveryClosedPositionIsATrade` |
| `CommitsImplementPositionBook` | `SettlementWhole` gives `Spec => CommitsKeepTheBook` |

`SettlementWhole` says that the writes of `positions` and `trades` which follow an
`insert_fill` do not fail; every other write may, and the process may crash anywhere. It
cannot be dropped: `torn_settlement` is the counterexample. The limit needs no such
assumption. Counting what is held is not inductive: a buy about to be recorded takes a slot
too, in the committed ledger and in the pending one, and the two differ. `SlotsInv` bounds
the union of the tickers held and being bought in both. That positions follow from fills
needs a buy to be of a ticker not held (`BuysOfNewTickers`), a sell to be covered by its
position until it is done (`SharesInHand`), and the broker not to fill more than was ordered
(`FilledWithinOrder`). Every action but the polls leaves rows, positions and trades alone
or copies one ledger over the other (`EveryStep`), so that one lemma about a recorded fill
(`SettledSound`) carries the weight; it rests on sums changing by what one of their terms
changes by (`TotalExcept`).

That the commits keep the book needs more: a commit takes over whatever is pending, and what
is pending was written by several steps, for several orders. `OneOrderPending` says that it
moves the shares of one order only, which is inductive because every order is recorded by
a commit, and its record commits what the order before left (`AddsFillsOf`). A commit is
then a stutter, a buy or a sell of the book, of at most a lot (`PendingWithinLot`), and the
trades of a ticker grow by one with a closing sell (`TradesOfTicker`).

The sizes and sums, for all prices, share counts and sequences (`Arithmetic_proofs`, no
assumption):

| theorem | statement |
|---|---|
| `MoneyError` | a `Money` is at most half a cent from what it rounds |
| `OrderSizeRecovered` | above a cent per share, `_order_qty` recovers the share count |
| `EntryUsesTheLimit` | the shares of an entry cost at most the limit, one more would not |
| `SellsSomethingHeld` | `_sell_qty` sells between one share and the position |

The round trip works because the notional is within half a cent of price times shares, so
that half a cent more lies between that product and the next one. The module also holds
what every induction over data here uses. The library's induction theorems take an operator
as a parameter, which the provers cannot instantiate; `SetInduction` states induction over a
*set* of numbers, from the least element of its complement, and gives the recursive
functions of the models their defining equations (`RunningDef`, `ReplayedDef`,
`ExitsSoFarDef`, `BatchSoFarDef`).

The settlement, for any lot, prices, orders and days (`SettlementAssumption`):

| theorem | statement |
|---|---|
| `SettlementInvariant` | `Spec => []IInv` |
| `SettlementTypeCorrect` | `Spec => []TypeOK` |
| `PositionIsReplayed` | `Spec => []ReplayAgrees` |
| `MoneyIsConserved` | `Spec => []MoneyConserved` |
| `RowsFollowBroker` | `Spec => []FillRowsFollowBroker` |
| `FillsAreExplained` | `Spec => []EveryFillIsExplained` |
| `FillsImplementPositionBook` | `Spec => FillsKeepTheBook` |

The replay starts at a row that moves, so it is first shown that a row more is a step more
of the replay (`ReplayLonger`) and that the rows since an opening are those it had plus that
row (`Windows`, `OpeningWindow`). What a poll writes is then one of three cases: a first
buy, a further buy, a sell that may close (`PollCases`); each is a step of the book
(`RowKeepsBook`), and the end of a poll that bought something ends its entry. The rounding errors are bounded one
row at a time: a blended average is within half a tick of the cost a share (`BlendError`), a
booked P&L within half a cent (`PnlError`), and the incremental price of a row is such that
the rows' sum is off by the last rounding only, not by all of them (`RowFollows`). The
strengthenings are that the polled order is the last one placed and that its rows trail the
recorded notional (`PollTrails`), that rows belong to placed orders (`RowsOfPlaced`), and
that a sell never exceeds the position (`PositionFollowsOrder`), without which
`_apply_sell` would refuse a fill already inserted.

The portfolio, for any rules of `RuleSet`, tickers, mentions, prices and bounds
(`PortfolioAssumption`):

| theorem | statement |
|---|---|
| `PortfolioInvariant` | `Spec => []IInv` |
| `PortfolioTypeCorrect` | `Spec => []TypeOK` |
| `PeakIsHighestEquity` | `Spec => []PeakIsRunningMax` |
| `PartialProfitOnce` | `Spec => []TakeProfitOnce` |
| `NothingUnjustifiedBought` | `Spec => []BuysAreJustified` |
| `OrdersAreForTheDecision` | `SharesCostACent` gives `Spec => []OrdersMatchDecisions` |
| `BuysStayWithinLimits` | `SharesCostACent` gives `Spec => []BuysWithinLimits` |
| `DueExitsAreSent` | `SharesCostACent` gives `Spec => []ExitsAreSent` |

`SharesCostACent` says that no share is priced below $0.01. Below it, the
rounding of the notional and the half cent that `_order_qty` adds may together be worth a
share, so that the order is for more than was decided; and a notional that rounds to nothing
may make an order of no share. The instance of
`portfolio` satisfies it; the other theorems do not need it.

`IInv` follows a decision through the cycle. The holdings' loop makes at most one sell per
ticker, of shares held (`SellSound`) and with a notional computed from them; the proposals'
loop makes buys of tickers not held, justified and within the limit (`BuySound`), one per
ticker because the batch remembers its own. `TodoSound` keeps this while the order loop
fills and closes other positions: a ticker occurs once among the decisions and the orders
already sent, so no fill disturbs a decision that waits. `PositionsFit` counts the tickers
held and about to be bought together. `ExitsPending` says that a due exit is sent or still
waits, which at the end of the loop leaves the first. `HistoryKept` ties the code's
watermark and flag to the auxiliary history, and `PeakKept` says that a stored peak is
among the equities up to its day and above them, which survives that a day's row is
overwritten by a later cycle of the day.

The commands, for any processes, contents, statements and bounds (`CommandsAssumption`):

| theorem | statement |
|---|---|
| `CommandsInvariant` | `Spec => []IInv` |
| `CommandsTypeCorrect` | `Spec => []TypeOK` |
| `MigrationsComplete` | `Spec => []VersionMeansSchema` |
| `RulesRecorded` | `Spec => []DecisionsObeyRecordedRules` |
| `LockGoverns` | `Spec => []LockGovernsDecisions` |
| `ImportsComplete` | `Spec => []ImportsAreWhole` |

Three arguments meet in `IInv`. While nobody edits a file, what a command has read still is
what the file holds (`Agrees`), which turns three separate reads into one. At most one
process has writes pending, and only to the tables of its command (`Transactions`), so that
a death or a rollback of one cannot undo or expose another's. Every table a process believes
created is there (`MigrationSound`), whoever created it. An edit makes every running
command not quiet, which is why the properties about rules speak of quiet commands only;
that a decision's rule set is in the ledger holds without it.

The time of a cycle, for any positions, slots, candidates, poll rounds and waits per
request, whichever requests fail and however long each wait within its timeout
(`CycleTimeAssumption`):

| theorem | statement |
|---|---|
| `TimeInvariant` | `Spec => []IInv` |
| `AttemptsAreBounded` | `Spec => []TypeOK` |
| `CycleTimeIsBounded` | `Spec => []WithinWorstCase` |

None of them bounds a cycle absolutely: `WorstCase` is a multiple of `Waits`, and the
constant has no value the code would give it.

The argument is a potential: `Rest` is the time that may still pass, and no step makes
`now + Rest` grow. Within a call (`CallSteps`, `SameCall`) a wait, a repeat and a failed
attempt each use up their own part of `CallRest`, which is why the invariant counts waits,
repeats and attempts separately. `RestTable` states `Rest` per stage; `KeptByCall` says
that a step which ends a call may use up the call and nothing else. The loops need that
what is left of them is never more than what they began with (`Loops`). The policies'
numbers are the code's, so that their arithmetic is evaluated, not assumed.

Only model-checked: `CycleEnds`, since liveness under fairness is beyond TLAPS as used
here. The five properties expected to be violated are refuted by TLC and not provable. Every
invariant and action property of a passing run, and each refinement, is a theorem.

## 5. Plan

Modelled and checked as planned: the trading cycle, the settlement, live approval, the rules
lock, ingest, migrations, loss limits, exit and entry rules, order sizes, and the time of a
cycle. All invariants the runs check are proved, and the share counts of `Ledger` and of
`Settlement` are tied together by the book both implement. What a next step would take up:

1. several fills per order in `Portfolio`, which has at most one;
2. the two halves of a torn settlement: which part of `PositionsInv` survives without
   `SettlementWhole`, beyond what `torn_settlement` refutes;
3. prices in `TradingCycle`, so that a rolled back fill has an amount.

## 6. What is not modelled

`report` (read-only computation and layout), `config` (parsing of the environment; the mode
is a choice of `Commands`), the text of prompts, reasons and logs, credentials and URLs,
what pydantic accepts of an answer beyond well-formed or not, fees (always zero), cost
assumptions (read by the report only), percentages with a fraction, calendar dates and time
zones (a day and a week are numbers), and the content of skipped and rejected decisions.
