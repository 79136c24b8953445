------------------------------ MODULE CycleSafety ------------------------------
(***************************************************************************)
(* What must be true of the trading cycle, whatever the interleaving of    *)
(* its steps with crashes, failed writes, lost answers, the operator and   *)
(* the broker.                                                             *)
(***************************************************************************)
EXTENDS TradingCycle, Sums

TypeOK ==
    /\ db \in LedgerState
    /\ work \in LedgerState
    /\ broker \in [Order -> BrokerOrder]
    /\ pc \in PC
    /\ cycle \in 0..MaxCycles
    /\ open \in BOOLEAN
    /\ outcome \in CycleOutcome
    /\ todo \subseteq Order
    /\ cur \in Order \cup {NoDecision}
    /\ recorded \in Nat
    /\ elapsed \in 0..PollBudget

\* R-16: an order the broker has received is in the committed ledger, with the
\* same share count, under a committed approval, decision and cycle: killing the
\* process at any point leaves no order that cannot be explained.
RecordedBeforeSent ==
    \A o \in Order : Received(o) =>
        /\ o \in db.decisions \cap db.approvals
        /\ db.orders[o] # "none"
        /\ db.qty[o] = broker[o].qty
        /\ db.cycles[o.cycle] # "none"

\* R-16: the committed orders and the orders the broker has received refine
\* the write-ahead log of WriteAhead: every order is sent after its own commit,
\* and no committed order row disappears in a rollback.
WA == INSTANCE WriteAhead WITH
          durable <- {o \in Order : db.orders[o] # "none"},
          sent <- {o \in Order : Received(o)}

WriteAheadLog == WA!Spec

\* R-18: the ledger never records shares the broker has not filled, neither in
\* what is committed nor in what is pending, however often an order is polled.
LedgerNeverAheadOfBroker ==
    \A o \in Order : /\ work.fills[o] <= broker[o].filled
                     /\ db.fills[o] <= broker[o].filled

\* R-18: an order row that says the broker had the order is right about it, and
\* a final status in the committed row is the broker's final status.
StatusFollowsBroker ==
    \A o \in Order :
        /\ db.orders[o] \notin {"none", "recorded", "failed"} => Received(o)
        /\ db.orders[o] \in Terminal => db.orders[o] = broker[o].status

\* R-19: nothing is sent while the committed ledger says the engine is halted.
NoOrderWhileHalted ==
    [][\A o \in Order : (~Received(o) /\ Received(o)') => ~db.halted]_vars

\* R-19 and the error handling of the spec: a cycle recorded as halted or in
\* error has sent no order.
StoppedCyclesNeverTrade ==
    \A o \in Order : db.cycles[o.cycle] \in {"halted", "error"} => ~Received(o)

\* R-8: outside market hours a cycle decides but sends nothing, as far as the
\* clock it read at its start can tell.
OrdersOnlyWhileOpen ==
    [][\A o \in Order : (~Received(o) /\ Received(o)') => open]_vars

\* R-12: the ledger never holds more tickers than max_concurrent_positions, though
\* a cycle decides several buys before any of them fills.
PositionLimit == Cardinality(Held(db)) <= MaxPositions

\* The shares of t bought or sold by the fills of L.
FilledShares(L, t, s) == Total([c \in Cycles |-> L.fills[OrderOf(c, t, s)]])

DerivedFromFills(L) ==
    \A t \in Tickers : L.pos[t] + FilledShares(L, t, "sell") = FilledShares(L, t, "buy")

\* Data model of the spec, "positions: fills から導出": a committed position is the
\* shares bought less the shares sold by the committed fills.
PositionsDerivedFromFills == DerivedFromFills(db)

Closed(L, t) == {c \in Cycles : OrderOf(c, t, "sell") \in L.trades}
Bought(L, t) == {c \in Cycles : L.fills[OrderOf(c, t, "buy")] > 0}

ClosedAreTrades(L) ==
    \A t \in Tickers :
        Cardinality(Closed(L, t)) + (IF L.pos[t] > 0 THEN 1 ELSE 0) = Cardinality(Bought(L, t))

\* R-21: every buy that filled is either the open position of its ticker or has
\* been closed into exactly one trade.
EveryClosedPositionIsATrade == ClosedAreTrades(db)

\* R-12, R-21: the committed positions and trades are a PositionBook.  A commit takes
\* over what several writes left pending, of several orders at times, yet it moves
\* the shares of one order only: it opens a position or sells from one, and adds the
\* trade together with the sell that closes.
Book == INSTANCE PositionBook WITH
            Ticker <- Tickers,
            held <- db.pos,
            closed <- [t \in Tickers |-> Cardinality(Closed(db, t))],
            entering <- [t \in Tickers |-> FALSE]

CommitsKeepTheBook == Book!Spec

\* R-8, N-10: a cycle that started ends and releases the lock, though the broker
\* may never fill the orders it polls.
CycleEnds == (pc # "idle") ~> (pc = "idle")

\* R-18 and the comment of _finish ("Persist whatever writes ... already succeeded
\* this cycle"): a fill the running cycle has recorded is still recorded when it
\* takes its next order.
RecordedFillsSurvive ==
    [][pc' # "idle" => \A o \in Order : work'.fills[o] >= work.fills[o]]_vars

\* The shares of t the broker holds for the account.
BrokerShares(t, s) == Total([c \in Cycles |-> broker[OrderOf(c, t, s)].filled])

\* R-12, "既に保有していない": a buy is sent only for a ticker the account does not hold.
NoBuyOfHeldTicker ==
    [][\A o \in Order :
          (o.side = "buy" /\ ~Received(o) /\ Received(o)')
              => BrokerShares(o.ticker, "buy") <= BrokerShares(o.ticker, "sell")]_vars
-------------------------------------------------------------------------------
(***************************************************************************)
(* The inductive invariant behind the safety properties.                   *)
(***************************************************************************)

\* Decisions whose order cannot have been recorded yet.
NotYet(o) ==
    \/ o.cycle > cycle
    \/ o.cycle = cycle /\ pc \in Deciding
    \/ o \in todo

\* uuid4 ids: an order that is still to be executed is unknown everywhere.
FreshOrders ==
    \A o \in Order : NotYet(o) =>
        /\ db.orders[o] = "none" /\ db.fills[o] = 0
        /\ work.orders[o] = "none" /\ work.fills[o] = 0
        /\ ~Received(o)

\* Between cycles nothing is pending.
NothingPending == pc = "idle" => work = db

FreshCycles ==
    \A c \in Cycles : c > cycle => db.cycles[c] = "none" /\ work.cycles[c] = "none"

\* The current cycle's row has no outcome before _finish, and is there (pending
\* at least) until the first rollback.
CurrentCycle ==
    /\ pc # "idle" =>
           /\ cycle \in Cycles
           /\ db.cycles[cycle] \in {"none", "running"}
           /\ work.cycles[cycle] \in {"none", "running"}
    /\ pc \in Deciding => work.cycles[cycle] = "running"

TodoOfCycle ==
    /\ \A o \in todo : o.cycle = cycle
    /\ pc \in {"idle", "finish"} => todo = {}

\* The REFERENCES clauses of 0001_init.sql.
ForeignKeys(L) ==
    \A o \in Order :
        /\ L.orders[o] # "none" => o \in L.approvals
        /\ o \in L.approvals => o \in L.decisions
        /\ o \in L.decisions => L.cycles[o.cycle] # "none"

\* An order is recorded and committed in one step: what is pending never adds,
\* drops or resizes one.
OrdersCommitted ==
    \A o \in Order :
        /\ work.orders[o] # "none" <=> db.orders[o] # "none"
        /\ db.orders[o] # "none" => work.qty[o] = db.qty[o]

SentIsDurable ==
    \A o \in Order : Received(o) => db.orders[o] # "none" /\ db.qty[o] = broker[o].qty

OrderInHand ==
    /\ pc \in Handling => /\ cur \in Order
                          /\ cur.cycle = cycle
                          /\ cur \notin todo
                          /\ db.orders[cur] # "none"
    /\ pc = "submit" => /\ ~Received(cur)
                        /\ db.fills[cur] = 0 /\ work.fills[cur] = 0
                        /\ db.orders[cur] = "recorded" /\ work.orders[cur] = "recorded"
    /\ pc \in {"mark", "poll"} => Received(cur)
    /\ pc = "poll" => recorded = work.fills[cur]

StatusSound(L) ==
    \A o \in Order :
        /\ L.orders[o] \notin {"none", "recorded", "failed"} => Received(o)
        /\ L.orders[o] \in Terminal => L.orders[o] = broker[o].status

NotHalted == pc \notin {"idle", "finish"} => ~db.halted /\ ~work.halted

Stopped(L) == \A o \in Order : L.cycles[o.cycle] \in {"halted", "error"} => ~Received(o)

\* The order loop runs only when the clock said the market was open.
OrdersInMarketHours == pc \in {"execute"} \cup Handling => open

\* A cycle is on its way to halted or error only if it has sent nothing.
OutcomeSound ==
    /\ pc = "finish" /\ outcome \in {"halted", "error"} =>
           \A o \in Order : o.cycle = cycle => ~Received(o)
    /\ pc \in {"risk", "candidates", "execute"} \cup Handling =>
           outcome \notin {"halted", "error"}

IInv ==
    /\ TypeOK
    /\ FreshOrders
    /\ NothingPending
    /\ FreshCycles
    /\ CurrentCycle
    /\ TodoOfCycle
    /\ ForeignKeys(db)
    /\ ForeignKeys(work)
    /\ OrdersCommitted
    /\ SentIsDurable
    /\ OrderInHand
    /\ LedgerNeverAheadOfBroker
    /\ StatusSound(db)
    /\ StatusSound(work)
    /\ NotHalted
    /\ Stopped(db)
    /\ Stopped(work)
    /\ OutcomeSound
    /\ OrdersInMarketHours
-------------------------------------------------------------------------------
(***************************************************************************)
(* The inductive invariants behind the position limit and the positions.   *)
(***************************************************************************)

\* The tickers of the buys not yet done with.
Buying ==
    {o.ticker : o \in {p \in todo : p.side = "buy"}}
        \cup (IF pc \in Handling /\ cur.side = "buy" THEN {cur.ticker} ELSE {})

\* What is held and what is being bought fit in the position slots, in what is
\* committed and in what is pending; until the candidates are judged only sells
\* wait and no position has moved.
SlotsInv ==
    /\ pc \in Deciding => db.pos = work.pos /\ \A o \in todo : o.side = "sell"
    /\ Cardinality(Held(db) \cup Buying) <= MaxPositions
    /\ Cardinality(Held(work) \cup Buying) <= MaxPositions

\* A trade is a sell that has filled.
TradesSound(L) == \A o \in L.trades : o.side = "sell" /\ L.fills[o] > 0

PositionsSound(L) == DerivedFromFills(L) /\ ClosedAreTrades(L) /\ TradesSound(L)

\* The broker fills an order up to its share count, and an order has shares.
FilledWithinOrder ==
    \A o \in Order :
        /\ broker[o].filled <= broker[o].qty
        /\ broker[o].status = "open" => broker[o].filled < broker[o].qty
        /\ db.orders[o] # "none" => db.qty[o] > 0

\* A ticker about to be bought is not held.
BuysOfNewTickers ==
    \A o \in todo : o.side = "buy" => db.pos[o.ticker] = 0 /\ work.pos[o.ticker] = 0

\* The position being opened is what its order has filled so far; the position
\* being sold covers what is left of the order, until it is closed.
SharesInHand ==
    pc \in Handling =>
        /\ cur.side = "buy" => work.pos[cur.ticker] = work.fills[cur]
        /\ cur.side = "sell" =>
               /\ work.qty[cur] <= work.pos[cur.ticker] + work.fills[cur]
               /\ cur \in work.trades => work.pos[cur.ticker] = 0

\* All L adds to the positions and trades of D is what order o has filled.
AddsFillsOf(o, D, L) ==
    /\ \A t \in Tickers \ {o.ticker} : L.pos[t] = D.pos[t]
    /\ o.side = "buy" =>
           /\ D.pos[o.ticker] = 0
           /\ L.pos[o.ticker] = L.fills[o]
           /\ L.trades = D.trades
    /\ o.side = "sell" =>
           /\ o \notin D.trades
           /\ D.pos[o.ticker] > 0
           /\ L.pos[o.ticker] + L.fills[o] = D.pos[o.ticker]
           /\ L.trades = IF L.pos[o.ticker] = 0 THEN D.trades \cup {o} ELSE D.trades

AddsOneOrder(D, L) ==
    \/ L.pos = D.pos /\ L.trades = D.trades
    \/ \E o \in Order : AddsFillsOf(o, D, L)

\* The fills of one order at a time are pending, of the order in hand if there is one.
OneOrderPending ==
    /\ pc \in Handling => AddsFillsOf(cur, db, work)
    /\ AddsOneOrder(db, work)

\* Inductive while settlement is not torn between its writes (see DbFaults).
PositionsInv ==
    /\ PositionsSound(db)
    /\ PositionsSound(work)
    /\ FilledWithinOrder
    /\ BuysOfNewTickers
    /\ SharesInHand
    /\ OneOrderPending
===============================================================================
