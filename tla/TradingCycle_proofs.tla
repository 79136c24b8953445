-------------------------- MODULE TradingCycle_proofs --------------------------
(***************************************************************************)
(* Theorems of the trading cycle, for every set of tickers and every value *)
(* of its bounds, and their proofs.                                        *)
(***************************************************************************)
EXTENDS CycleSafety, TLAPS

-------------------------------------------------------------------------------
(***************************************************************************)
(* The ledger's writes preserve the type of its tables.                    *)
(***************************************************************************)

\* The empty database is a ledger.
LEMMA EmptyLedgerType == EmptyLedger \in LedgerState
  BY LedgerAssumption DEF EmptyLedger, LedgerState, CycleStatus, OrderStatus

\* Inserting a cycle row, decision rows, or an order with its parents.
LEMMA InsertTypes ==
  ASSUME NEW L \in LedgerState
  PROVE  /\ \A c \in Cycles : InsertCycle(L, c) \in LedgerState
         /\ \A D \in SUBSET Order : InsertDecisions(L, D) \in LedgerState
         /\ \A o \in Order, q \in 1..Lot : RecordOrder(L, o, q) \in LedgerState
  <1>1. \A c \in Cycles : InsertCycle(L, c) \in LedgerState
    BY DEF InsertCycle, LedgerState, CycleStatus
  <1>2. \A D \in SUBSET Order : InsertDecisions(L, D) \in LedgerState
    BY DEF InsertDecisions, LedgerState
  <1>3. \A o \in Order, q \in 1..Lot : RecordOrder(L, o, q) \in LedgerState
    <2> TAKE o \in Order, q \in 1..Lot
    <2>1. [L EXCEPT !.decisions = @ \cup {o}, !.approvals = @ \cup {o}] \in LedgerState
      BY DEF LedgerState
    <2>2. [L.orders EXCEPT ![o] = "recorded"] \in [Order -> OrderStatus]
      BY DEF LedgerState, OrderStatus
    <2>3. [L.qty EXCEPT ![o] = q] \in [Order -> 0..Lot]
      BY LedgerAssumption DEF LedgerState
    <2> QED BY <2>1, <2>2, <2>3 DEF RecordOrder, LedgerState
  <1> QED BY <1>1, <1>2, <1>3

\* Updating an order's status, a cycle's outcome or the halted flag.
LEMMA UpdateTypes ==
  ASSUME NEW L \in LedgerState
  PROVE  /\ \A o \in Order, s \in OrderStatus : SetStatus(L, o, s) \in LedgerState
         /\ \A c \in Cycles, r \in CycleOutcome : FinishCycle(L, c, r) \in LedgerState
         /\ \A b \in BOOLEAN : [L EXCEPT !.halted = b] \in LedgerState
  <1>1. \A o \in Order, s \in OrderStatus : SetStatus(L, o, s) \in LedgerState
    BY DEF SetStatus, LedgerState
  <1>2. \A c \in Cycles, r \in CycleOutcome : FinishCycle(L, c, r) \in LedgerState
    BY DEF FinishCycle, LedgerState, CycleStatus
  <1>3. \A b \in BOOLEAN : [L EXCEPT !.halted = b] \in LedgerState
    BY DEF LedgerState
  <1> QED BY <1>1, <1>2, <1>3

\* Recording filled shares and moving the position by them.
LEMMA FillTypes ==
  ASSUME NEW L \in LedgerState, NEW o \in Order, NEW n \in Nat
  PROVE  /\ InsertFill(L, o, n) \in LedgerState
         /\ Applicable(L, o, n) => /\ MovePosition(L, o, n) \in LedgerState
                                   /\ SettleFill(L, o, n) \in LedgerState
  <1>1. InsertFill(L, o, n) \in LedgerState
    BY DEF InsertFill, LedgerState
  <1>2. o.ticker \in Tickers /\ o.side \in Side
    BY DEF Order
  <1>3. ASSUME Applicable(L, o, n) PROVE MovePosition(L, o, n) \in LedgerState
    <2>1. CASE o.side = "buy"
      BY <2>1, <1>2 DEF MovePosition, LedgerState
    <2>2. CASE o.side # "buy"
      BY <2>2, <1>2, <1>3 DEF MovePosition, LedgerState, Applicable
    <2> QED BY <2>1, <2>2
  <1>4. ASSUME Applicable(L, o, n) PROVE SettleFill(L, o, n) \in LedgerState
    BY <1>3, <1>4 DEF SettleFill, LedgerState
  <1> QED BY <1>1, <1>3, <1>4

-------------------------------------------------------------------------------
(***************************************************************************)
(* Type correctness.                                                       *)
(***************************************************************************)

\* The decisions of the current cycle are decisions.
LEMMA DecisionsType ==
  ASSUME cycle \in Cycles, NEW T \in SUBSET Tickers, NEW s \in Side
  PROVE  Decisions(T, s) \in SUBSET Order
  BY DEF Decisions, Decision, Order

\* While a cycle is deciding or ending, its number is the number of a cycle, and
\* an order is in hand whenever one is being handled.
InHand ==
    /\ pc # "idle" => cycle \in Cycles
    /\ pc \in Handling => cur \in Order

\* The initial state is well typed.
LEMMA InitType == Init => TypeOK /\ InHand
  <1> SUFFICES ASSUME Init PROVE TypeOK /\ InHand
    OBVIOUS
  <1>1. NoOrder \in BrokerOrder
    BY LedgerAssumption DEF NoOrder, BrokerOrder, BrokerStatus
  <1>2. broker \in [Order -> BrokerOrder]
    BY <1>1 DEF Init
  <1>3. elapsed \in 0..PollBudget /\ cycle \in 0..MaxCycles
    BY LedgerAssumption, CycleAssumption DEF Init
  <1> QED
    BY <1>2, <1>3, EmptyLedgerType
    DEF Init, TypeOK, InHand, PC, CycleOutcome, Handling

\* Steps that decide, from the lock to the last candidate, keep the types.
LEMMA DecideType == TypeOK /\ InHand /\ Decide => TypeOK' /\ InHand'
  <1> SUFFICES ASSUME TypeOK, InHand, Decide PROVE TypeOK' /\ InHand'
    OBVIOUS
  <1> USE DEF PC, Deciding, Handling
  <1>1. CASE StartCycle
    <2>1. cycle' \in Cycles /\ cycle' \in 0..MaxCycles
      BY <1>1, LedgerAssumption DEF StartCycle, IsHalted, TypeOK, Cycles
    <2>2. InsertCycle(work, cycle') \in LedgerState
      BY <2>1, InsertTypes DEF TypeOK
    <2>3. work' \in LedgerState
      <3>1. CASE work' = InsertCycle(work, cycle')
        BY <2>2, <3>1
      <3>2. ASSUME NEW T \in SUBSET Held(work),
                   work' = InsertDecisions(InsertCycle(work, cycle'),
                       {[cycle |-> cycle', ticker |-> t, side |-> "sell"] : t \in T})
            PROVE  work' \in LedgerState
        <4>1. {[cycle |-> cycle', ticker |-> t, side |-> "sell"] : t \in T} \in SUBSET Order
          BY <2>1 DEF Order, Side, Held
        <4> QED BY <2>2, <3>2, <4>1, InsertTypes
      <3> QED BY <1>1, <3>1, <3>2 DEF StartCycle, IsHalted
    <2> QED BY <1>1, <2>1, <2>3 DEF StartCycle, IsHalted, EndWith, TypeOK, InHand, CycleOutcome
  <1>2. ASSUME NEW isOpen \in BOOLEAN, NEW T \in SUBSET Tickers, NEW M \in SUBSET Tickers,
               EvaluateHoldings(isOpen, T, M)
        PROVE  TypeOK' /\ InHand'
    <2>1. Decisions(T, "sell") \in SUBSET Order
      BY <1>2, DecisionsType DEF EvaluateHoldings, ExecuteIfOpen, InHand, Side
    <2>2. work' \in LedgerState
      BY <1>2, <2>1, InsertTypes DEF EvaluateHoldings, ExecuteIfOpen, TypeOK
    <2> QED BY <1>2, <2>1, <2>2 DEF EvaluateHoldings, ExecuteIfOpen, EndWith, TypeOK, InHand, CycleOutcome
  <1>3. CASE WithinLimits
    BY <1>3 DEF WithinLimits, ExecuteIfOpen, EndWith, TypeOK, InHand, ledgerVars, CycleOutcome
  <1>4. ASSUME NEW C \in SUBSET Order, LossLimitBreached(C) PROVE TypeOK' /\ InHand'
    <2>1. \A o \in Order : [broker[o] EXCEPT !.status = "canceled"] \in BrokerOrder
      BY DEF TypeOK, BrokerOrder, BrokerStatus
    <2>2. broker' \in [Order -> BrokerOrder]
      BY <1>4, <2>1 DEF LossLimitBreached, TypeOK
    <2> QED BY <1>4, <2>2 DEF LossLimitBreached, TypeOK, InHand, ledgerVars
  <1>5. CASE PersistHalt
    <2>1. work' \in LedgerState
      BY <1>5, UpdateTypes DEF PersistHalt, Commit, TypeOK
    <2> QED BY <1>5, <2>1 DEF PersistHalt, Commit, EndWith, TypeOK, InHand, CycleOutcome
  <1>6. ASSUME NEW T \in SUBSET Tickers, EvaluateCandidates(T) PROVE TypeOK' /\ InHand'
    <2>1. Decisions(T, "buy") \in SUBSET Order
      BY <1>6, DecisionsType DEF EvaluateCandidates, ExecuteIfOpen, InHand, Side
    <2>2. work' \in LedgerState
      BY <1>6, <2>1, InsertTypes DEF EvaluateCandidates, ExecuteIfOpen, TypeOK
    <2> QED BY <1>6, <2>1, <2>2 DEF EvaluateCandidates, ExecuteIfOpen, EndWith, TypeOK, InHand, CycleOutcome
  <1> QED BY <1>1, <1>2, <1>3, <1>4, <1>5, <1>6 DEF Decide

\* The order in hand, received by the broker, is still a broker order.
LEMMA ReceiveOrderType ==
  ASSUME TypeOK, cur \in Order
  PROVE  ReceiveOrder \in [Order -> BrokerOrder]
  <1>1. [status |-> "open", qty |-> work.qty[cur], filled |-> 0] \in BrokerOrder
    BY DEF TypeOK, LedgerState, BrokerOrder, BrokerStatus
  <1> QED BY <1>1 DEF ReceiveOrder, TypeOK

\* The state of a process that holds no lock is well typed.
LEMMA ReleaseType ==
  ASSUME Release
  PROVE  /\ pc' = "idle" /\ pc' \in PC
         /\ open' \in BOOLEAN
         /\ outcome' \in CycleOutcome
         /\ todo' \subseteq Order
         /\ cur' \in Order \cup {NoDecision}
         /\ recorded' \in Nat
         /\ elapsed' \in 0..PollBudget
  <1>1. open' \in BOOLEAN
    BY DEF Release
  <1>2. cur' \in Order \cup {NoDecision}
    BY DEF Release, DropOrder
  <1>3. recorded' \in Nat /\ elapsed' \in 0..PollBudget
    BY CycleAssumption DEF Release, DropOrder
  <1>4. pc' = "idle" /\ pc' \in PC /\ outcome' \in CycleOutcome /\ todo' \subseteq Order
    BY DEF Release, PC, CycleOutcome
  <1> QED BY <1>1, <1>2, <1>3, <1>4

\* Steps that execute, poll and settle orders, or end the cycle, keep the types.
LEMMA ExecuteType == TypeOK /\ InHand /\ Execute => TypeOK' /\ InHand'
  <1> SUFFICES ASSUME TypeOK, InHand, Execute PROVE TypeOK' /\ InHand'
    OBVIOUS
  <1> USE DEF PC, Deciding, Handling
  <1>1. ASSUME NEW o \in todo, NotApproved(o) PROVE TypeOK' /\ InHand'
    BY <1>1 DEF NotApproved, NextDecision, TypeOK, InHand, ledgerVars
  <1>2. ASSUME NEW o \in todo, NEW q \in 1..Lot, RecordThenCommit(o, q)
        PROVE  TypeOK' /\ InHand'
    <2>1. o \in Order
      BY DEF TypeOK
    <2>2. work' \in LedgerState
      BY <1>2, <2>1, InsertTypes DEF RecordThenCommit, Commit, TypeOK
    <2> QED BY <1>2, <2>1, <2>2 DEF RecordThenCommit, Commit, NextDecision, TypeOK, InHand
  <1>3. CASE Submit
    BY <1>3, ReceiveOrderType DEF Submit, TypeOK, InHand, ledgerVars
  <1>4. CASE MarkSubmitted
    <2>1. SetStatus(work, cur, "submitted") \in LedgerState
      BY <1>4, UpdateTypes DEF MarkSubmitted, InHand, TypeOK, OrderStatus
    <2>2. recorded' \in Nat /\ elapsed' \in 0..PollBudget
      BY <1>4, CycleAssumption DEF MarkSubmitted, InHand, TypeOK, LedgerState
    <2> QED BY <1>4, <2>1, <2>2 DEF MarkSubmitted, TypeOK, InHand
  <1>5. ASSUME NEW priced \in BOOLEAN, Poll(priced) PROVE TypeOK' /\ InHand'
    <2> DEFINE b == broker[cur]
               fill == NewShares > 0 /\ priced
               oversold == fill /\ ~Applicable(work, cur, NewShares)
               inserted == IF fill THEN InsertFill(work, cur, NewShares) ELSE work
               settled == IF fill THEN SettleFill(inserted, cur, NewShares) ELSE work
    <2>1. cur \in Order
      BY <1>5 DEF Poll, TimedOut, Sleep, InHand
    <2>2. b \in BrokerOrder /\ b.filled \in Nat
      BY <2>1 DEF TypeOK, BrokerOrder
    <2>3. fill => NewShares \in Nat
      BY <2>2 DEF NewShares, TypeOK
    <2>4. inserted \in LedgerState
      BY <2>1, <2>3, FillTypes DEF TypeOK
    <2>5. fill /\ Applicable(work, cur, NewShares) => Applicable(inserted, cur, NewShares)
      BY <2>1 DEF Applicable, InsertFill, TypeOK, LedgerState
    <2>6. ~oversold => settled \in LedgerState
      BY <2>1, <2>3, <2>4, <2>5, FillTypes DEF TypeOK
    <2>7. Reported(b) \in OrderStatus
      <3>1. b.status # "open" => b.status \in OrderStatus
        BY <2>2 DEF BrokerOrder, BrokerStatus, OrderStatus
      <3> QED BY <3>1 DEF Reported, OrderStatus
    <2>8. ~oversold => SetStatus(settled, cur, Reported(b)) \in LedgerState
      BY <2>1, <2>6, <2>7, UpdateTypes
    <2>9. work' \in LedgerState
      BY <1>5, <2>4, <2>8 DEF Poll, TimedOut, Sleep
    <2>10. CASE pc' = "execute" /\ DropOrder
      BY <1>5, <2>9, <2>10, CycleAssumption DEF Poll, TimedOut, Sleep, DropOrder, TypeOK, InHand
    <2>11. CASE ~(pc' = "execute" /\ DropOrder)
      <3>1. /\ ~(elapsed >= PollBudget)
            /\ recorded' = IF fill THEN b.filled ELSE recorded
            /\ elapsed' = elapsed + 1
            /\ UNCHANGED <<pc, cur>>
        BY <1>5, <2>11 DEF Poll, TimedOut, Sleep
      <3>2. recorded' \in Nat /\ elapsed' \in 0..PollBudget
        BY <2>2, <3>1, CycleAssumption DEF TypeOK
      <3> HIDE DEF b, fill, oversold, inserted, settled
      <3> QED BY <1>5, <2>9, <3>1, <3>2 DEF Poll, TimedOut, Sleep, TypeOK, InHand
    <2> QED BY <2>10, <2>11
  <1>6. CASE NothingLeft
    BY <1>6 DEF NothingLeft, TypeOK, InHand, ledgerVars
  <1>7. CASE Finish
    <2>1. FinishCycle(work, cycle, outcome) \in LedgerState
      BY <1>7, UpdateTypes DEF Finish, Commit, TypeOK, InHand
    <2>2. work' \in LedgerState /\ db' \in LedgerState
      BY <1>7, <2>1 DEF Finish, Commit, TypeOK
    <2> QED BY <1>7, <2>2, ReleaseType DEF Finish, Commit, TypeOK, InHand
  <1> QED BY <1>1, <1>2, <1>3, <1>4, <1>5, <1>6, <1>7 DEF Execute

\* Calls that fail keep the types.
LEMMA FailType == TypeOK /\ InHand /\ Fail => TypeOK' /\ InHand'
  <1> SUFFICES ASSUME TypeOK, InHand, Fail PROVE TypeOK' /\ InHand'
    OBVIOUS
  <1> USE DEF PC, Deciding, Handling
  <1>1. CASE MarketClockUnavailable
    BY <1>1 DEF MarketClockUnavailable, EndWith, TypeOK, InHand, ledgerVars, CycleOutcome
  <1>2. ASSUME NEW T \in SUBSET Tickers, HoldingsFail(T) PROVE TypeOK' /\ InHand'
    <2>1. Decisions(T, "sell") \in SUBSET Order
      BY <1>2, DecisionsType DEF HoldingsFail, InHand, Side
    <2>2. work' \in LedgerState
      BY <1>2, <2>1, InsertTypes DEF HoldingsFail, TypeOK
    <2> QED BY <1>2, <2>2 DEF HoldingsFail, EndWith, TypeOK, InHand, CycleOutcome
  <1>3. CASE AccountUnavailable
    BY <1>3 DEF AccountUnavailable, EndWith, TypeOK, InHand, ledgerVars, CycleOutcome
  <1>4. CASE SnapshotFails
    BY <1>4 DEF SnapshotFails, EndWith, TypeOK, InHand, ledgerVars, CycleOutcome
  <1>5. CASE PersistHaltFails
    BY <1>5 DEF PersistHaltFails, Rollback, EndWith, TypeOK, InHand, CycleOutcome
  <1>6. ASSUME NEW T \in SUBSET Tickers, CandidatesFail(T) PROVE TypeOK' /\ InHand'
    <2>1. Decisions(T, "buy") \in SUBSET Order
      BY <1>6, DecisionsType DEF CandidatesFail, InHand, Side
    <2>2. work' \in LedgerState
      BY <1>6, <2>1, InsertTypes DEF CandidatesFail, TypeOK
    <2> QED BY <1>6, <2>2 DEF CandidatesFail, EndWith, TypeOK, InHand, CycleOutcome
  <1>7. ASSUME NEW o \in todo, RecordFails(o) PROVE TypeOK' /\ InHand'
    BY <1>7 DEF RecordFails, Rollback, NextDecision, TypeOK, InHand
  <1>8. ASSUME NEW accepted \in BOOLEAN, SubmitErr(accepted) PROVE TypeOK' /\ InHand'
    <2>1. cur \in Order
      BY <1>8 DEF SubmitErr, InHand
    <2>2. broker' \in [Order -> BrokerOrder]
      BY <1>8, <2>1, ReceiveOrderType DEF SubmitErr, TypeOK
    <2>3. SetStatus(work, cur, "failed") \in LedgerState
      BY <2>1, UpdateTypes DEF TypeOK, OrderStatus
    <2>4. work' \in LedgerState
      BY <1>8, <2>3 DEF SubmitErr, TypeOK
    <2>5. recorded' \in Nat /\ elapsed' \in 0..PollBudget /\ cur' = NoDecision
      BY <1>8, CycleAssumption DEF SubmitErr, DropOrder
    <2> QED BY <1>8, <2>2, <2>4, <2>5 DEF SubmitErr, TypeOK, InHand
  <1>9. CASE MarkSubmittedFails
    BY <1>9, CycleAssumption DEF MarkSubmittedFails, DropOrder, TypeOK, InHand, ledgerVars
  <1>10. CASE PollErr
    BY <1>10, CycleAssumption DEF PollErr, DropOrder, TypeOK, InHand, ledgerVars
  <1>11. ASSUME NEW fault \in DbFaults, PollWriteFails(fault) PROVE TypeOK' /\ InHand'
    <2>1. cur \in Order /\ NewShares \in Nat /\ Applicable(work, cur, NewShares)
      BY <1>11 DEF PollWriteFails, InHand, NewShares, TypeOK, BrokerOrder
    <2>2. InsertFill(work, cur, NewShares) \in LedgerState
      BY <2>1, FillTypes DEF TypeOK
    <2>3. Applicable(InsertFill(work, cur, NewShares), cur, NewShares)
      BY <2>1 DEF Applicable, InsertFill, TypeOK, LedgerState
    <2>4. /\ MovePosition(InsertFill(work, cur, NewShares), cur, NewShares) \in LedgerState
          /\ SettleFill(InsertFill(work, cur, NewShares), cur, NewShares) \in LedgerState
      BY <2>1, <2>2, <2>3, FillTypes
    <2>5. work' \in LedgerState
      BY <1>11, <2>2, <2>4 DEF PollWriteFails, TypeOK
    <2> QED BY <1>11, <2>5, CycleAssumption DEF PollWriteFails, DropOrder, TypeOK, InHand
  <1> QED
    BY <1>1, <1>2, <1>3, <1>4, <1>5, <1>6, <1>7, <1>8, <1>9, <1>10, <1>11 DEF Fail

\* Crashes, the operator and the broker keep the types.
LEMMA EnvironmentType == TypeOK /\ InHand /\ Environment => TypeOK' /\ InHand'
  <1> SUFFICES ASSUME TypeOK, InHand, Environment PROVE TypeOK' /\ InHand'
    OBVIOUS
  <1>1. CASE Crash
    BY <1>1, ReleaseType DEF Crash, Rollback, TypeOK, InHand, Handling
  <1>2. CASE Resume
    <2>1. db' \in LedgerState
      BY <1>2, UpdateTypes DEF Resume, Commit, TypeOK
    <2> QED BY <1>2, <2>1 DEF Resume, Commit, TypeOK, InHand, runVars
  <1>3. ASSUME NEW o \in Order, BrokerFill(o) PROVE TypeOK' /\ InHand'
    <2> DEFINE f == broker[o].filled + 1
               s == IF f = broker[o].qty THEN "filled" ELSE "open"
    <2>1. f \in Nat /\ s \in BrokerStatus /\ broker[o] \in BrokerOrder
      BY DEF TypeOK, BrokerOrder, BrokerStatus
    <2>2. [broker[o] EXCEPT !.filled = f, !.status = s] \in BrokerOrder
      BY <2>1 DEF BrokerOrder
    <2>3. broker' = [broker EXCEPT ![o] = [broker[o] EXCEPT !.filled = f, !.status = s]]
      BY <1>3 DEF BrokerFill, TypeOK, BrokerOrder
    <2>4. broker' \in [Order -> BrokerOrder]
      BY <2>2, <2>3 DEF TypeOK
    <2> QED BY <1>3, <2>4 DEF BrokerFill, TypeOK, InHand, runVars, ledgerVars
  <1>4. ASSUME NEW o \in Order, BrokerClose(o) PROVE TypeOK' /\ InHand'
    <2>1. PICK s \in {"canceled", "rejected"} : broker' = [broker EXCEPT ![o].status = s]
      BY <1>4 DEF BrokerClose
    <2>2. [broker[o] EXCEPT !.status = s] \in BrokerOrder
      BY DEF TypeOK, BrokerOrder, BrokerStatus
    <2>3. broker' \in [Order -> BrokerOrder]
      BY <2>1, <2>2 DEF TypeOK
    <2> QED BY <1>4, <2>3 DEF BrokerClose, TypeOK, InHand, runVars, ledgerVars
  <1> QED BY <1>1, <1>2, <1>3, <1>4 DEF Environment

\* Every reachable state of the cycle, the ledger and the broker is well typed.
THEOREM TypeCorrect == Spec => [](TypeOK /\ InHand)
  <1>1. TypeOK /\ InHand /\ [Next]_vars => (TypeOK /\ InHand)'
    <2> SUFFICES ASSUME TypeOK, InHand, [Next]_vars PROVE (TypeOK /\ InHand)'
      OBVIOUS
    <2>1. CASE Next
      BY <2>1, DecideType, ExecuteType, FailType, EnvironmentType DEF Next
    <2>2. CASE UNCHANGED vars
      BY <2>2 DEF vars, ledgerVars, runVars, TypeOK, InHand
    <2> QED BY <2>1, <2>2
  <1> QED BY InitType, <1>1, PTL DEF Spec
===============================================================================
